------------------------ MODULE ItineraryStore_proofs ------------------------
(***************************************************************************)
(* Proofs about ItineraryStore, for any number of requests, itineraries,   *)
(* hotels and days, any size of the pool, and any number of failures.      *)
(***************************************************************************)
EXTENDS ItineraryStore, FiniteSetTheorems, TLAPS

-----------------------------------------------------------------------------
(***************************************************************************)
(* The inductive invariant.                                                *)
(***************************************************************************)

(* A transaction holds its itinerary from its first write to its end.      *)
Writing == Transaction \ {"row"}
Holds(r) == pc[r] \in Writing

(* What a save writes, and what is left of it with the hotels of H.        *)
Stored(i, id, p, H) ==
  {ItineraryRow(i, p), DemographicsRow(i, id, p)}
    \cup {Row("hotel", i, <<p, n>>, p) : n \in H} \cup DayRows(i, p) \cup ActivityRows(i, p)

RowsOf(i) == {x \in db : x.of = i}

(* The tables that transaction r has replaced, and those it has written.   *)
Replaced(r) ==
  {"itinerary"}
    \cup (IF pc[r] \in {"findDemographics", "writeDemographics"} THEN {} ELSE {"demographics"})
    \cup (IF pc[r] \in {"addHotels", "dropDays", "addDays", "commit"} THEN {"hotel"} ELSE {})
    \cup (IF pc[r] \in {"addDays", "commit"} THEN {"day", "activity"} ELSE {})

Written(r) ==
  {"itinerary"}
    \cup (IF pc[r] \in {"findDemographics", "writeDemographics"} THEN {} ELSE {"demographics"})
    \cup (IF pc[r] \in {"dropDays", "addDays", "commit"} THEN {"hotel"} ELSE {})
    \cup (IF pc[r] = "commit" THEN {"day", "activity"} ELSE {})

(* Committed rows: nothing of an itinerary, or one payload.                *)
DbWhole ==
  \A i \in Itineraries :
    \/ RowsOf(i) = {}
    \/ \E id, p \in Payloads, H \in SUBSET Hotels : RowsOf(i) = Stored(i, id, p, H)

(* Every committed row was written by a save of its itinerary that ended.  *)
DbSigned ==
  \A x \in db :
    \/ x.by = Seed /\ x.of = Seed
    \/ /\ x.by \in Requests /\ x.of = Target[x.by]
       /\ pc[x.by] \in {"publish", "done"}
       /\ ended[x.by] \in {"commit", "unknown"}
       /\ answer[x.by] # 404

(* What a transaction has done so far.                                     *)
Progress(r) ==
  /\ deleted[r] = {x \in RowsOf(Target[r]) : x.table \in Replaced(r)}
  /\ \E id \in Payloads :
       inserted[r] = {x \in Stored(Target[r], id, r, Hotels) : x.table \in Written(r)}
  /\ Kind[r] = "put" => RowsOf(Target[r]) # {}
  /\ pc[r] = "writeDemographics" =>
       \/ found[r] = None /\ Of(db, Target[r], "demographics") = {}
       \/ \E x \in Of(db, Target[r], "demographics") : x.key = found[r]

(* A request that has not written anything has nothing to undo.            *)
Untouched(r) == deleted[r] = {} /\ inserted[r] = {} /\ found[r] = None

Tx(r) ==
  /\ Holds(r) => Progress(r)
  /\ ~Holds(r) => Untouched(r)
  /\ pc[r] = "findDemographics" => found[r] = None

(* No two transactions hold the same itinerary.                            *)
Exclusive == \A r, o \in Requests : Holds(r) /\ Holds(o) /\ Target[r] = Target[o] => r = o

(* The way of a request, and what is known of an itinerary before its post *)
(* has committed it.                                                       *)
Way(r) ==
  /\ pc[r] # "done" => answer[r] = 0
  /\ pc[r] \in Transaction => Kind[r] \in {"post", "put"}
  /\ pc[r] = "new" \/ pc[r] \in Transaction => ended[r] = "none"
  /\ pc[r] = "publish" => ended[r] = "commit"
  /\ r \in events => ended[r] = "commit" /\ pc[r] = "done"
  /\ pc[r] # "new" /\ Target[r] \in Requests \ {r} => answer[Target[r]] = 201
  /\ Kind[r] = "post" /\ (pc[r] = "new" \/ pc[r] \in Transaction) => RowsOf(r) = {}

DbInv == DbWhole /\ DbSigned

TxInv == (\A r \in Requests : Tx(r) /\ Way(r)) /\ Exclusive

(* What a GET has read.                                                    *)
Seen(r) ==
  IF pc[r] \in {"new", "getRow"} THEN {}
  ELSE IF pc[r] = "getDemographics" THEN {"itinerary"}
  ELSE IF pc[r] = "getHotels" THEN {"itinerary", "demographics"}
  ELSE IF pc[r] = "getDays" THEN {"itinerary", "demographics", "hotel"}
  ELSE {"itinerary", "demographics", "hotel", "day", "activity"}

Related(x, y) == x.table = y.table \/ {x.table, y.table} = {"day", "activity"}

ReadOne(r) ==
  /\ \A x \in got[r] : x.table \in Seen(r)
  /\ unread[r] \subseteq {x \in got[r] : x.table = "day"}
  /\ \A x, y \in got[r] : Related(x, y) => x.by = y.by

ReadInv == \A r \in Requests : ReadOne(r)

-----------------------------------------------------------------------------
(***************************************************************************)
(* Rows.                                                                   *)
(***************************************************************************)

RowsWith(i, p) ==
  {ItineraryRow(i, p)} \cup {DemographicsRow(i, id, p) : id \in Payloads}
    \cup HotelRows(i, p) \cup DayRows(i, p) \cup ActivityRows(i, p)

(* The rows are those of the payloads.                                     *)
LEMMA RowsByPayload == Rows = UNION {RowsWith(i, p) : i \in Itineraries, p \in Payloads}
BY DEF Rows, RowsWith

(* The rows of a payload are rows.                                         *)
LEMMA RowsTyped ==
  ASSUME NEW i \in Itineraries, NEW p \in Payloads, NEW id \in Payloads
  PROVE  /\ ItineraryRow(i, p) \in Rows /\ DemographicsRow(i, id, p) \in Rows
         /\ HotelRows(i, p) \subseteq Rows
         /\ DayRows(i, p) \subseteq Rows /\ ActivityRows(i, p) \subseteq Rows
<1>1. RowsWith(i, p) \in {RowsWith(j, q) : j \in Itineraries, q \in Payloads}
  OBVIOUS
<1>2. RowsWith(i, p) \subseteq Rows
  BY <1>1, RowsByPayload
<1> QED
  BY <1>2 DEF RowsWith

(* What a row says of itself.                                              *)
LEMMA RowFacts ==
  ASSUME NEW x \in Rows
  PROVE  /\ x.of \in Itineraries /\ x.by \in Payloads
         /\ x.table \in {"itinerary", "demographics", "hotel", "day", "activity"}
         /\ x.table = "itinerary" => x.key = x.of
         /\ x.table = "demographics" => x.key \in Payloads
         /\ x.table = "hotel" => \E n \in Hotels : x.key = <<x.by, n>>
         /\ x.table \in {"day", "activity"} => \E n \in Days : x.key = <<x.by, n>>
<1>1. PICK i \in Itineraries, p \in Payloads : x \in RowsWith(i, p)
  BY RowsByPayload
<1>2. CASE x = ItineraryRow(i, p)
  BY <1>2 DEF ItineraryRow, Row
<1>3. CASE x \in {DemographicsRow(i, id, p) : id \in Payloads}
  BY <1>3 DEF DemographicsRow, Row
<1>4. CASE x \in HotelRows(i, p)
  BY <1>4 DEF HotelRows, Row
<1>5. CASE x \in DayRows(i, p)
  BY <1>5 DEF DayRows, Row
<1>6. CASE x \in ActivityRows(i, p)
  BY <1>6 DEF ActivityRows, Row
<1> QED
  BY <1>1, <1>2, <1>3, <1>4, <1>5, <1>6 DEF RowsWith

(* What is stored for an itinerary, table by table.                        *)
LEMMA StoredFacts ==
  ASSUME NEW i \in Itineraries, NEW id \in Payloads, NEW p \in Payloads, NEW H \in SUBSET Hotels
  PROVE  /\ Stored(i, id, p, H) \subseteq Rows
         /\ \A x \in Stored(i, id, p, H) : x.of = i /\ x.by = p
         /\ Of(Stored(i, id, p, H), i, "itinerary") = {ItineraryRow(i, p)}
         /\ Of(Stored(i, id, p, H), i, "demographics") = {DemographicsRow(i, id, p)}
         /\ Of(Stored(i, id, p, H), i, "hotel") = {Row("hotel", i, <<p, n>>, p) : n \in H}
         /\ Of(Stored(i, id, p, H), i, "day") = DayRows(i, p)
         /\ Of(Stored(i, id, p, H), i, "activity") = ActivityRows(i, p)
<1> DEFINE HH == {Row("hotel", i, <<p, n>>, p) : n \in H}
<1>1. HH \subseteq HotelRows(i, p)
  BY DEF HotelRows
<1>2. Stored(i, id, p, H) = {ItineraryRow(i, p), DemographicsRow(i, id, p)}
                            \cup HH \cup DayRows(i, p) \cup ActivityRows(i, p)
  BY DEF Stored
<1>3. ItineraryRow(i, p).table = "itinerary" /\ ItineraryRow(i, p).of = i /\ ItineraryRow(i, p).by = p
  BY DEF ItineraryRow, Row
<1>4. /\ DemographicsRow(i, id, p).table = "demographics"
      /\ DemographicsRow(i, id, p).of = i /\ DemographicsRow(i, id, p).by = p
  BY DEF DemographicsRow, Row
<1>5. \A x \in HH : x.table = "hotel" /\ x.of = i /\ x.by = p
  BY DEF Row
<1>6. \A x \in DayRows(i, p) : x.table = "day" /\ x.of = i /\ x.by = p
  BY DEF DayRows, Row
<1>7. \A x \in ActivityRows(i, p) : x.table = "activity" /\ x.of = i /\ x.by = p
  BY DEF ActivityRows, Row
<1> HIDE DEF HH
<1>8. Stored(i, id, p, H) \subseteq Rows
  BY <1>1, <1>2, RowsTyped
<1>9. \A x \in Stored(i, id, p, H) : x.of = i /\ x.by = p
  BY <1>2, <1>3, <1>4, <1>5, <1>6, <1>7
<1>10. Of(Stored(i, id, p, H), i, "itinerary") = {ItineraryRow(i, p)}
  BY <1>2, <1>3, <1>4, <1>5, <1>6, <1>7 DEF Of
<1>11. Of(Stored(i, id, p, H), i, "demographics") = {DemographicsRow(i, id, p)}
  BY <1>2, <1>3, <1>4, <1>5, <1>6, <1>7 DEF Of
<1>12. Of(Stored(i, id, p, H), i, "hotel") = HH
  BY <1>2, <1>3, <1>4, <1>5, <1>6, <1>7 DEF Of
<1>13. Of(Stored(i, id, p, H), i, "day") = DayRows(i, p)
  BY <1>2, <1>3, <1>4, <1>5, <1>6, <1>7 DEF Of
<1>14. Of(Stored(i, id, p, H), i, "activity") = ActivityRows(i, p)
  BY <1>2, <1>3, <1>4, <1>5, <1>6, <1>7 DEF Of
<1> QED
  BY <1>8, <1>9, <1>10, <1>11, <1>12, <1>13, <1>14 DEF HH

-----------------------------------------------------------------------------
(***************************************************************************)
(* Typing.                                                                 *)
(***************************************************************************)

WritesTyped ==
  /\ db \in SUBSET Rows
  /\ deleted \in [Requests -> SUBSET Rows]
  /\ inserted \in [Requests -> SUBSET Rows]
  /\ found \in [Requests -> Payloads \cup {None}]

ReadsTyped ==
  /\ got \in [Requests -> SUBSET Rows]
  /\ unread \in [Requests -> SUBSET Rows]

WayTyped ==
  /\ pc \in [Requests -> Active \cup {"new", "done"}]
  /\ ended \in [Requests -> {"none", "commit", "rollback", "unknown"}]
  /\ answer \in [Requests -> {0, 200, 201, 404, 500}]
  /\ events \in SUBSET Requests

FaultsTyped == faults \in 0..MaxFaults /\ crashed \in BOOLEAN

StoreTyped == WritesTyped /\ ReadsTyped /\ WayTyped /\ FaultsTyped

(* An itinerary that is asked for is an itinerary.                         *)
LEMMA TargetTyped == \A r \in Requests : Target[r] \in Itineraries /\ r \in Payloads
BY DEF Itineraries, Payloads

(* What the statements see and write are rows.                             *)
LEMMA WritesStep ==
  ASSUME WritesTyped, [Next]_vars
  PROVE  WritesTyped'
<1> USE DEF WritesTyped, txVars, readVars
<1>1. ASSUME NEW r \in Requests, NEW S, NEW T \in SUBSET Rows, Write(r, S, T),
             UNCHANGED <<db, found>>
      PROVE  WritesTyped'
  BY <1>1 DEF Write
<1>2. ASSUME NEW r \in Requests, UNCHANGED <<deleted, inserted, found>>, db' \in SUBSET Rows
      PROVE  WritesTyped'
  BY <1>2
<1>3. ASSUME NEW r \in Requests, Forget(r), db' \in SUBSET Rows
      PROVE  WritesTyped'
  BY <1>3 DEF Forget
<1>4. ASSUME NEW r \in Requests
      PROVE  View(r) \subseteq Rows
  BY DEF View
<1>5. ASSUME NEW r \in Requests, Save(r)
      PROVE  WritesTyped'
  <2>1. CASE BeginSave(r) \/ UpdateMissing(r) \/ PublishCreated(r)
    BY <2>1, <1>2 DEF BeginSave, UpdateMissing, PublishCreated
  <2>2. CASE InsertItinerary(r)
    <3>1. Kind[r] = "post" => r \in Itineraries
      BY StoreAssumption, TargetTyped
    <3> QED
      BY <2>2, <3>1, <1>1, RowsTyped, TargetTyped DEF InsertItinerary
  <2>3. CASE UpdateItineraryRow(r)
    BY <2>3, <1>1, RowsTyped, TargetTyped DEF UpdateItineraryRow
  <2>4. CASE FindDemographics(r)
    <3>1. \A x \in Of(View(r), Target[r], "demographics") : x.key \in Payloads
      BY <1>4, RowFacts DEF Of
    <3> QED
      BY <2>4, <3>1 DEF FindDemographics
  <2>5. CASE WriteDemographics(r)
    <3>1. DemographicsRow(Target[r], IF found[r] = None THEN r ELSE found[r], r) \in Rows
      BY RowsTyped, TargetTyped
    <3>2. CASE UNCHANGED <<deleted, inserted>>
      BY <2>5, <3>2, <1>2 DEF WriteDemographics
    <3> QED
      BY <2>5, <3>1, <3>2, <1>1 DEF WriteDemographics
  <2>6. CASE DropHotels(r) \/ DropDays(r)
    BY <2>6, <1>1 DEF DropHotels, DropDays
  <2>7. CASE AddHotels(r)
    BY <2>7, <1>1, RowsTyped, TargetTyped DEF AddHotels
  <2>8. CASE AddDays(r)
    BY <2>8, <1>1, RowsTyped, TargetTyped DEF AddDays
  <2>9. CASE Commit(r)
    BY <2>9, <1>3, <1>4 DEF Commit
  <2> QED
    BY <1>5, <2>1, <2>2, <2>3, <2>4, <2>5, <2>6, <2>7, <2>8, <2>9 DEF Save
<1>6. ASSUME NEW r \in Requests, Remove(r) \/ Read(r)
      PROVE  WritesTyped'
  BY <1>6, <1>2
     DEF Remove, BeginRemove, DeleteItineraryById, DeleteAccommodationById, Read, BeginRead,
         GetRow, GetDemographics, GetHotels, GetDays, GetActivities, AnswerRead, Select
<1>7. ASSUME NEW r \in Requests, CommitUnknown(r) \/ Rollback(r) \/ StatementFails(r)
      PROVE  WritesTyped'
  BY <1>7, <1>3, <1>4 DEF CommitUnknown, Rollback, StatementFails
<1>8. CASE Crash
  BY <1>8 DEF Crash
<1>9. CASE UNCHANGED vars
  BY <1>9 DEF vars
<1> QED
  BY <1>5, <1>6, <1>7, <1>8, <1>9 DEF Next

(* What a GET has read are rows.                                           *)
LEMMA ReadsTypedStep ==
  ASSUME WritesTyped, ReadsTyped, [Next]_vars
  PROVE  ReadsTyped'
<1> USE DEF WritesTyped, ReadsTyped, txVars, readVars
<1>1. ASSUME UNCHANGED readVars
      PROVE  ReadsTyped'
  BY <1>1
<1>2. ASSUME NEW r \in Requests, Save(r) \/ Remove(r) \/ CommitUnknown(r) \/ Rollback(r) \/ StatementFails(r)
      PROVE  ReadsTyped'
  BY <1>1, <1>2
     DEF Save, BeginSave, InsertItinerary, UpdateItineraryRow, UpdateMissing, FindDemographics,
         WriteDemographics, DropHotels, AddHotels, DropDays, AddDays, Commit, PublishCreated,
         Remove, BeginRemove, DeleteItineraryById, DeleteAccommodationById, CommitUnknown,
         Rollback, StatementFails
<1>3. ASSUME NEW r \in Requests, Read(r)
      PROVE  ReadsTyped'
  <2>1. CASE GetActivities(r)
    BY <2>1 DEF GetActivities, Of
  <2>2. CASE GetDays(r)
    BY <2>2 DEF GetDays, Select, Of
  <2>3. CASE GetRow(r) \/ GetDemographics(r) \/ GetHotels(r)
    BY <2>3 DEF GetRow, GetDemographics, GetHotels, Select, Of
  <2>4. CASE BeginRead(r) \/ AnswerRead(r)
    BY <2>4, <1>1 DEF BeginRead, AnswerRead
  <2> QED
    BY <1>3, <2>1, <2>2, <2>3, <2>4 DEF Read
<1>4. CASE Crash
  BY <1>4 DEF Crash
<1>5. CASE UNCHANGED vars
  BY <1>5 DEF vars
<1> QED
  BY <1>2, <1>3, <1>4, <1>5 DEF Next

(* Requests stay on their way.                                             *)
LEMMA WayTypedStep ==
  ASSUME WayTyped, [Next]_vars
  PROVE  WayTyped'
<1> USE DEF WayTyped, Active, Transaction, Reading, Goto, Answer, txVars, readVars
<1>1. ASSUME NEW r \in Requests, Save(r)
      PROVE  WayTyped'
  <2>1. CASE BeginSave(r) \/ InsertItinerary(r) \/ UpdateItineraryRow(r) \/ UpdateMissing(r)
    BY <2>1 DEF BeginSave, InsertItinerary, UpdateItineraryRow, UpdateMissing
  <2>2. CASE FindDemographics(r) \/ WriteDemographics(r) \/ DropHotels(r) \/ AddHotels(r)
    BY <2>2 DEF FindDemographics, WriteDemographics, DropHotels, AddHotels
  <2>3. CASE DropDays(r) \/ AddDays(r) \/ Commit(r) \/ PublishCreated(r)
    BY <2>3 DEF DropDays, AddDays, Commit, PublishCreated
  <2> QED
    BY <1>1, <2>1, <2>2, <2>3 DEF Save
<1>2. ASSUME NEW r \in Requests, Remove(r)
      PROVE  WayTyped'
  <2>1. ASSUME NEW code \in {200, 404}, Answer(r, code), Goto(r, "done"), UNCHANGED <<ended, events>>
        PROVE  WayTyped'
    BY <2>1
  <2>2. CASE BeginRemove(r)
    BY <2>2 DEF BeginRemove
  <2> HIDE DEF Answer, Goto
  <2>3. CASE DeleteItineraryById(r)
    BY <2>1, <2>3 DEF DeleteItineraryById
  <2>4. CASE DeleteAccommodationById(r)
    BY <2>1, <2>4 DEF DeleteAccommodationById
  <2> QED
    BY <1>2, <2>2, <2>3, <2>4 DEF Remove
<1>3. ASSUME NEW r \in Requests, Read(r)
      PROVE  WayTyped'
  BY <1>3 DEF Read, BeginRead, GetRow, GetDemographics, GetHotels, GetDays, GetActivities,
              AnswerRead, Select
<1>4. ASSUME NEW r \in Requests, CommitUnknown(r) \/ Rollback(r) \/ StatementFails(r)
      PROVE  WayTyped'
  BY <1>4 DEF CommitUnknown, Rollback, StatementFails
<1>5. CASE Crash
  BY <1>5 DEF Crash
<1>6. CASE UNCHANGED vars
  BY <1>6 DEF vars
<1> QED
  BY <1>1, <1>2, <1>3, <1>4, <1>5, <1>6 DEF Next

(* The bound on faults is kept.                                            *)
LEMMA FaultsTypedStep ==
  ASSUME FaultsTyped, [Next]_vars
  PROVE  FaultsTyped'
<1> USE DEF FaultsTyped
<1>1. ASSUME NEW r \in Requests, Save(r) \/ Remove(r) \/ Read(r)
      PROVE  UNCHANGED <<faults, crashed>>
  BY <1>1
     DEF Save, BeginSave, InsertItinerary, UpdateItineraryRow, UpdateMissing, FindDemographics,
         WriteDemographics, DropHotels, AddHotels, DropDays, AddDays, Commit, PublishCreated,
         Remove, BeginRemove, DeleteItineraryById, DeleteAccommodationById,
         Read, BeginRead, GetRow, GetDemographics, GetHotels, GetDays, GetActivities,
         AnswerRead, Select
<1>2. ASSUME NEW r \in Requests, CommitUnknown(r) \/ Rollback(r) \/ StatementFails(r)
      PROVE  FaultsTyped'
  BY <1>2, StoreAssumption DEF CommitUnknown, Rollback, StatementFails
<1>3. CASE Crash
  <2>1. crashed' \in BOOLEAN
    BY <1>3, Zenon DEF Crash
  <2> QED
    BY <1>3, <2>1, StoreAssumption DEF Crash
<1>4. CASE UNCHANGED vars
  BY <1>4 DEF vars
<1> QED
  BY <1>1, <1>2, <1>3, <1>4 DEF Next

(* Every step keeps the types.                                             *)
LEMMA TypedStep ==
  ASSUME StoreTyped, [Next]_vars
  PROVE  StoreTyped'
BY WritesStep, ReadsTypedStep, WayTypedStep, FaultsTypedStep DEF StoreTyped

(* The seeded database is well-formed.                                     *)
LEMMA InitTyped == Init => StoreTyped
<1> SUFFICES ASSUME Init PROVE StoreTyped
  OBVIOUS
<1>1. Seed \in Itineraries /\ Seed \in Payloads
  BY DEF Itineraries, Payloads
<1>2. WritesTyped
  BY <1>1, RowsTyped DEF Init, WritesTyped
<1>3. ReadsTyped /\ WayTyped
  BY DEF Init, ReadsTyped, WayTyped
<1>4. FaultsTyped
  <2>1. crashed \in BOOLEAN
    BY Zenon DEF Init
  <2> QED
    BY <2>1, StoreAssumption DEF Init, FaultsTyped
<1> QED
  BY <1>2, <1>3, <1>4 DEF StoreTyped

-----------------------------------------------------------------------------
(***************************************************************************)
(* Steps that leave the committed rows alone.                              *)
(***************************************************************************)

(* What a transaction has inserted, table by table.                        *)
LEMMA StoredTables ==
  ASSUME NEW i \in Itineraries, NEW id \in Payloads, NEW p \in Payloads
  PROVE  LET S == Stored(i, id, p, Hotels)
         IN  /\ {x \in S : x.table \in {"itinerary"}} = {ItineraryRow(i, p)}
             /\ {x \in S : x.table \in {"itinerary", "demographics"}}
                  = {ItineraryRow(i, p), DemographicsRow(i, id, p)}
             /\ {x \in S : x.table \in {"itinerary", "demographics", "hotel"}}
                  = {ItineraryRow(i, p), DemographicsRow(i, id, p)} \cup HotelRows(i, p)
             /\ S = {ItineraryRow(i, p), DemographicsRow(i, id, p)} \cup HotelRows(i, p)
                      \cup DayRows(i, p) \cup ActivityRows(i, p)
<1> DEFINE S == Stored(i, id, p, Hotels)
<1>1. /\ ItineraryRow(i, p).table = "itinerary"
      /\ DemographicsRow(i, id, p).table = "demographics"
      /\ \A x \in HotelRows(i, p) : x.table = "hotel"
      /\ \A x \in DayRows(i, p) : x.table = "day"
      /\ \A x \in ActivityRows(i, p) : x.table = "activity"
  BY DEF ItineraryRow, DemographicsRow, HotelRows, DayRows, ActivityRows, Row
<1>2. S = {ItineraryRow(i, p), DemographicsRow(i, id, p)} \cup HotelRows(i, p)
            \cup DayRows(i, p) \cup ActivityRows(i, p)
  BY DEF Stored, HotelRows
<1> HIDE DEF S
<1>3. {x \in S : x.table \in {"itinerary"}} = {ItineraryRow(i, p)}
  BY <1>1, <1>2
<1>4. {x \in S : x.table \in {"itinerary", "demographics"}}
        = {ItineraryRow(i, p), DemographicsRow(i, id, p)}
  BY <1>1, <1>2
<1>5. {x \in S : x.table \in {"itinerary", "demographics", "hotel"}}
        = {ItineraryRow(i, p), DemographicsRow(i, id, p)} \cup HotelRows(i, p)
  BY <1>1, <1>2
<1> QED
  BY <1>2, <1>3, <1>4, <1>5 DEF S

(* What a transaction has written and what it has replaced, at each of its *)
(* statements.                                                             *)
LEMMA ProgressForms ==
  ASSUME NEW r \in Requests, Holds(r), Progress(r)
  PROVE  \E id \in Payloads :
           LET t == Target[r]
           IN  /\ pc[r] \in {"findDemographics", "writeDemographics"} =>
                    /\ deleted[r] = {x \in RowsOf(t) : x.table = "itinerary"}
                    /\ inserted[r] = {ItineraryRow(t, r)}
               /\ pc[r] \notin {"findDemographics", "writeDemographics"} =>
                    {ItineraryRow(t, r), DemographicsRow(t, id, r)} \subseteq inserted[r]
               /\ pc[r] = "dropHotels" =>
                    deleted[r] = {x \in RowsOf(t) : x.table \in {"itinerary", "demographics"}}
               /\ pc[r] \in {"dropHotels", "addHotels"} =>
                    inserted[r] = {ItineraryRow(t, r), DemographicsRow(t, id, r)}
               /\ pc[r] \in {"addHotels", "dropDays"} =>
                    deleted[r] = {x \in RowsOf(t) : x.table \in {"itinerary", "demographics", "hotel"}}
               /\ pc[r] \in {"dropDays", "addDays"} =>
                    inserted[r] = {ItineraryRow(t, r), DemographicsRow(t, id, r)} \cup HotelRows(t, r)
               /\ pc[r] \in {"addDays", "commit"} => deleted[r] = {x \in RowsOf(t) : x.table \in
                    {"itinerary", "demographics", "hotel", "day", "activity"}}
               /\ pc[r] = "commit" => inserted[r] = Stored(t, id, r, Hotels)
<1> DEFINE t == Target[r]
<1>1. t \in Itineraries /\ r \in Payloads
  BY TargetTyped
<1>2. PICK id \in Payloads :
        inserted[r] = {x \in Stored(t, id, r, Hotels) : x.table \in Written(r)}
  BY DEF Progress
<1> DEFINE S == Stored(t, id, r, Hotels)
<1>3. deleted[r] = {x \in RowsOf(t) : x.table \in Replaced(r)}
  BY DEF Progress
<1>4. /\ {x \in S : x.table \in {"itinerary"}} = {ItineraryRow(t, r)}
      /\ {x \in S : x.table \in {"itinerary", "demographics"}}
           = {ItineraryRow(t, r), DemographicsRow(t, id, r)}
      /\ {x \in S : x.table \in {"itinerary", "demographics", "hotel"}}
           = {ItineraryRow(t, r), DemographicsRow(t, id, r)} \cup HotelRows(t, r)
      /\ S = {ItineraryRow(t, r), DemographicsRow(t, id, r)} \cup HotelRows(t, r)
               \cup DayRows(t, r) \cup ActivityRows(t, r)
  BY <1>1, StoredTables
<1>5. \A x \in S : x.table \in {"itinerary", "demographics", "hotel", "day", "activity"}
  BY <1>1, StoredFacts, RowFacts
<1>6. inserted[r] = {x \in S : x.table \in Written(r)}
  BY <1>2
<1> HIDE DEF S
<1>7. CASE pc[r] \in {"findDemographics", "writeDemographics"}
  <2>1. Replaced(r) = {"itinerary"} /\ Written(r) = {"itinerary"}
    BY <1>7 DEF Replaced, Written
  <2> QED
    BY <1>3, <1>4, <1>6, <1>7, <2>1
<1>8. CASE pc[r] = "dropHotels"
  <2>1. /\ Replaced(r) = {"itinerary", "demographics"}
        /\ Written(r) = {"itinerary", "demographics"}
    BY <1>8 DEF Replaced, Written
  <2> QED
    BY <1>3, <1>4, <1>6, <1>8, <2>1
<1>9. CASE pc[r] = "addHotels"
  <2>1. /\ Replaced(r) = {"itinerary", "demographics", "hotel"}
        /\ Written(r) = {"itinerary", "demographics"}
    BY <1>9 DEF Replaced, Written
  <2> QED
    BY <1>3, <1>4, <1>6, <1>9, <2>1
<1>10. CASE pc[r] = "dropDays"
  <2>1. /\ Replaced(r) = {"itinerary", "demographics", "hotel"}
        /\ Written(r) = {"itinerary", "demographics", "hotel"}
    BY <1>10 DEF Replaced, Written
  <2> QED
    BY <1>3, <1>4, <1>6, <1>10, <2>1
<1>11. CASE pc[r] = "addDays"
  <2>1. /\ Replaced(r) = {"itinerary", "demographics", "hotel", "day", "activity"}
        /\ Written(r) = {"itinerary", "demographics", "hotel"}
    BY <1>11 DEF Replaced, Written
  <2> QED
    BY <1>3, <1>4, <1>6, <1>11, <2>1
<1>12. CASE pc[r] = "commit"
  <2>1. /\ Replaced(r) = {"itinerary", "demographics", "hotel", "day", "activity"}
        /\ Written(r) = {"itinerary", "demographics", "hotel", "day", "activity"}
    BY <1>12 DEF Replaced, Written
  <2>2. inserted[r] = S
    BY <1>5, <1>6, <2>1
  <2> QED
    BY <1>3, <1>4, <1>12, <2>1, <2>2 DEF S
<1> QED
  BY <1>7, <1>8, <1>9, <1>10, <1>11, <1>12 DEF Holds, Writing, Transaction

(* Two rows of one itinerary and one table are the same, except hotels,    *)
(* days and activities.                                                    *)
LEMMA SingleRows ==
  ASSUME WritesTyped, DbWhole, NEW i \in Itineraries
  PROVE  /\ \A x, y \in Of(db, i, "demographics") : x = y
         /\ \A x \in Of(db, i, "itinerary") : x.key = i
         /\ RowsOf(i) # {} => Of(db, i, "itinerary") # {}
<1>1. \A x \in Of(db, i, "itinerary") : x.key = i
  BY RowFacts DEF WritesTyped, Of
<1>2. CASE RowsOf(i) = {}
  BY <1>1, <1>2 DEF RowsOf, Of
<1>3. ASSUME NEW id \in Payloads, NEW p \in Payloads, NEW H \in SUBSET Hotels,
             RowsOf(i) = Stored(i, id, p, H)
      PROVE  /\ \A x, y \in Of(db, i, "demographics") : x = y
             /\ Of(db, i, "itinerary") # {}
  <2>1. \A table : Of(db, i, table) = Of(Stored(i, id, p, H), i, table)
    BY <1>3 DEF Of, RowsOf
  <2>2. /\ Of(db, i, "demographics") = {DemographicsRow(i, id, p)}
        /\ Of(db, i, "itinerary") = {ItineraryRow(i, p)}
    BY <2>1, StoredFacts
  <2> QED
    BY <2>2
<1> QED
  BY <1>1, <1>2, <1>3 DEF DbWhole

(* A transaction that another request's step does not touch.               *)
LEMMA ProgressFrame ==
  ASSUME NEW o \in Requests, Progress(o), Holds(o),
         pc'[o] = pc[o], deleted'[o] = deleted[o], inserted'[o] = inserted[o],
         found'[o] = found[o],
         \/ RowsOf(Target[o])' = RowsOf(Target[o])
         \/ /\ pc[o] \notin {"addHotels", "dropDays", "addDays", "commit"}
            /\ RowsOf(Target[o])' \subseteq RowsOf(Target[o])
            /\ \A x \in RowsOf(Target[o]) : x.table # "hotel" => x \in RowsOf(Target[o])'
            /\ RowsOf(Target[o])' # {}
  PROVE  Progress(o)'
<1> DEFINE t == Target[o]
<1>1. Replaced(o)' = Replaced(o) /\ Written(o)' = Written(o)
  BY DEF Replaced, Written
<1>2. Of(db, t, "demographics")' = Of(db, t, "demographics")
  BY DEF Of, RowsOf
<1>3. deleted'[o] = {x \in RowsOf(t)' : x.table \in Replaced(o)'}
  <2>1. CASE RowsOf(t)' = RowsOf(t)
    BY <1>1, <2>1 DEF Progress
  <2>2. CASE /\ pc[o] \notin {"addHotels", "dropDays", "addDays", "commit"}
             /\ RowsOf(Target[o])' \subseteq RowsOf(Target[o])
             /\ \A x \in RowsOf(Target[o]) : x.table # "hotel" => x \in RowsOf(Target[o])'
    <3>1. "hotel" \notin Replaced(o)
      BY <2>2 DEF Replaced
    <3>2. deleted[o] = {x \in RowsOf(t) : x.table \in Replaced(o)}
      BY DEF Progress
    <3> QED
      BY <1>1, <2>2, <3>1, <3>2
  <2> QED
    BY <2>1, <2>2
<1>4. \E id \in Payloads :
        inserted'[o] = {x \in Stored(t, id, o, Hotels) : x.table \in Written(o)'}
  BY <1>1 DEF Progress
<1>5. Kind[o] = "put" => RowsOf(t)' # {}
  BY DEF Progress
<1>6. pc'[o] = "writeDemographics" =>
        \/ found'[o] = None /\ Of(db, t, "demographics")' = {}
        \/ \E x \in Of(db, t, "demographics")' : x.key = found'[o]
  BY <1>2 DEF Progress
<1> QED
  BY <1>3, <1>4, <1>5, <1>6 DEF Progress

(* One request moves, and what is committed stays as it is.                *)
Bystanders(r) ==
  \A o \in Requests \ {r} :
    /\ pc'[o] = pc[o] /\ deleted'[o] = deleted[o] /\ inserted'[o] = inserted[o]
    /\ found'[o] = found[o] /\ ended'[o] = ended[o] /\ answer'[o] = answer[o]
    /\ o \in events' => o \in events

(* Then it is enough to look at that request.                              *)
LEMMA OneMoves ==
  ASSUME StoreTyped, DbInv, TxInv, NEW r \in Requests, Bystanders(r), db' = db,
         Tx(r)', Way(r)',
         pc[r] # "done",
         pc[r] = "publish" => pc'[r] = "done" /\ ended'[r] = ended[r] /\ answer'[r] # 404,
         Holds(r)' /\ ~Holds(r) =>
           \A o \in Requests \ {r} : Holds(o) => Target[o] # Target[r]
  PROVE  DbInv' /\ TxInv'
<1>1. \A i : RowsOf(i)' = RowsOf(i)
  BY DEF RowsOf
<1>2. DbWhole'
  BY <1>1 DEF DbInv, DbWhole
<1>3. DbSigned'
  BY DEF DbInv, DbSigned, Bystanders
<1>4. \A o \in Requests \ {r} : Holds(o)' <=> Holds(o)
  BY DEF Bystanders, Holds
<1>5. ASSUME NEW o \in Requests \ {r}
      PROVE  Tx(o)'
  <2>1. Holds(o) => Progress(o)'
    BY <1>1, ProgressFrame DEF TxInv, Tx, Bystanders
  <2>2. ~Holds(o) => Untouched(o)'
    BY DEF TxInv, Tx, Bystanders, Untouched
  <2> QED
    BY <1>4, <2>1, <2>2 DEF TxInv, Tx, Bystanders
<1>6. ASSUME NEW o \in Requests \ {r}
      PROVE  Way(o)'
  <2>1. answer[r] # 201
    BY DEF TxInv, Way
  <2>2. \A q \in Requests : answer[q] = 201 => answer'[q] = 201
    BY <2>1 DEF Bystanders
  <2> QED
    BY <1>1, <2>2 DEF TxInv, Way, Bystanders
<1>7. Exclusive'
  BY <1>4 DEF Exclusive, TxInv
<1> QED
  BY <1>2, <1>3, <1>5, <1>6, <1>7 DEF DbInv, TxInv

(* The statements of a save: the one that takes the itinerary,             *)
LEMMA FirstWrite ==
  ASSUME StoreTyped, DbInv, TxInv, NEW r \in Requests,
         InsertItinerary(r) \/ UpdateItineraryRow(r)
  PROVE  Progress(r)' /\ pc'[r] = "findDemographics" /\ found'[r] = None
<1> DEFINE t == Target[r]
<1> USE DEF StoreTyped, WritesTyped, WayTyped
<1>1. t \in Itineraries /\ r \in Payloads
  BY TargetTyped
<1>2. deleted[r] = {} /\ inserted[r] = {} /\ found[r] = None
  BY DEF InsertItinerary, UpdateItineraryRow, TxInv, Tx, Untouched, Holds, Writing
<1>3. pc'[r] = "findDemographics" /\ db' = db /\ found' = found
  BY DEF InsertItinerary, UpdateItineraryRow, Goto
<1>4. inserted'[r] = {ItineraryRow(t, r)}
  BY <1>2, StoreAssumption DEF InsertItinerary, UpdateItineraryRow, Write
<1>5. deleted'[r] = {x \in RowsOf(t) : x.table = "itinerary"}
  <2>1. CASE InsertItinerary(r)
    <3>1. t = r /\ RowsOf(r) = {}
      BY <2>1, StoreAssumption DEF InsertItinerary, TxInv, Way, Transaction
    <3> QED
      BY <2>1, <3>1, <1>2 DEF InsertItinerary, Write
  <2>2. CASE UpdateItineraryRow(r)
    BY <2>2, <1>2 DEF UpdateItineraryRow, Write, Of, RowsOf
  <2> QED
    BY <2>1, <2>2
<1>6. Kind[r] = "put" => RowsOf(t) # {}
  BY DEF InsertItinerary, UpdateItineraryRow, Of, RowsOf
<1>7. Replaced(r)' = {"itinerary"} /\ Written(r)' = {"itinerary"} /\ RowsOf(t)' = RowsOf(t)
  BY <1>3 DEF Replaced, Written, RowsOf
<1>8. deleted'[r] = {x \in RowsOf(t)' : x.table \in Replaced(r)'}
  BY <1>5, <1>7
<1>9. inserted'[r] = {x \in Stored(t, r, r, Hotels) : x.table \in Written(r)'}
  BY <1>1, <1>4, <1>7, StoredTables
<1> QED
  BY <1>1, <1>2, <1>3, <1>6, <1>7, <1>8, <1>9 DEF Progress

(* ... upsertDemographics,                                                 *)
LEMMA DemographicsStep ==
  ASSUME StoreTyped, DbInv, TxInv, NEW r \in Requests,
         FindDemographics(r) \/ WriteDemographics(r)
  PROVE  Progress(r)' /\ pc'[r] \in {"writeDemographics", "dropHotels"}
<1> DEFINE t == Target[r]
<1> USE DEF StoreTyped, WritesTyped, WayTyped
<1>1. t \in Itineraries /\ r \in Payloads
  BY TargetTyped
<1>2. pc[r] \in {"findDemographics", "writeDemographics"} /\ Holds(r) /\ Progress(r)
  BY DEF FindDemographics, WriteDemographics, TxInv, Tx, Holds, Writing, Transaction
<1>3. /\ deleted[r] = {x \in RowsOf(t) : x.table = "itinerary"}
      /\ inserted[r] = {ItineraryRow(t, r)}
  BY <1>2, ProgressForms
<1>4. db' = db /\ RowsOf(t)' = RowsOf(t)
  BY DEF FindDemographics, WriteDemographics, RowsOf
<1>5. Kind[r] = "put" => RowsOf(t)' # {}
  BY <1>2, <1>4 DEF Progress
<1>6. Of(View(r), t, "demographics") = Of(db, t, "demographics")
  BY <1>3 DEF View, Of, ItineraryRow, Row, RowsOf
<1>7. CASE FindDemographics(r)
  <2>1. pc'[r] = "writeDemographics" /\ UNCHANGED <<deleted, inserted>>
    BY <1>7 DEF FindDemographics, Goto
  <2>2. Replaced(r)' = Replaced(r) /\ Written(r)' = Written(r)
    BY <1>2, <2>1 DEF Replaced, Written
  <2>3. found[r] = None
    BY <1>7 DEF FindDemographics, TxInv, Tx
  <2>4. \/ found'[r] = None /\ Of(db, t, "demographics") = {}
        \/ \E x \in Of(db, t, "demographics") : x.key = found'[r]
    BY <1>6, <1>7, <2>3 DEF FindDemographics
  <2> QED
    BY <1>2, <1>4, <1>5, <2>1, <2>2, <2>4 DEF Progress
<1>8. CASE WriteDemographics(r)
  <2> DEFINE old == {x \in Of(View(r), t, "demographics") : x.key = found[r]}
             id  == IF found[r] = None THEN r ELSE found[r]
  <2>1. pc'[r] = "dropHotels"
    BY <1>8 DEF WriteDemographics, Goto
  <2>2. \/ found[r] = None /\ Of(db, t, "demographics") = {}
        \/ \E x \in Of(db, t, "demographics") : x.key = found[r]
    BY <1>2, <1>8 DEF WriteDemographics, Progress
  <2>3. \A x \in Of(db, t, "demographics") : x.key # None
    BY RowFacts, StoreAssumption DEF Of
  <2>4. old = Of(db, t, "demographics")
    BY <1>1, <1>6, <2>2, SingleRows DEF DbInv
  <2>5. ~(found[r] # None /\ old = {})
    BY <2>2, <2>4
  <2>6. Write(r, old, {DemographicsRow(t, id, r)})
    BY <1>8, <2>5 DEF WriteDemographics
  <2>7. id \in Payloads
    BY <1>1
  <2> HIDE DEF old, id
  <2>8. deleted'[r] = deleted[r] \cup Of(db, t, "demographics")
    BY <2>4, <2>6 DEF Write, Of
  <2>9. deleted'[r] = {x \in RowsOf(t) : x.table \in {"itinerary", "demographics"}}
    BY <1>3, <2>8 DEF RowsOf, Of
  <2>10. ItineraryRow(t, r) \notin old
    BY <2>4 DEF Of, ItineraryRow, Row
  <2>11. inserted'[r] = {ItineraryRow(t, r), DemographicsRow(t, id, r)}
    BY <1>3, <2>6, <2>10 DEF Write
  <2>12. /\ Replaced(r)' = {"itinerary", "demographics"}
         /\ Written(r)' = {"itinerary", "demographics"}
    BY <2>1 DEF Replaced, Written
  <2>13. inserted'[r] = {x \in Stored(t, id, r, Hotels) : x.table \in Written(r)'}
    BY <1>1, <2>7, <2>11, <2>12, StoredTables
  <2>14. deleted'[r] = {x \in RowsOf(t)' : x.table \in Replaced(r)'}
    BY <1>4, <2>9, <2>12
  <2> QED
    BY <1>5, <2>1, <2>7, <2>13, <2>14 DEF Progress
<1> QED
  BY <1>2, <1>7, <1>8 DEF FindDemographics, WriteDemographics, Goto

(* ... the DELETEs of the two replacements,                                *)
LEMMA DropStep ==
  ASSUME StoreTyped, DbInv, TxInv, NEW r \in Requests,
         DropHotels(r) \/ DropDays(r)
  PROVE  Progress(r)' /\ pc'[r] \in {"addHotels", "addDays"}
<1> DEFINE t == Target[r]
<1> USE DEF StoreTyped, WritesTyped, WayTyped
<1>1. t \in Itineraries /\ r \in Payloads
  BY TargetTyped
<1>2. pc[r] \in {"dropHotels", "dropDays"} /\ Holds(r) /\ Progress(r)
  BY DEF DropHotels, DropDays, TxInv, Tx, Holds, Writing, Transaction
<1>3. db' = db /\ RowsOf(t)' = RowsOf(t)
  BY DEF DropHotels, DropDays, RowsOf
<1>4. Kind[r] = "put" => RowsOf(t)' # {}
  BY <1>2, <1>3 DEF Progress
<1> DEFINE Drops(tables) == Write(r, {x \in View(r) : x.of = t /\ x.table \in tables}, {})
           Dropped(tables) == /\ deleted'[r] = deleted[r] \cup {x \in RowsOf(t) : x.table \in tables}
                              /\ inserted'[r] = inserted[r]
<1>5. ASSUME NEW tables, Drops(tables), \A x \in inserted[r] : x.table \notin tables
      PROVE  Dropped(tables)
  <2> DEFINE rows == {x \in View(r) : x.of = t /\ x.table \in tables}
  <2>1. Write(r, rows, {})
    BY <1>5
  <2>2. \A x \in inserted[r] : x.table \notin tables
    BY <1>5
  <2>3. inserted'[r] = inserted[r]
    BY <2>1, <2>2 DEF Write
  <2>4. deleted[r] \subseteq RowsOf(t)
    BY <1>2 DEF Progress
  <2>5. \A x \in rows \cap db : x \in RowsOf(t) /\ x.table \in tables
    BY DEF RowsOf
  <2>6. \A x \in RowsOf(t) : x.table \in tables => x \in deleted[r] \/ x \in rows \cap db
    BY DEF RowsOf, View
  <2>7. deleted'[r] = deleted[r] \cup (rows \cap db)
    BY <2>1 DEF Write
  <2>8. \A x \in deleted[r] : x.table \in tables => x \in RowsOf(t)
    BY <2>4
  <2> HIDE DEF rows
  <2> QED
    BY <2>3, <2>5, <2>6, <2>7, <2>8
<1>6. deleted[r] = {x \in RowsOf(t) : x.table \in Replaced(r)}
  BY <1>2 DEF Progress
<1>7. CASE DropHotels(r)
  <2>1. pc'[r] = "addHotels" /\ pc[r] = "dropHotels"
    BY <1>7 DEF DropHotels, Goto
  <2>2. Replaced(r)' = Replaced(r) \cup {"hotel"} /\ Written(r)' = Written(r)
    BY <2>1 DEF Replaced, Written
  <2>3. Dropped({"hotel"})
    <3>1. {x \in View(r) : x.of = t /\ x.table \in {"hotel"}} = Of(View(r), t, "hotel")
      BY DEF Of
    <3>2. Drops({"hotel"})
      <4>1. Write(r, Of(View(r), t, "hotel"), {})
        BY <1>7 DEF DropHotels
      <4> QED
        BY <3>1, <4>1
    <3>3. \A x \in inserted[r] : x.table \notin {"hotel"}
      <4>1. Written(r) = {"itinerary", "demographics"}
        BY <2>1 DEF Written
      <4> QED
        BY <1>2, <4>1 DEF Progress
    <3> HIDE DEF Drops, Dropped
    <3> QED
      BY <1>5, <3>2, <3>3
  <2>4. deleted'[r] = {x \in RowsOf(t)' : x.table \in Replaced(r)'}
    <3>1. Dropped({"hotel"})
      BY <2>3
    <3>2. deleted'[r] = {x \in RowsOf(t) : x.table \in Replaced(r) \cup {"hotel"}}
      BY <1>6, <3>1
    <3> QED
      BY <1>3, <2>2, <3>2
  <2> QED
    BY <1>2, <1>4, <2>1, <2>2, <2>4, <2>3 DEF Progress
<1>8. CASE DropDays(r)
  <2>1. pc'[r] = "addDays" /\ pc[r] = "dropDays"
    BY <1>8 DEF DropDays, Goto
  <2>2. Replaced(r)' = Replaced(r) \cup {"day", "activity"} /\ Written(r)' = Written(r)
    BY <2>1 DEF Replaced, Written
  <2>3. Dropped({"day", "activity"})
    <3>1. {x \in View(r) : x.of = t /\ x.table \in {"day", "activity"}} =
            Of(View(r), t, "day") \cup Of(View(r), t, "activity")
      BY DEF Of
    <3>2. Drops({"day", "activity"})
      <4>1. Write(r, Of(View(r), t, "day") \cup Of(View(r), t, "activity"), {})
        BY <1>8 DEF DropDays
      <4> QED
        BY <3>1, <4>1
    <3>3. \A x \in inserted[r] : x.table \notin {"day", "activity"}
      <4>1. Written(r) = {"itinerary", "demographics", "hotel"}
        BY <2>1 DEF Written
      <4> QED
        BY <1>2, <4>1 DEF Progress
    <3> HIDE DEF Drops, Dropped
    <3> QED
      BY <1>5, <3>2, <3>3
  <2>4. deleted'[r] = {x \in RowsOf(t)' : x.table \in Replaced(r)'}
    <3>1. Dropped({"day", "activity"})
      BY <2>3
    <3>2. deleted'[r] = {x \in RowsOf(t) : x.table \in Replaced(r) \cup {"day", "activity"}}
      BY <1>6, <3>1
    <3> QED
      BY <1>3, <2>2, <3>2
  <2> QED
    BY <1>2, <1>4, <2>1, <2>2, <2>4, <2>3 DEF Progress
<1> QED
  BY <1>7, <1>8 DEF DropHotels, DropDays, Goto

(* ... and their INSERTs.                                                  *)
LEMMA AddStep ==
  ASSUME StoreTyped, DbInv, TxInv, NEW r \in Requests,
         AddHotels(r) \/ AddDays(r)
  PROVE  Progress(r)' /\ pc'[r] \in {"dropDays", "commit"}
<1> DEFINE t == Target[r]
<1> USE DEF StoreTyped, WritesTyped, WayTyped
<1>1. t \in Itineraries /\ r \in Payloads
  BY TargetTyped
<1>2. pc[r] \in {"addHotels", "addDays"} /\ Holds(r) /\ Progress(r)
  BY DEF AddHotels, AddDays, TxInv, Tx, Holds, Writing, Transaction
<1>3. db' = db /\ RowsOf(t)' = RowsOf(t)
  BY DEF AddHotels, AddDays, RowsOf
<1>4. Kind[r] = "put" => RowsOf(t)' # {}
  BY <1>2, <1>3 DEF Progress
<1>5. deleted[r] = {x \in RowsOf(t) : x.table \in Replaced(r)}
  BY <1>2 DEF Progress
<1>6. PICK id \in Payloads :
        /\ pc[r] = "addHotels" =>
             inserted[r] = {ItineraryRow(t, r), DemographicsRow(t, id, r)}
        /\ pc[r] = "addDays" =>
             inserted[r] = {ItineraryRow(t, r), DemographicsRow(t, id, r)} \cup HotelRows(t, r)
  BY <1>2, ProgressForms
<1>7. CASE AddHotels(r)
  <2>1. pc'[r] = "dropDays" /\ pc[r] = "addHotels"
    BY <1>7 DEF AddHotels, Goto
  <2>2. Replaced(r)' = Replaced(r) /\ Written(r)' = {"itinerary", "demographics", "hotel"}
    BY <2>1 DEF Replaced, Written
  <2>3. /\ inserted'[r] = inserted[r] \cup HotelRows(t, r)
        /\ deleted'[r] = deleted[r]
    BY <1>7 DEF AddHotels, Write
  <2>4. inserted'[r] = {x \in Stored(t, id, r, Hotels) : x.table \in Written(r)'}
    BY <1>1, <1>6, <2>1, <2>2, <2>3, StoredTables
  <2> QED
    BY <1>3, <1>4, <1>5, <2>1, <2>2, <2>3, <2>4 DEF Progress
<1>8. CASE AddDays(r)
  <2>1. pc'[r] = "commit" /\ pc[r] = "addDays"
    BY <1>8 DEF AddDays, Goto
  <2>2. /\ Replaced(r)' = Replaced(r)
        /\ Written(r)' = {"itinerary", "demographics", "hotel", "day", "activity"}
    BY <2>1 DEF Replaced, Written
  <2>3. /\ inserted'[r] = inserted[r] \cup (DayRows(t, r) \cup ActivityRows(t, r))
        /\ deleted'[r] = deleted[r]
    BY <1>8 DEF AddDays, Write
  <2>4. inserted'[r] = Stored(t, id, r, Hotels)
    BY <1>1, <1>6, <2>1, <2>3, StoredTables
  <2>5. \A x \in Stored(t, id, r, Hotels) : x.table \in Written(r)'
    BY <1>1, <2>2, StoredFacts, RowFacts
  <2>6. inserted'[r] = {x \in Stored(t, id, r, Hotels) : x.table \in Written(r)'}
    BY <2>4, <2>5
  <2> QED
    BY <1>3, <1>4, <1>5, <2>1, <2>2, <2>3, <2>6 DEF Progress
<1> QED
  BY <1>7, <1>8 DEF AddHotels, AddDays, Goto

(* No other transaction holds the itinerary that a save takes: an update   *)
(* waits for the row, and nobody knows what a post inserts.                *)
LEMMA TakesAlone ==
  ASSUME StoreTyped, DbInv, TxInv, NEW r \in Requests,
         InsertItinerary(r) \/ UpdateItineraryRow(r),
         NEW o \in Requests \ {r}, Holds(o)
  PROVE  Target[o] # Target[r]
<1> DEFINE t == Target[r]
<1> USE DEF StoreTyped, WritesTyped, WayTyped
<1>1. SUFFICES ASSUME Target[o] = t PROVE FALSE
  OBVIOUS
<1>2. pc[r] = "row" /\ answer[r] = 0
  BY DEF InsertItinerary, UpdateItineraryRow, TxInv, Way
<1>3. pc[o] \in Transaction /\ Kind[o] \in {"post", "put"} /\ answer[o] = 0 /\ pc[o] # "new"
  BY DEF Holds, Writing, Transaction, TxInv, Way
<1>4. CASE t = r
  BY <1>1, <1>2, <1>3, <1>4 DEF TxInv, Way
<1>5. CASE t = o
  BY <1>2, <1>3, <1>5 DEF TxInv, Way
<1>6. CASE t # r /\ t # o
  <2>1. Kind[r] = "put" /\ Kind[o] = "put"
    BY <1>1, <1>3, <1>6, StoreAssumption DEF InsertItinerary, UpdateItineraryRow
  <2>2. UpdateItineraryRow(r)
    BY <2>1 DEF InsertItinerary
  <2>3. PICK x : x \in Of(db, t, "itinerary")
    BY <2>2 DEF UpdateItineraryRow
  <2>4. Progress(o)
    BY DEF TxInv, Tx
  <2>5. "itinerary" \in Replaced(o)
    BY DEF Replaced
  <2>6. x \in RowsOf(t) /\ x.table = "itinerary"
    BY <2>3 DEF Of, RowsOf
  <2>7. x \in deleted[o]
    BY <1>1, <2>4, <2>5, <2>6 DEF Progress
  <2>8. Locked(r, Of(db, t, "itinerary"))
    BY <2>3, <2>7 DEF Locked
  <2> QED
    BY <2>2, <2>8 DEF UpdateItineraryRow
<1> QED
  BY <1>4, <1>5, <1>6

(* A statement of a save, up to its commit.                                *)
LEMMA SaveMoves ==
  ASSUME StoreTyped, DbInv, TxInv, NEW r \in Requests,
         \/ InsertItinerary(r) \/ UpdateItineraryRow(r) \/ FindDemographics(r)
         \/ WriteDemographics(r) \/ DropHotels(r) \/ AddHotels(r) \/ DropDays(r) \/ AddDays(r)
  PROVE  DbInv' /\ TxInv'
<1> USE DEF StoreTyped, WritesTyped, WayTyped
<1>1. /\ UNCHANGED <<db, ended, answer, events>> /\ pc[r] \in Transaction
      /\ \A o \in Requests \ {r} :
           /\ pc'[o] = pc[o] /\ deleted'[o] = deleted[o] /\ inserted'[o] = inserted[o]
           /\ found'[o] = found[o]
  BY DEF InsertItinerary, UpdateItineraryRow, FindDemographics, WriteDemographics, DropHotels,
         AddHotels, DropDays, AddDays, Write, Goto, Transaction
<1>2. Progress(r)' /\ pc'[r] \in Writing /\ (pc'[r] = "findDemographics" => found'[r] = None)
  BY FirstWrite, DemographicsStep, DropStep, AddStep DEF Writing, Transaction
<1>3. Tx(r)'
  BY <1>2 DEF Tx, Holds
<1>4. RowsOf(r)' = RowsOf(r)
  BY <1>1 DEF RowsOf
<1>5. Way(r)'
  BY <1>1, <1>2, <1>4 DEF TxInv, Way, Writing, Transaction
<1>6. Bystanders(r)
  BY <1>1 DEF Bystanders
<1>7. ~Holds(r) => InsertItinerary(r) \/ UpdateItineraryRow(r)
  BY DEF FindDemographics, WriteDemographics, DropHotels, AddHotels, DropDays, AddDays, Holds,
         Writing, Transaction
<1>8. ~Holds(r) => \A o \in Requests \ {r} : Holds(o) => Target[o] # Target[r]
  BY <1>7, TakesAlone
<1>9. pc[r] # "done" /\ pc[r] # "publish" /\ db' = db
  BY <1>1 DEF Transaction
<1> QED
  BY <1>3, <1>5, <1>6, <1>8, <1>9, OneMoves

(* A request that begins, ends or reads writes nothing.                    *)
LEMMA OthersMove ==
  ASSUME StoreTyped, DbInv, TxInv, NEW r \in Requests,
         \/ BeginSave(r) \/ UpdateMissing(r) \/ PublishCreated(r) \/ BeginRemove(r) \/ Read(r)
         \/ Rollback(r) \/ StatementFails(r)
  PROVE  DbInv' /\ TxInv'
<1> USE DEF StoreTyped, WritesTyped, WayTyped
<1>1. CASE BeginSave(r) \/ BeginRemove(r) \/ BeginRead(r)
  <2>1. /\ UNCHANGED <<db, deleted, inserted, found, ended, answer, events>> /\ pc[r] = "new"
        /\ \/ Goto(r, "row") /\ Kind[r] \in {"post", "put"}
           \/ Goto(r, "remove") \/ Goto(r, "getRow")
        /\ Target[r] \in Requests \ {r} => answer[Target[r]] = 201
    BY <1>1 DEF BeginSave, BeginRemove, BeginRead, Arrives, txVars, readVars
  <2>2. Bystanders(r)
    BY <2>1 DEF Bystanders, Goto
  <2>3. ~Holds(r) /\ ~Holds(r)' /\ pc'[r] # "findDemographics"
    BY <2>1 DEF Holds, Writing, Transaction, Goto
  <2>4. Tx(r)'
    BY <2>1, <2>3 DEF TxInv, Tx, Untouched
  <2>5. Way(r)'
    BY <2>1 DEF TxInv, Way, Goto, Transaction, RowsOf
  <2> QED
    BY <2>1, <2>2, <2>3, <2>4, <2>5, OneMoves
<1>2. CASE UpdateMissing(r) \/ PublishCreated(r) \/ Rollback(r) \/ StatementFails(r)
  <2>1. /\ db' = db /\ pc[r] # "done" /\ pc'[r] = "done" /\ pc[r] # "new"
        /\ pc[r] = "publish" => ended'[r] = ended[r] /\ answer'[r] = 201
        /\ r \in events' => ended'[r] = "commit"
    BY <1>2 DEF UpdateMissing, PublishCreated, Rollback, StatementFails, Goto, Answer, Transaction,
                Reading, TxInv, Way
  <2>2. Untouched(r)'
    BY <1>2 DEF UpdateMissing, PublishCreated, Rollback, StatementFails, Forget, TxInv, Tx,
                Untouched, Holds, Writing, Transaction, Reading, txVars
  <2>3. Bystanders(r)
    BY <1>2 DEF Bystanders, UpdateMissing, PublishCreated, Rollback, StatementFails, Forget,
                Goto, Answer, txVars
  <2>4. Tx(r)' /\ ~Holds(r)'
    BY <2>1, <2>2 DEF Tx, Holds, Writing, Transaction
  <2>5. \A q \in Requests \ {r} : answer'[q] = answer[q]
    BY <2>3 DEF Bystanders
  <2>6. Way(r)'
    BY <2>1, <2>5 DEF TxInv, Way, Transaction
  <2> QED
    BY <2>1, <2>3, <2>4, <2>6, OneMoves
<1>3. CASE \/ GetRow(r) \/ GetDemographics(r) \/ GetHotels(r) \/ GetDays(r) \/ GetActivities(r)
           \/ AnswerRead(r)
  <2>1. /\ UNCHANGED <<db, deleted, inserted, found, ended, events>>
        /\ pc[r] \in Reading /\ pc'[r] \in Reading \cup {"done"}
        /\ answer'[r] = 0 \/ pc'[r] = "done"
        /\ \A o \in Requests \ {r} : pc'[o] = pc[o] /\ answer'[o] = answer[o]
    BY <1>3 DEF GetRow, GetDemographics, GetHotels, GetDays, GetActivities, AnswerRead, Select,
                Goto, Answer, Reading, txVars, TxInv, Way
  <2>2. Bystanders(r)
    BY <2>1 DEF Bystanders
  <2>3. ~Holds(r) /\ ~Holds(r)' /\ pc'[r] # "findDemographics"
    BY <2>1 DEF Holds, Writing, Transaction, Reading
  <2>4. Tx(r)'
    BY <2>1, <2>3 DEF TxInv, Tx, Untouched
  <2>5. Way(r)'
    BY <2>1 DEF TxInv, Way, Transaction, Reading, RowsOf
  <2>6. pc[r] # "done" /\ pc[r] # "publish"
    BY <2>1 DEF Reading
  <2> QED
    BY <2>1, <2>2, <2>3, <2>4, <2>5, <2>6, OneMoves
<1> QED
  BY <1>1, <1>2, <1>3 DEF Read

-----------------------------------------------------------------------------
(***************************************************************************)
(* Steps that change what is committed.                                    *)
(***************************************************************************)

(* A commit replaces all that was stored of its itinerary.                 *)
LEMMA CommitReplaces ==
  ASSUME StoreTyped, DbInv, TxInv, NEW r \in Requests, pc[r] = "commit", db' = View(r)
  PROVE  /\ \E id \in Payloads : RowsOf(Target[r])' = Stored(Target[r], id, r, Hotels)
         /\ \A i : i # Target[r] => RowsOf(i)' = RowsOf(i)
         /\ \A x \in db' : x \in db \/ (x.of = Target[r] /\ x.by = r)
<1> DEFINE t == Target[r]
<1>1. t \in Itineraries /\ r \in Payloads
  BY TargetTyped
<1>2. Holds(r) /\ Progress(r)
  BY DEF Holds, Writing, Transaction, TxInv, Tx
<1>3. PICK id \in Payloads :
        /\ deleted[r] = {x \in RowsOf(t) : x.table \in
             {"itinerary", "demographics", "hotel", "day", "activity"}}
        /\ inserted[r] = Stored(t, id, r, Hotels)
  BY <1>2, ProgressForms
<1>4. \A x \in RowsOf(t) : x.table \in {"itinerary", "demographics", "hotel", "day", "activity"}
  BY RowFacts DEF RowsOf, StoreTyped, WritesTyped
<1>5. deleted[r] = RowsOf(t)
  BY <1>3, <1>4
<1>6. \A x \in Stored(t, id, r, Hotels) : x.of = t /\ x.by = r
  BY <1>1, StoredFacts
<1>7. db' = (db \ RowsOf(t)) \cup Stored(t, id, r, Hotels)
  BY <1>3, <1>5 DEF View
<1>8. RowsOf(t)' = Stored(t, id, r, Hotels)
  BY <1>6, <1>7 DEF RowsOf
<1>9. ASSUME NEW i, i # t
      PROVE  RowsOf(i)' = RowsOf(i)
  BY <1>6, <1>7, <1>9 DEF RowsOf
<1> QED
  BY <1>6, <1>7, <1>8, <1>9

(* The counterpart of OneMoves for a step that changes the rows of the     *)
(* itinerary that a request is about.                                      *)
LEMMA RowsMove ==
  ASSUME StoreTyped, DbInv, TxInv, NEW r \in Requests, Bystanders(r),
         Tx(r)', Way(r)', DbInv', ~Holds(r)', pc[r] \notin {"new", "done"},
         \A i : i # Target[r] => RowsOf(i)' = RowsOf(i),
         \A o \in Requests \ {r} : Holds(o) /\ Target[o] = Target[r] => Progress(o)'
  PROVE  TxInv'
<1>1. \A o \in Requests \ {r} : Holds(o)' <=> Holds(o)
  BY DEF Bystanders, Holds
<1>2. ASSUME NEW o \in Requests \ {r}
      PROVE  Tx(o)'
  <2>1. Holds(o) /\ Target[o] # Target[r] => Progress(o)'
    BY ProgressFrame DEF TxInv, Tx, Bystanders
  <2>2. ~Holds(o) => Untouched(o)'
    BY DEF TxInv, Tx, Bystanders, Untouched
  <2> QED
    BY <1>1, <2>1, <2>2 DEF TxInv, Tx, Bystanders
<1>3. ASSUME NEW o \in Requests \ {r}
      PROVE  Way(o)'
  <2>1. answer[r] = 0
    BY DEF TxInv, Way
  <2>2. \A q \in Requests : answer[q] = 201 => answer'[q] = 201
    BY <2>1 DEF Bystanders
  <2>3. ASSUME Kind[o] = "post", pc[o] = "new" \/ pc[o] \in Transaction
        PROVE  RowsOf(o)' = {}
    <3>1. CASE o = Target[r]
      <4>1. answer[o] = 201
        BY <2>3, <3>1 DEF TxInv, Way
      <4> QED
        BY <2>3, <4>1 DEF TxInv, Way, Transaction
    <3>2. CASE o # Target[r]
      BY <2>3, <3>2 DEF TxInv, Way
    <3> QED
      BY <3>1, <3>2
  <2> QED
    BY <2>2, <2>3 DEF TxInv, Way, Bystanders
<1>4. Exclusive'
  BY <1>1 DEF Exclusive, TxInv
<1> QED
  BY <1>2, <1>3, <1>4 DEF TxInv

(* A commit.                                                               *)
LEMMA CommitMoves ==
  ASSUME StoreTyped, DbInv, TxInv, NEW r \in Requests, Commit(r) \/ CommitUnknown(r)
  PROVE  DbInv' /\ TxInv'
<1> DEFINE t == Target[r]
<1> USE DEF StoreTyped, WritesTyped, WayTyped
<1>1. /\ pc[r] = "commit" /\ db' = View(r) /\ Forget(r) /\ events' = events
      /\ pc'[r] \in {"publish", "done"} /\ ended'[r] \in {"commit", "unknown"}
      /\ pc'[r] = "publish" => ended'[r] = "commit" /\ answer'[r] = 0
      /\ answer'[r] # 404
      /\ \A o \in Requests \ {r} : pc'[o] = pc[o] /\ ended'[o] = ended[o] /\ answer'[o] = answer[o]
  BY DEF Commit, CommitUnknown, Goto, Answer, TxInv, Way
<1>2. /\ \E id \in Payloads : RowsOf(t)' = Stored(t, id, r, Hotels)
      /\ \A i : i # t => RowsOf(i)' = RowsOf(i)
      /\ \A x \in db' : x \in db \/ (x.of = t /\ x.by = r)
  BY <1>1, CommitReplaces
<1>3. t \in Itineraries /\ r \in Payloads /\ Hotels \in SUBSET Hotels
  BY TargetTyped
<1>4. DbWhole'
  BY <1>2, <1>3 DEF DbInv, DbWhole
<1>5. DbSigned'
  BY <1>1, <1>2 DEF DbInv, DbSigned
<1>6. Bystanders(r)
  BY <1>1 DEF Bystanders, Forget
<1>7. Tx(r)' /\ ~Holds(r)'
  BY <1>1 DEF Tx, Holds, Writing, Transaction, Untouched, Forget
<1>8. Way(r)'
  <2>1. t \in Requests \ {r} => answer'[t] = 201
    BY <1>1 DEF TxInv, Way
  <2>2. r \notin events
    BY <1>1 DEF TxInv, Way
  <2> QED
    BY <1>1, <2>1, <2>2 DEF Way, Transaction
<1>9. \A o \in Requests \ {r} : Holds(o) => Target[o] # t
  BY <1>1 DEF TxInv, Exclusive, Holds, Writing, Transaction
<1> QED
  BY <1>1, <1>2, <1>4, <1>5, <1>6, <1>7, <1>8, <1>9, RowsMove DEF DbInv

(* A DELETE waits while a transaction holds its itinerary.                 *)
LEMMA DeleteMoves ==
  ASSUME StoreTyped, DbInv, TxInv, NEW r \in Requests, DeleteItineraryById(r)
  PROVE  /\ DbInv' /\ TxInv'
         /\ RowsOf(Target[r])' = {} /\ \A i : i # Target[r] => RowsOf(i)' = RowsOf(i)
<1> DEFINE t == Target[r]
<1> USE DEF StoreTyped, WritesTyped, WayTyped
<1>1. /\ pc[r] = "remove" /\ pc'[r] = "done" /\ db' = db \ {x \in db : x.of = t}
      /\ \A o \in Requests : \A x \in inserted[o] : x.of # t
      /\ UNCHANGED <<deleted, inserted, found, ended, events>>
      /\ \A o \in Requests \ {r} : pc'[o] = pc[o] /\ answer'[o] = answer[o]
  BY DEF DeleteItineraryById, Goto, Answer, txVars
<1>2. RowsOf(t)' = {} /\ \A i : i # t => RowsOf(i)' = RowsOf(i)
  BY <1>1 DEF RowsOf
<1>3. DbWhole'
  BY <1>2 DEF DbInv, DbWhole
<1>4. \A x \in db : x.by # r
  BY <1>1, StoreAssumption DEF DbInv, DbSigned
<1>5. DbSigned'
  BY <1>1, <1>4 DEF DbInv, DbSigned
<1>6. Bystanders(r)
  BY <1>1 DEF Bystanders
<1>7. Tx(r)' /\ ~Holds(r)'
  BY <1>1 DEF TxInv, Tx, Holds, Writing, Transaction, Untouched
<1>8. Way(r)'
  <2>1. t \in Requests \ {r} => answer'[t] = 201
    BY <1>1 DEF TxInv, Way
  <2>2. r \notin events
    BY <1>1 DEF TxInv, Way
  <2> QED
    BY <1>1, <2>1, <2>2 DEF Way, Transaction
<1>9. ASSUME NEW o \in Requests \ {r}, Holds(o)
      PROVE  Target[o] # t
  <2>1. ItineraryRow(Target[o], o) \in inserted[o]
    BY <1>9, ProgressForms DEF TxInv, Tx
  <2> QED
    BY <1>1, <2>1 DEF ItineraryRow, Row
<1> QED
  BY <1>1, <1>2, <1>3, <1>5, <1>6, <1>7, <1>8, <1>9, RowsMove DEF DbInv

(* The hotel of a DELETE is one of the itinerary that it names.            *)
LEMMA HotelOfTarget ==
  ASSUME StoreTyped, DbInv, NEW r \in Requests, NEW n \in Hotels, NEW x \in db,
         x.table = "hotel", x.key = <<Target[r], n>>
  PROVE  x.of = Target[r] /\ x.by = Target[r]
<1>1. PICK m \in Hotels : x.key = <<x.by, m>>
  BY RowFacts DEF StoreTyped, WritesTyped
<1>2. x.by = Target[r]
  BY <1>1
<1>3. CASE x.by = Seed /\ x.of = Seed
  BY <1>2, <1>3
<1>4. CASE x.by \in Requests /\ x.of = Target[x.by]
  BY <1>2, <1>4, StoreAssumption
<1> QED
  BY <1>2, <1>3, <1>4 DEF DbInv, DbSigned

(* A DELETE of a hotel takes that hotel from the itinerary, or nothing.    *)
LEMMA HotelRemoved ==
  ASSUME StoreTyped, DbInv, NEW r \in Requests, NEW n \in Hotels,
         db' = db \ {x \in db : x.table = "hotel" /\ x.key = <<Target[r], n>>}
  PROVE  /\ \A i : i # Target[r] => RowsOf(i)' = RowsOf(i)
         /\ \A id, p \in Payloads, H \in SUBSET Hotels :
              RowsOf(Target[r]) = Stored(Target[r], id, p, H) =>
                \/ RowsOf(Target[r])' = RowsOf(Target[r])
                \/ RowsOf(Target[r])' = Stored(Target[r], id, p, H \ {n})
<1> DEFINE t == Target[r]
           rows == {x \in db : x.table = "hotel" /\ x.key = <<t, n>>}
<1>1. \A x \in rows : x \in db /\ x.table = "hotel" /\ x.of = t /\ x.by = t /\ x.key = <<t, n>>
  BY HotelOfTarget
<1>2. /\ \A i : i # t => RowsOf(i)' = RowsOf(i)
      /\ RowsOf(t)' = RowsOf(t) \ rows
  BY <1>1 DEF RowsOf
<1>3. ASSUME NEW id \in Payloads, NEW p \in Payloads, NEW H \in SUBSET Hotels,
             RowsOf(t) = Stored(t, id, p, H)
      PROVE  RowsOf(t)' = RowsOf(t) \/ RowsOf(t)' = Stored(t, id, p, H \ {n})
  <2> DEFINE Left(K) == {Row("hotel", t, <<p, m>>, p) : m \in K}
             Rest == {ItineraryRow(t, p), DemographicsRow(t, id, p)} \cup DayRows(t, p)
                       \cup ActivityRows(t, p)
  <2>1. ASSUME NEW K \in SUBSET Hotels
        PROVE  Stored(t, id, p, K) = Rest \cup Left(K)
    <3> DEFINE L == Left(K)
    <3>1. Stored(t, id, p, K) = {ItineraryRow(t, p), DemographicsRow(t, id, p)} \cup L
                                \cup DayRows(t, p) \cup ActivityRows(t, p)
      BY DEF Stored
    <3> HIDE DEF L
    <3>2. Stored(t, id, p, K) = Rest \cup L
      BY <3>1
    <3> QED
      BY <3>2 DEF L
  <2>2. \A x \in Rest : x.table # "hotel"
    BY DEF ItineraryRow, DemographicsRow, DayRows, ActivityRows, Row
  <2> HIDE DEF Rest
  <2>3. CASE p # t
    <3>1. \A x \in RowsOf(t) : x \notin rows
      BY <1>1, <1>3, <2>3, StoredFacts, TargetTyped
    <3> DEFINE before == RowsOf(t)
    <3>2. before' = before \ rows
      BY <1>2
    <3> HIDE DEF before, rows
    <3>3. before \ rows = before
      <4>1. \A x \in before : x \notin rows
        BY <3>1 DEF before
      <4> QED
        BY <4>1
    <3>4. before' = before
      BY <3>2, <3>3
    <3> QED
      BY <3>4 DEF before
  <2>4. CASE p = t
    <3>1. \A m \in H : Row("hotel", t, <<p, m>>, p) \in rows <=> m = n
      <4>1. \A m \in H : Row("hotel", t, <<p, m>>, p) \in db
        <5>1. \A m \in H : Row("hotel", t, <<p, m>>, p) \in RowsOf(t)
          BY <1>3, <2>1
        <5> QED
          BY <5>1 DEF RowsOf
      <4> QED
        BY <2>4, <4>1 DEF Row
    <3>2. \A x \in Rest : x \notin rows
      BY <1>1, <2>2
    <3>3. RowsOf(t)' = (Rest \cup Left(H)) \ rows
      BY <1>2, <1>3, <2>1
    <3> HIDE DEF rows
    <3>4. Left(H) \ rows = Left(H \ {n})
      <4>1. \A x \in Left(H) \ rows : x \in Left(H \ {n})
        BY <3>1
      <4>2. ASSUME NEW x \in Left(H \ {n})
            PROVE  x \in Left(H) \ rows
        <5>1. PICK m \in H \ {n} : x = Row("hotel", t, <<p, m>>, p)
          BY <4>2
        <5>2. x \in Left(H)
          BY <5>1
        <5> QED
          BY <3>1, <5>1, <5>2
      <4> QED
        BY <4>1, <4>2
    <3> HIDE DEF Left
    <3>5. RowsOf(t)' = Rest \cup Left(H \ {n})
      BY <3>2, <3>3, <3>4
    <3>6. RowsOf(t)' = Stored(t, id, p, H \ {n})
      BY <2>1, <3>5
    <3> QED
      BY <3>6
  <2> QED
    BY <2>3, <2>4
<1> QED
  BY <1>2, <1>3

(* A hotel is removed only while no transaction has replaced the hotels.   *)
LEMMA HotelMoves ==
  ASSUME StoreTyped, DbInv, TxInv, NEW r \in Requests, DeleteAccommodationById(r)
  PROVE  DbInv' /\ TxInv'
<1> DEFINE t == Target[r]
<1>1. PICK n \in Hotels :
        /\ ~Locked(r, {x \in db : x.table = "hotel" /\ x.key = <<t, n>>})
        /\ db' = db \ {x \in db : x.table = "hotel" /\ x.key = <<t, n>>}
        /\ Answer(r, IF {x \in db : x.table = "hotel" /\ x.key = <<t, n>>} = {} THEN 404 ELSE 200)
  BY DEF DeleteAccommodationById
<1>0. \A a, b \in Payloads, K \in SUBSET Hotels :
        RowsOf(Target[r]) = Stored(Target[r], a, b, K) =>
          \/ RowsOf(Target[r])' = RowsOf(Target[r])
          \/ RowsOf(Target[r])' = Stored(Target[r], a, b, K \ {n})
  <2>1. db' = db \ {x \in db : x.table = "hotel" /\ x.key = <<Target[r], n>>}
    BY <1>1
  <2> QED
    BY <2>1, HotelRemoved
<1> USE DEF StoreTyped, WritesTyped, WayTyped
<1> DEFINE rows == {x \in db : x.table = "hotel" /\ x.key = <<t, n>>}
<1>2. /\ pc[r] = "remove" /\ pc'[r] = "done"
      /\ UNCHANGED <<deleted, inserted, found, ended, events>>
      /\ \A o \in Requests \ {r} : pc'[o] = pc[o] /\ answer'[o] = answer[o]
  BY <1>1 DEF DeleteAccommodationById, Goto, Answer, txVars
<1>3. ~Locked(r, rows) /\ db' = db \ rows
  BY <1>1
<1>4. \A x \in rows : x \in db /\ x.table = "hotel" /\ x.of = t /\ x.by = t /\ x.key = <<t, n>>
  BY HotelOfTarget
<1>5. /\ \A i : i # t => RowsOf(i)' = RowsOf(i)
      /\ RowsOf(t)' = RowsOf(t) \ rows
  BY <1>3, <1>4 DEF RowsOf
<1>6. DbWhole'
  <2>1. ASSUME NEW id \in Payloads, NEW p \in Payloads, NEW H \in SUBSET Hotels,
               RowsOf(t) = Stored(t, id, p, H)
        PROVE  \E K \in SUBSET Hotels : RowsOf(t)' = Stored(t, id, p, K)
    <3>1. RowsOf(t)' = RowsOf(t) \/ RowsOf(t)' = Stored(t, id, p, H \ {n})
      BY <1>0, <2>1
    <3>2. CASE RowsOf(t)' = RowsOf(t)
      BY <2>1, <3>2
    <3>3. CASE RowsOf(t)' = Stored(t, id, p, H \ {n})
      BY <3>3
    <3> QED
      BY <3>1, <3>2, <3>3
  <2>2. RowsOf(t) = {} => RowsOf(t)' = {}
    BY <1>5
  <2>3. \/ RowsOf(t)' = {}
        \/ \E id, p \in Payloads, H \in SUBSET Hotels : RowsOf(t)' = Stored(t, id, p, H)
    BY <2>1, <2>2, TargetTyped DEF DbInv, DbWhole
  <2>4. ASSUME NEW i \in Itineraries
        PROVE  \/ RowsOf(i)' = {}
               \/ \E id, p \in Payloads, H \in SUBSET Hotels : RowsOf(i)' = Stored(i, id, p, H)
    <3>1. CASE i = t
      BY <2>3, <3>1
    <3>2. CASE i # t
      <4>1. RowsOf(i)' = RowsOf(i)
        BY <1>5, <3>2
      <4> QED
        BY <4>1 DEF DbInv, DbWhole
    <3> QED
      BY <3>1, <3>2
  <2> QED
    BY <2>4 DEF DbWhole
<1>7. \A x \in db : x.by # r
  BY <1>2, StoreAssumption DEF DbInv, DbSigned
<1>8. DbSigned'
  BY <1>2, <1>3, <1>7 DEF DbInv, DbSigned
<1>9. Bystanders(r)
  BY <1>2 DEF Bystanders
<1>10. Tx(r)' /\ ~Holds(r)'
  BY <1>2 DEF TxInv, Tx, Holds, Writing, Transaction, Untouched
<1>11. Way(r)'
  <2>1. t \in Requests \ {r} => answer'[t] = 201
    BY <1>2 DEF TxInv, Way
  <2>2. r \notin events
    BY <1>2 DEF TxInv, Way
  <2> QED
    BY <1>2, <2>1, <2>2 DEF Way, Transaction
<1>12. ASSUME NEW o \in Requests \ {r}, Holds(o), Target[o] = t
       PROVE  Progress(o)'
  <2>1. Progress(o)
    BY <1>12 DEF TxInv, Tx
  <2>2. CASE pc[o] \in {"addHotels", "dropDays", "addDays", "commit"}
    <3>1. "hotel" \in Replaced(o)
      BY <2>2 DEF Replaced
    <3>2. \A x \in rows : x \in deleted[o]
      BY <1>4, <1>12, <2>1, <3>1 DEF Progress, RowsOf
    <3>3. rows = {}
      BY <1>3, <3>2 DEF Locked
    <3>4. RowsOf(t)' = RowsOf(t)
      BY <1>5, <3>3
    <3> QED
      BY <1>9, <1>12, <2>1, <3>4, ProgressFrame DEF Bystanders
  <2>3. CASE pc[o] \notin {"addHotels", "dropDays", "addDays", "commit"}
    <3>1. \A x \in RowsOf(t) : x.table # "hotel" => x \in RowsOf(t)'
      BY <1>4, <1>5
    <3>2. RowsOf(t)' \subseteq RowsOf(t)
      BY <1>5
    <3>3. RowsOf(t) # {} => RowsOf(t)' # {}
      <4>1. RowsOf(t) # {} => Of(db, t, "itinerary") # {}
        BY SingleRows, TargetTyped DEF DbInv
      <4>2. \A x \in Of(db, t, "itinerary") : x \in RowsOf(t) /\ x.table = "itinerary"
        BY DEF Of, RowsOf
      <4> QED
        BY <3>1, <4>1, <4>2
    <3>4. RowsOf(t) = {} => RowsOf(t)' = RowsOf(t)
      BY <3>2
    <3> QED
      BY <1>9, <1>12, <2>1, <2>3, <3>1, <3>2, <3>3, <3>4, ProgressFrame DEF Bystanders
  <2> QED
    BY <2>2, <2>3
<1> QED
  BY <1>2, <1>5, <1>6, <1>8, <1>9, <1>10, <1>11, <1>12, RowsMove DEF DbInv

(* A crash forgets what was not committed, and nothing else.               *)
LEMMA CrashMoves ==
  ASSUME StoreTyped, DbInv, TxInv, Crash
  PROVE  DbInv' /\ TxInv'
<1> USE DEF StoreTyped, WritesTyped, WayTyped
<1>1. /\ UNCHANGED <<db, answer, events>>
      /\ \A r \in Requests :
           /\ pc'[r] = IF pc[r] \in Active THEN "done" ELSE pc[r]
           /\ deleted'[r] = {} /\ inserted'[r] = {} /\ found'[r] = None
           /\ ended'[r] = IF pc[r] \in Transaction THEN "rollback" ELSE ended[r]
  BY DEF Crash
<1>2. \A r \in Requests : pc'[r] \in {"new", "done"} /\ (pc'[r] = "new" => pc[r] = "new")
  BY <1>1
<1>3. \A i : RowsOf(i)' = RowsOf(i)
  BY <1>1 DEF RowsOf
<1>4. DbWhole'
  BY <1>3 DEF DbInv, DbWhole
<1>5. DbSigned'
  BY <1>1 DEF DbInv, DbSigned, Active, Transaction
<1>6. \A r \in Requests : Tx(r)' /\ ~Holds(r)'
  BY <1>1, <1>2 DEF Tx, Holds, Writing, Transaction, Untouched
<1>7. ASSUME NEW r \in Requests
      PROVE  Way(r)'
  <2>1. r \in events => ended[r] = "commit" /\ pc[r] = "done"
    BY DEF TxInv, Way
  <2>2. pc'[r] = "done" \/ (pc'[r] = "new" /\ pc[r] = "new")
    BY <1>2
  <2>3. pc[r] = "new" \/ pc[r] = "done" => ended'[r] = ended[r]
    BY <1>1 DEF Transaction
  <2>4. Way(r)
    BY DEF TxInv
  <2>5. pc'[r] # "new" => pc[r] # "new"
    BY <1>1 DEF Active, Transaction, Reading
  <2>6. answer' = answer /\ events' = events /\ RowsOf(r)' = RowsOf(r)
    BY <1>1, <1>3
  <2> QED
    BY <2>1, <2>2, <2>3, <2>4, <2>5, <2>6 DEF Way, Transaction
<1> QED
  BY <1>4, <1>5, <1>6, <1>7 DEF DbInv, TxInv, Exclusive

(* Every step keeps the invariant of the writes.                           *)
LEMMA StoreStep ==
  ASSUME StoreTyped, DbInv, TxInv, [Next]_vars
  PROVE  DbInv' /\ TxInv'
<1>1. CASE UNCHANGED vars
  BY <1>1 DEF vars, DbInv, TxInv, DbWhole, DbSigned, RowsOf, Tx, Holds, Progress, Untouched,
              Exclusive, Way, Replaced, Written, Of
<1> QED
  BY <1>1, SaveMoves, OthersMove, CommitMoves, DeleteMoves, HotelMoves, CrashMoves
     DEF Next, Save, Remove

-----------------------------------------------------------------------------
(***************************************************************************)
(* Reads.                                                                  *)
(***************************************************************************)

(* What one statement reads of an itinerary is of one payload.             *)
LEMMA OnePayload ==
  ASSUME DbWhole, NEW i \in Itineraries
  PROVE  \A x, y \in RowsOf(i) : x.by = y.by
<1>1. ASSUME NEW id \in Payloads, NEW p \in Payloads, NEW H \in SUBSET Hotels,
             RowsOf(i) = Stored(i, id, p, H)
      PROVE  \A x \in RowsOf(i) : x.by = p
  BY <1>1, StoredFacts
<1> QED
  BY <1>1 DEF DbWhole

(* A request that reads nothing in a step.                                 *)
LEMMA ReadFrame ==
  ASSUME StoreTyped, NEW o \in Requests, ReadOne(o),
         got'[o] = got[o], unread'[o] = unread[o],
         pc'[o] = pc[o] \/ pc'[o] = "getRow" \/
           pc'[o] \notin {"new", "getRow", "getDemographics", "getHotels", "getDays"},
         pc'[o] = "getRow" => pc[o] = "new"
  PROVE  ReadOne(o)'
<1>1. \A x \in got[o] : x.table \in {"itinerary", "demographics", "hotel", "day", "activity"}
  BY RowFacts DEF StoreTyped, ReadsTyped
<1>2. pc[o] = "new" => got[o] = {}
  BY DEF ReadOne, Seen
<1>3. \A x \in got[o] : x.table \in Seen(o)'
  <2>1. CASE pc'[o] = pc[o]
    BY <2>1 DEF ReadOne, Seen
  <2>2. CASE pc'[o] = "getRow"
    BY <1>2, <2>2
  <2>3. CASE pc'[o] \notin {"new", "getRow", "getDemographics", "getHotels", "getDays"}
    BY <1>1, <2>3 DEF Seen
  <2> QED
    BY <2>1, <2>2, <2>3
<1> QED
  BY <1>3 DEF ReadOne, Related

(* A GET reads a table that it has not read yet.                           *)
LEMMA SelectKeeps ==
  ASSUME StoreTyped, DbWhole, NEW r \in Requests, ReadOne(r), NEW label, NEW table, NEW next,
         Select(r, label, table, next),
         table \notin Seen(r), table = "day" => "activity" \notin Seen(r), table # "activity",
         \A x \in Seen(r) \cup {table} : x \in Seen(r)',
         \/ unread' = unread
         \/ table = "day" /\ unread' = [unread EXCEPT ![r] = Of(db, Target[r], "day")]
  PROVE  ReadOne(r)'
<1> DEFINE new == Of(db, Target[r], table)
<1> USE DEF StoreTyped, ReadsTyped
<1>1. got'[r] = got[r] \cup new
  BY DEF Select
<1>2. \A x \in new : x.table = table /\ x \in RowsOf(Target[r])
  BY DEF Of, RowsOf
<1>3. \A x, y \in new : x.by = y.by
  BY <1>2, OnePayload, TargetTyped
<1>4. \A x \in got[r], y \in new : ~Related(x, y) /\ ~Related(y, x)
  <2>1. ASSUME NEW x \in got[r], NEW y \in new
        PROVE  x.table # y.table /\ {x.table, y.table} # {"day", "activity"}
               /\ {y.table, x.table} # {"day", "activity"}
    <3>1. x.table \in Seen(r) /\ y.table = table
      BY <1>2 DEF ReadOne
    <3>2. x.table # table
      BY <3>1
    <3>3. table = "day" => x.table # "activity"
      BY <3>1
    <3> QED
      BY <3>1, <3>2, <3>3
  <2> QED
    BY <2>1 DEF Related
<1>5. unread'[r] \subseteq {x \in got'[r] : x.table = "day"}
  <2>1. CASE unread' = unread
    BY <1>1, <2>1 DEF ReadOne
  <2>2. CASE table = "day" /\ unread' = [unread EXCEPT ![r] = Of(db, Target[r], "day")]
    <3>1. unread'[r] = new
      BY <2>2
    <3> QED
      BY <1>1, <1>2, <2>2, <3>1
  <2> QED
    BY <2>1, <2>2
<1> HIDE DEF new
<1>6. \A x \in got'[r] : x.table \in Seen(r)'
  BY <1>1, <1>2 DEF ReadOne
<1>7. \A x, y \in got'[r] : Related(x, y) => x.by = y.by
  BY <1>1, <1>3, <1>4 DEF ReadOne
<1> QED
  BY <1>5, <1>6, <1>7 DEF ReadOne, Related

(* The activities of a day come with the payload of that day.              *)
LEMMA ActivitiesKeep ==
  ASSUME StoreTyped, NEW r \in Requests, ReadOne(r), GetActivities(r)
  PROVE  ReadOne(r)'
<1> USE DEF StoreTyped, ReadsTyped, WritesTyped
<1>1. PICK d \in unread[r] :
        /\ got' = [got EXCEPT ![r] =
                     got[r] \cup {x \in Of(db, Target[r], "activity") : x.key = d.key}]
        /\ unread' = [unread EXCEPT ![r] = unread[r] \ {d}]
  BY DEF GetActivities
<1> DEFINE new == {x \in Of(db, Target[r], "activity") : x.key = d.key}
<1>2. got'[r] = got[r] \cup new /\ unread'[r] = unread[r] \ {d}
  BY <1>1
<1>3. d \in got[r] /\ d.table = "day" /\ d \in Rows
  BY DEF ReadOne
<1>4. PICK m \in Days : d.key = <<d.by, m>>
  BY <1>3, RowFacts
<1>5. ASSUME NEW x \in new
      PROVE  x.table = "activity" /\ x.by = d.by
  <2>1. x \in Rows /\ x.table = "activity" /\ x.key = d.key
    BY DEF Of
  <2>2. PICK n \in Days : x.key = <<x.by, n>>
    BY <2>1, RowFacts
  <2> QED
    BY <1>4, <2>1, <2>2
<1> HIDE DEF new
<1>6. ASSUME NEW y \in got[r], y.table \in {"day", "activity"}
      PROVE  y.by = d.by
  <2>1. Related(d, y)
    BY <1>3, <1>6 DEF Related
  <2> QED
    BY <1>3, <2>1 DEF ReadOne
<1>7. ASSUME NEW x \in got'[r], NEW y \in got'[r], Related(x, y)
      PROVE  x.by = y.by
  <2>1. CASE x \in got[r] /\ y \in got[r]
    BY <1>7, <2>1 DEF ReadOne
  <2>2. CASE x \in new \/ y \in new
    <3>1. x.table = "activity" \/ y.table = "activity"
      BY <1>5, <2>2
    <3>2. x.table \in {"day", "activity"} /\ y.table \in {"day", "activity"}
      BY <1>7, <3>1 DEF Related
    <3> QED
      BY <1>2, <1>5, <1>6, <3>2
  <2> QED
    BY <1>2, <2>1, <2>2
<1>8. pc' = pc /\ pc[r] = "getActivities"
  BY DEF GetActivities
<1>9. \A x \in got'[r] : x.table \in Seen(r)'
  BY <1>2, <1>5, <1>8 DEF Seen, ReadOne
<1>10. unread'[r] \subseteq {x \in got'[r] : x.table = "day"}
  BY <1>2 DEF ReadOne
<1> QED
  BY <1>7, <1>9, <1>10 DEF ReadOne, Related

(* Every step keeps what the GETs have read in order.                      *)
LEMMA ReadStep ==
  ASSUME StoreTyped, DbWhole, ReadInv, [Next]_vars
  PROVE  ReadInv'
<1> USE DEF StoreTyped, WayTyped, ReadsTyped
<1>1. ASSUME NEW r \in Requests, UNCHANGED readVars,
             \A o \in Requests \ {r} : pc'[o] = pc[o],
             \/ pc'[r] = pc[r] \/ (pc'[r] = "getRow" /\ pc[r] = "new")
             \/ pc'[r] \notin {"new", "getRow", "getDemographics", "getHotels", "getDays"}
      PROVE  ReadInv'
  <2>1. ASSUME NEW o \in Requests
        PROVE  ReadOne(o)'
    <3>1. got'[o] = got[o] /\ unread'[o] = unread[o] /\ ReadOne(o)
      BY <1>1 DEF readVars, ReadInv
    <3>2. CASE pc'[o] = "getRow" /\ pc[o] = "new"
      BY <3>1, <3>2, ReadFrame
    <3>3. CASE pc'[o] = pc[o]
      <4>1. pc'[o] = "getRow" => pc[o] = "getRow"
        BY <3>3
      <4>2. Seen(o)' = Seen(o)
        BY <3>3 DEF Seen
      <4> QED
        BY <3>1, <4>2 DEF ReadOne, Related
    <3>4. CASE pc'[o] \notin {"new", "getRow", "getDemographics", "getHotels", "getDays"}
      BY <3>1, <3>4, ReadFrame
    <3> QED
      BY <1>1, <3>2, <3>3, <3>4
  <2> QED
    BY <2>1 DEF ReadInv
<1>2. ASSUME NEW r \in Requests, ReadOne(r)',
             \A o \in Requests \ {r} : pc'[o] = pc[o] /\ got'[o] = got[o] /\ unread'[o] = unread[o]
      PROVE  ReadInv'
  <2>1. ASSUME NEW o \in Requests \ {r}
        PROVE  ReadOne(o)'
    <3>1. Seen(o)' = Seen(o)
      BY <1>2 DEF Seen
    <3> QED
      BY <1>2, <3>1 DEF ReadInv, ReadOne, Related
  <2> QED
    BY <1>2, <2>1 DEF ReadInv
<1>3. ASSUME NEW r \in Requests, Save(r) \/ Remove(r) \/ CommitUnknown(r) \/ Rollback(r) \/ StatementFails(r)
      PROVE  ReadInv'
  <2>1. /\ UNCHANGED readVars /\ \A o \in Requests \ {r} : pc'[o] = pc[o]
        /\ pc'[r] \notin {"new", "getRow", "getDemographics", "getHotels", "getDays"}
    BY <1>3
       DEF Save, BeginSave, InsertItinerary, UpdateItineraryRow, UpdateMissing, FindDemographics,
           WriteDemographics, DropHotels, AddHotels, DropDays, AddDays, Commit, PublishCreated,
           Remove, BeginRemove, DeleteItineraryById, DeleteAccommodationById, CommitUnknown,
           Rollback, StatementFails, Goto
  <2> QED
    BY <1>1, <2>1
<1>4. ASSUME NEW r \in Requests, Read(r)
      PROVE  ReadInv'
  <2>1. CASE BeginRead(r) \/ AnswerRead(r)
    <3>1. /\ UNCHANGED readVars /\ \A o \in Requests \ {r} : pc'[o] = pc[o]
          /\ \/ pc'[r] = "getRow" /\ pc[r] = "new"
             \/ pc'[r] = "done"
      BY <2>1 DEF BeginRead, AnswerRead, Arrives, Goto
    <3> QED
      BY <1>1, <3>1
  <2>2. ReadOne(r)
    BY DEF ReadInv
  <2>3. CASE GetRow(r)
    <3> DEFINE next == IF Of(db, Target[r], "itinerary") = {} THEN "done" ELSE "getDemographics"
    <3>1. Select(r, "getRow", "itinerary", next) /\ unread' = unread
      BY <2>3 DEF GetRow
    <3>2. pc[r] = "getRow" /\ pc'[r] \in {"done", "getDemographics"}
      BY <3>1 DEF Select, Goto
    <3> HIDE DEF next
    <3>3. Seen(r) = {} /\ "itinerary" \in Seen(r)'
      BY <3>2 DEF Seen
    <3>4. ReadOne(r)'
      BY <2>2, <3>1, <3>3, SelectKeeps
    <3> QED
      BY <1>2, <3>1, <3>4 DEF Select, Goto
  <2>4. CASE GetDemographics(r)
    <3>1. Select(r, "getDemographics", "demographics", "getHotels") /\ unread' = unread
      BY <2>4 DEF GetDemographics
    <3>2. Seen(r) = {"itinerary"} /\ Seen(r)' = {"itinerary", "demographics"}
      BY <3>1 DEF Seen, Select, Goto
    <3>3. ReadOne(r)'
      BY <2>2, <3>1, <3>2, SelectKeeps
    <3> QED
      BY <1>2, <3>1, <3>3 DEF Select, Goto
  <2>5. CASE GetHotels(r)
    <3>1. Select(r, "getHotels", "hotel", "getDays") /\ unread' = unread
      BY <2>5 DEF GetHotels
    <3>2. /\ Seen(r) = {"itinerary", "demographics"}
          /\ Seen(r)' = {"itinerary", "demographics", "hotel"}
      BY <3>1 DEF Seen, Select, Goto
    <3>3. ReadOne(r)'
      BY <2>2, <3>1, <3>2, SelectKeeps
    <3> QED
      BY <1>2, <3>1, <3>3 DEF Select, Goto
  <2>6. CASE GetDays(r)
    <3>1. /\ Select(r, "getDays", "day", "getActivities")
          /\ unread' = [unread EXCEPT ![r] = Of(db, Target[r], "day")]
      BY <2>6 DEF GetDays
    <3>2. /\ Seen(r) = {"itinerary", "demographics", "hotel"}
          /\ Seen(r)' = {"itinerary", "demographics", "hotel", "day", "activity"}
      BY <3>1 DEF Seen, Select, Goto
    <3>3. /\ "day" \notin Seen(r) /\ "activity" \notin Seen(r)
          /\ \A x \in Seen(r) \cup {"day"} : x \in Seen(r)'
      BY <3>2
    <3>4. ReadOne(r)'
      BY <2>2, <3>1, <3>3, SelectKeeps
    <3> QED
      BY <1>2, <3>1, <3>4 DEF Select, Goto
  <2>7. CASE GetActivities(r)
    <3>1. ReadOne(r)'
      BY <2>2, <2>7, ActivitiesKeep
    <3> QED
      BY <1>2, <2>7, <3>1 DEF GetActivities
  <2> QED
    BY <1>4, <2>1, <2>3, <2>4, <2>5, <2>6, <2>7 DEF Read
<1>5. CASE Crash
  <2>1. ASSUME NEW o \in Requests
        PROVE  ReadOne(o)'
    <3>1. /\ pc'[o] = IF pc[o] \in Active THEN "done" ELSE pc[o]
          /\ got'[o] = IF pc[o] \in Active THEN {} ELSE got[o]
          /\ unread'[o] = {}
      BY <1>5 DEF Crash
    <3>2. CASE pc[o] \in Active
      BY <3>1, <3>2 DEF ReadOne, Related
    <3>3. CASE pc[o] \notin Active
      <4>1. Seen(o)' = Seen(o)
        BY <3>1, <3>3 DEF Seen
      <4> QED
        BY <3>1, <3>3, <4>1 DEF ReadInv, ReadOne, Related
    <3> QED
      BY <3>2, <3>3
  <2> QED
    BY <2>1 DEF ReadInv
<1>6. CASE UNCHANGED vars
  BY <1>6 DEF vars, ReadInv, ReadOne, Seen, Related
<1> QED
  BY <1>3, <1>4, <1>5, <1>6 DEF Next

-----------------------------------------------------------------------------
(***************************************************************************)
(* The theorems.                                                           *)
(***************************************************************************)

StoreInv == StoreTyped /\ DbInv /\ TxInv /\ ReadInv

(* The seeded database satisfies the invariant.                            *)
LEMMA InitInv == Init => StoreInv
<1> SUFFICES ASSUME Init PROVE StoreInv
  OBVIOUS
<1>1. StoreTyped
  BY InitTyped
<1>2. Seed \in Itineraries /\ Seed \in Payloads /\ Hotels \in SUBSET Hotels
  BY DEF Itineraries, Payloads
<1>3. db = Stored(Seed, Seed, Seed, Hotels)
  <2>1. Stored(Seed, Seed, Seed, Hotels)
          = {ItineraryRow(Seed, Seed), DemographicsRow(Seed, Seed, Seed)}
            \cup HotelRows(Seed, Seed) \cup DayRows(Seed, Seed) \cup ActivityRows(Seed, Seed)
    BY <1>2, StoredTables
  <2> QED
    BY <2>1 DEF Init
<1>4. \A x \in db : x.of = Seed /\ x.by = Seed
  BY <1>2, <1>3, StoredFacts
<1>5. DbInv
  <2>1. RowsOf(Seed) = Stored(Seed, Seed, Seed, Hotels)
    BY <1>3, <1>4 DEF RowsOf
  <2>2. \A i \in Itineraries \ {Seed} : RowsOf(i) = {}
    BY <1>4 DEF RowsOf
  <2> QED
    BY <1>2, <1>4, <2>1, <2>2 DEF DbInv, DbWhole, DbSigned
<1>6. TxInv
  <2>1. \A r \in Requests : RowsOf(r) = {}
    BY <1>4, StoreAssumption DEF RowsOf
  <2> QED
    BY <2>1 DEF Init, TxInv, Tx, Way, Exclusive, Holds, Writing, Transaction, Untouched
<1>7. ReadInv
  BY DEF Init, ReadInv, ReadOne
<1> QED
  BY <1>1, <1>5, <1>6, <1>7 DEF StoreInv

(* Every step keeps it.                                                    *)
LEMMA InvStep == StoreInv /\ [Next]_vars => StoreInv'
BY TypedStep, StoreStep, ReadStep DEF StoreInv, DbInv

(* Who has a client of the pool.                                           *)
Clients == {r \in Requests : pc[r] \in Transaction \cup {"remove"}}

PoolInv == Cardinality(Clients) <= PoolSize

(* A request takes a client only when one is free, and keeps it to its     *)
(* last statement.                                                         *)
LEMMA PoolStep ==
  ASSUME StoreTyped, PoolInv, [Next]_vars
  PROVE  PoolInv'
<1> USE DEF StoreTyped, WayTyped
<1>1. IsFiniteSet(Clients) /\ Cardinality(Clients) \in Nat /\ PoolSize \in Nat
  <2>1. Clients \subseteq Requests /\ IsFiniteSet(Requests)
    BY StoreAssumption DEF Clients
  <2> QED
    BY <2>1, StoreAssumption, FS_Subset, FS_CardinalityType
<1>2. ASSUME Clients' \subseteq Clients
      PROVE  PoolInv'
  <2>1. Cardinality(Clients') <= Cardinality(Clients) /\ Cardinality(Clients') \in Nat
    BY <1>1, <1>2, FS_Subset, FS_CardinalityType
  <2> QED
    BY <1>1, <2>1 DEF PoolInv
<1>3. ASSUME NEW r \in Requests, BeginSave(r) \/ BeginRemove(r)
      PROVE  PoolInv'
  <2>1. Cardinality(Clients) < PoolSize
    BY <1>3 DEF BeginSave, BeginRemove, ClientFree, Clients
  <2>2. \A o \in Requests \ {r} : pc'[o] = pc[o]
    BY <1>3 DEF BeginSave, BeginRemove, Goto
  <2>3. Clients' \subseteq Clients \cup {r}
    BY <2>2 DEF Clients
  <2>4. /\ IsFiniteSet(Clients \cup {r})
        /\ Cardinality(Clients \cup {r}) = IF r \in Clients THEN Cardinality(Clients)
                                           ELSE Cardinality(Clients) + 1
    BY <1>1, FS_AddElement, Zenon
  <2>5. Cardinality(Clients') <= Cardinality(Clients \cup {r})
    BY <2>3, <2>4, FS_Subset
  <2>6. Cardinality(Clients') \in Nat
    BY <2>3, <2>4, FS_Subset, FS_CardinalityType
  <2>7. Cardinality(Clients') <= PoolSize
    BY <1>1, <2>1, <2>4, <2>5, <2>6
  <2> QED
    BY <2>7 DEF PoolInv
<1>4. CASE \A r \in Requests : pc'[r] = pc[r] \/ pc'[r] = "done"
  BY <1>2, <1>4 DEF Clients, Transaction
<1>5. ASSUME NEW r \in Requests, \A o \in Requests \ {r} : pc'[o] = pc[o],
             pc[r] \in Transaction \/ pc'[r] \in Reading \cup {"done", "publish"}
      PROVE  PoolInv'
  BY <1>2, <1>5 DEF Clients, Transaction, Reading
<1>6. ASSUME NEW r \in Requests, Save(r)
      PROVE  PoolInv'
  <2>1. BeginSave(r) \/ \E label : Goto(r, label) /\ (pc[r] \in Transaction \/ label = "done")
    BY <1>6 DEF Save, InsertItinerary, UpdateItineraryRow, UpdateMissing, FindDemographics,
       WriteDemographics, DropHotels, AddHotels, DropDays, AddDays, Commit, PublishCreated,
       Transaction
  <2> QED
    BY <1>3, <1>5, <2>1 DEF Goto
<1>7. ASSUME NEW r \in Requests, Remove(r)
      PROVE  PoolInv'
  BY <1>3, <1>4, <1>7 DEF Remove, DeleteItineraryById, DeleteAccommodationById, Goto
<1>8. ASSUME NEW r \in Requests, Read(r)
      PROVE  PoolInv'
  <2>1. pc' = pc \/ \E label \in Reading \cup {"done"} : Goto(r, label)
    BY <1>8 DEF Read, BeginRead, GetRow, GetDemographics, GetHotels, GetDays, GetActivities,
       AnswerRead, Select, Reading
  <2> QED
    BY <1>4, <1>5, <2>1 DEF Goto
<1>9. ASSUME NEW r \in Requests, CommitUnknown(r) \/ Rollback(r) \/ StatementFails(r)
      PROVE  PoolInv'
  BY <1>4, <1>9 DEF CommitUnknown, Rollback, StatementFails, Goto
<1>10. CASE Crash \/ UNCHANGED vars
  BY <1>4, <1>10 DEF Crash, vars
<1> QED
  BY <1>6, <1>7, <1>8, <1>9, <1>10 DEF Next

(* The tables, the transactions and the requests are well-formed, and no   *)
(* more of them than the pool has clients are in a transaction or wait in  *)
(* a DELETE (db.ts:42-64).                                                 *)
THEOREM TypeSafety == Spec => []TypeOK
<1>1. Init => PoolInv
  <2> SUFFICES ASSUME Init PROVE PoolInv
    OBVIOUS
  <2>1. Clients = {}
    BY DEF Init, Clients, Transaction
  <2> QED
    BY <2>1, FS_EmptySet, StoreAssumption DEF PoolInv
<1>2. StoreInv /\ PoolInv /\ [Next]_vars => PoolInv'
  BY PoolStep DEF StoreInv
<1>3. StoreInv /\ PoolInv => TypeOK
  BY Zenon DEF StoreInv, StoreTyped, WritesTyped, ReadsTyped, WayTyped, FaultsTyped, PoolInv,
     Clients, TypeOK
<1> QED
  BY <1>1, <1>2, <1>3, InitInv, InvStep, PTL DEF Spec

(* However saves, deletes, failures and crashes interleave, what is        *)
(* committed of an itinerary is one payload or nothing: no mixture of two  *)
(* saves, no second demographics row, no child without its itinerary       *)
(* (itineraryRepository.ts:184-186, 248-251, 375-379).                     *)
THEOREM AggregatesAreWhole == Spec => []AggregateIsWhole
<1>1. ASSUME StoreInv
      PROVE  AggregateIsWhole
  <2>1. ASSUME NEW i \in Itineraries, NEW id \in Payloads, NEW p \in Payloads,
               NEW H \in SUBSET Hotels, RowsOf(i) = Stored(i, id, p, H)
        PROVE  Whole(i, p)
    <3>1. \A table : Of(db, i, table) = Of(Stored(i, id, p, H), i, table)
      BY <2>1 DEF Of, RowsOf
    <3>2. /\ Of(db, i, "itinerary") = {ItineraryRow(i, p)}
          /\ Of(db, i, "demographics") = {DemographicsRow(i, id, p)}
          /\ Of(db, i, "day") = DayRows(i, p)
          /\ Of(db, i, "activity") = ActivityRows(i, p)
      BY <3>1, StoredFacts
    <3>3. /\ Cardinality(Of(db, i, "itinerary")) = 1
          /\ Cardinality(Of(db, i, "demographics")) = 1
      BY <3>2, FS_Singleton
    <3>4. \A x \in db : x.of = i => x.by = p
      BY <2>1, StoredFacts DEF RowsOf
    <3> QED
      BY <3>2, <3>3, <3>4 DEF Whole
  <2>2. ASSUME NEW i \in Itineraries
        PROVE  {x \in db : x.of = i} = {} \/ \E p \in Payloads : Whole(i, p)
    BY <1>1, <2>1 DEF StoreInv, DbInv, DbWhole, RowsOf
  <2> QED
    BY <2>2 DEF AggregateIsWhole
<1>2. StoreInv => AggregateIsWhole
  BY <1>1
<1> QED
  BY <1>2, InitInv, InvStep, PTL DEF Spec

(* A save that failed left nothing behind, unless the failure is that of   *)
(* its COMMIT's reply, and an event is about an itinerary that was         *)
(* committed (itineraryRepository.ts:376-378, db.ts:58-60,                 *)
(* itineraryCreatedPublisher.ts:49-50).                                    *)
THEOREM FailuresLeaveNothing == Spec => []FailedSaveLeavesNothing
<1>1. StoreInv => FailedSaveLeavesNothing
  <2> SUFFICES ASSUME StoreInv PROVE FailedSaveLeavesNothing
    OBVIOUS
  <2>1. ASSUME NEW r \in Requests, ended[r] = "rollback" \/ answer[r] = 404, NEW x \in db
        PROVE  x.by # r
    BY <2>1, StoreAssumption DEF StoreInv, DbInv, DbSigned
  <2>2. \A r \in events : ended[r] = "commit"
    BY DEF StoreInv, TxInv, Way, StoreTyped, WayTyped
  <2> QED
    BY <2>1, <2>2 DEF FailedSaveLeavesNothing
<1> QED
  BY <1>1, InitInv, InvStep, PTL DEF Spec

(* A GET may mix tables of two saves, but never the rows of one table, and *)
(* activities only ever come with their own day                            *)
(* (itineraryRepository.ts:413-460).                                       *)
THEOREM TablesStayApart == Spec => []TablesDoNotMix
<1>1. StoreInv => TablesDoNotMix
  BY DEF StoreInv, ReadInv, ReadOne, Related, TablesDoNotMix
<1> QED
  BY <1>1, InitInv, InvStep, PTL DEF Spec

-----------------------------------------------------------------------------
(***************************************************************************)
(* The transactions implement AggregateStore.                              *)
(***************************************************************************)

RowsIn(rows, i) == {x \in rows : x.of = i}

WholeIn(rows, i, p) ==
  /\ \A x \in rows : x.of = i => x.by = p
  /\ Cardinality(Of(rows, i, "itinerary")) = 1
  /\ Cardinality(Of(rows, i, "demographics")) = 1
  /\ Of(rows, i, "day") = DayRows(i, p)
  /\ Of(rows, i, "activity") = ActivityRows(i, p)

PayloadIn(rows, i) ==
  IF RowsIn(rows, i) = {} THEN None
  ELSE IF \E p \in Payloads : WholeIn(rows, i, p)
       THEN CHOOSE p \in Payloads : WholeIn(rows, i, p)
       ELSE Torn

HotelsIn(rows, i) == {n \in Hotels : \E x \in Of(rows, i, "hotel") : x.key[2] = n}

(* The mapping, as a function of the committed rows.                       *)
LEMMA MappingIn ==
  /\ StoredPayload = [i \in Itineraries |-> PayloadIn(db, i)]
  /\ StoredHotels = [i \in Itineraries |-> HotelsIn(db, i)]
  /\ StoredPayload' = [i \in Itineraries |-> PayloadIn(db', i)]
  /\ StoredHotels' = [i \in Itineraries |-> HotelsIn(db', i)]
  /\ \A i : RowsOf(i) = RowsIn(db, i) /\ RowsOf(i)' = RowsIn(db', i)
BY DEF StoredPayload, StoredHotels, PayloadIn, HotelsIn, RowsIn, WholeIn, Whole, RowsOf

(* It depends on the rows of the itinerary alone.                          *)
LEMMA MappingFrame ==
  ASSUME NEW rows, NEW others, NEW i, RowsIn(rows, i) = RowsIn(others, i)
  PROVE  PayloadIn(rows, i) = PayloadIn(others, i) /\ HotelsIn(rows, i) = HotelsIn(others, i)
<1>1. \A table : Of(rows, i, table) = Of(others, i, table)
  BY DEF Of, RowsIn
<1>2. ASSUME NEW p
      PROVE  WholeIn(rows, i, p) <=> WholeIn(others, i, p)
  <2>1. (\A x \in rows : x.of = i => x.by = p) <=> (\A x \in others : x.of = i => x.by = p)
    BY DEF RowsIn
  <2> QED
    BY <1>1, <2>1 DEF WholeIn
<1>3. (CHOOSE p \in Payloads : WholeIn(rows, i, p)) = (CHOOSE p \in Payloads : WholeIn(others, i, p))
  BY <1>2
<1>4. (\E p \in Payloads : WholeIn(rows, i, p)) <=> \E p \in Payloads : WholeIn(others, i, p)
  BY <1>2
<1>5. PayloadIn(rows, i) = PayloadIn(others, i)
  <2> DEFINE some  == \E p \in Payloads : WholeIn(rows, i, p)
             other == \E p \in Payloads : WholeIn(others, i, p)
             one   == CHOOSE p \in Payloads : WholeIn(rows, i, p)
             two   == CHOOSE p \in Payloads : WholeIn(others, i, p)
  <2>1. /\ PayloadIn(rows, i) = IF RowsIn(rows, i) = {} THEN None ELSE IF some THEN one ELSE Torn
        /\ PayloadIn(others, i) = IF RowsIn(others, i) = {} THEN None ELSE IF other THEN two ELSE Torn
    BY Zenon DEF PayloadIn
  <2>2. (some <=> other) /\ one = two
    BY <1>3, <1>4
  <2> HIDE DEF some, other, one, two
  <2> QED
    BY <2>1, <2>2
<1>6. HotelsIn(rows, i) = HotelsIn(others, i)
  BY <1>1 DEF HotelsIn
<1> QED
  BY <1>5, <1>6

(* It maps what is whole to its payload and its hotels.                    *)
LEMMA MappingWhole ==
  ASSUME NEW rows, NEW i \in Itineraries, NEW id \in Payloads, NEW p \in Payloads,
         NEW H \in SUBSET Hotels, RowsIn(rows, i) = Stored(i, id, p, H)
  PROVE  PayloadIn(rows, i) = p /\ HotelsIn(rows, i) = H
<1>1. \A table : Of(rows, i, table) = Of(Stored(i, id, p, H), i, table)
  BY DEF Of, RowsIn
<1>2. /\ Of(rows, i, "itinerary") = {ItineraryRow(i, p)}
      /\ Of(rows, i, "demographics") = {DemographicsRow(i, id, p)}
      /\ Of(rows, i, "hotel") = {Row("hotel", i, <<p, n>>, p) : n \in H}
      /\ Of(rows, i, "day") = DayRows(i, p)
      /\ Of(rows, i, "activity") = ActivityRows(i, p)
  <2> DEFINE there == Stored(i, id, p, H)
             HH == {Row("hotel", i, <<p, n>>, p) : n \in H}
  <2>1. /\ Of(there, i, "itinerary") = {ItineraryRow(i, p)}
        /\ Of(there, i, "demographics") = {DemographicsRow(i, id, p)}
        /\ Of(there, i, "day") = DayRows(i, p)
        /\ Of(there, i, "activity") = ActivityRows(i, p)
    BY StoredFacts
  <2>3. Of(there, i, "hotel") = HH
    BY StoredFacts
  <2> HIDE DEF there, HH
  <2>2. \A table : Of(rows, i, table) = Of(there, i, table)
    BY <1>1 DEF there
  <2> QED
    BY <2>1, <2>2, <2>3 DEF HH
<1>3. ItineraryRow(i, p) \in rows /\ ItineraryRow(i, p).of = i /\ ItineraryRow(i, p).by = p
  BY <1>2 DEF Of, ItineraryRow, Row
<1>4. \A x \in rows : x.of = i => x.by = p
  BY StoredFacts DEF RowsIn
<1>5. WholeIn(rows, i, p)
  BY <1>2, <1>4, FS_Singleton DEF WholeIn
<1>6. \A q \in Payloads : WholeIn(rows, i, q) => q = p
  BY <1>3 DEF WholeIn
<1>7. RowsIn(rows, i) # {}
  BY <1>3 DEF RowsIn
<1>8. PayloadIn(rows, i) = p
  BY <1>5, <1>6, <1>7 DEF PayloadIn
<1>9. \A n \in H : Row("hotel", i, <<p, n>>, p).key[2] = n
  BY DEF Row
<1>10. HotelsIn(rows, i) = H
  BY <1>2, <1>9 DEF HotelsIn
<1> QED
  BY <1>8, <1>10

(* ... and what is not there to nothing.                                   *)
LEMMA MappingGone ==
  ASSUME NEW rows, NEW i, RowsIn(rows, i) = {}
  PROVE  PayloadIn(rows, i) = None /\ HotelsIn(rows, i) = {}
BY DEF PayloadIn, HotelsIn, RowsIn, Of

(* Every step is a step of AggregateStore or leaves it alone.              *)
LEMMA AggregateStep ==
  ASSUME StoreInv, [Next]_vars
  PROVE  [Aggregates!Next]_<<StoredPayload, StoredHotels>>
<1> DEFINE Elsewhere(t) == \A i : i # t => RowsIn(db', i) = RowsIn(db, i)
<1>1. CASE db' = db
  BY <1>1, MappingIn
<1>2. ASSUME NEW t \in Itineraries, Elsewhere(t)
      PROVE  /\ StoredPayload' = [StoredPayload EXCEPT ![t] = PayloadIn(db', t)]
             /\ StoredHotels' = [StoredHotels EXCEPT ![t] = HotelsIn(db', t)]
  <2>1. \A i \in Itineraries : i # t =>
          PayloadIn(db', i) = PayloadIn(db, i) /\ HotelsIn(db', i) = HotelsIn(db, i)
    BY <1>2, MappingFrame
  <2> QED
    BY <2>1, MappingIn
<1>3. ASSUME NEW r \in Requests, Commit(r) \/ CommitUnknown(r)
      PROVE  Aggregates!Next
  <2> DEFINE t == Target[r]
  <2>1. t \in Itineraries /\ r \in Payloads /\ Hotels \in SUBSET Hotels
    BY TargetTyped
  <2>2. pc[r] = "commit" /\ db' = View(r)
    BY <1>3 DEF Commit, CommitUnknown
  <2>3. PICK id \in Payloads : RowsOf(t)' = Stored(t, id, r, Hotels)
    BY <2>2, CommitReplaces DEF StoreInv
  <2>4. Elsewhere(t)
    BY <2>2, CommitReplaces, MappingIn DEF StoreInv
  <2>5. PayloadIn(db', t) = r /\ HotelsIn(db', t) = Hotels
    BY <2>1, <2>3, MappingIn, MappingWhole
  <2>6. StoredPayload[t] # None \/ t = r
    <3>1. CASE Kind[r] = "post"
      BY <3>1, StoreAssumption
    <3>2. CASE Kind[r] = "put"
      <4>1. RowsOf(t) # {}
        BY <2>2, <3>2 DEF StoreInv, TxInv, Tx, Holds, Writing, Transaction, Progress
      <4>2. PICK i2 \in Payloads, p \in Payloads, H \in SUBSET Hotels : RowsOf(t) = Stored(t, i2, p, H)
        BY <2>1, <4>1 DEF StoreInv, DbInv, DbWhole
      <4>3. PayloadIn(db, t) = p
        BY <2>1, <4>2, MappingIn, MappingWhole
      <4> QED
        BY <2>1, <4>3, MappingIn, StoreAssumption
    <3> QED
      BY <2>2, <3>1, <3>2 DEF StoreInv, TxInv, Way, Transaction
  <2>7. Aggregates!Save(t, r)
    BY <1>2, <2>1, <2>4, <2>5, <2>6 DEF Aggregates!Save
  <2> QED
    BY <2>1, <2>7 DEF Aggregates!Next
<1>4. ASSUME NEW r \in Requests, DeleteItineraryById(r)
      PROVE  Aggregates!Next
  <2> DEFINE t == Target[r]
  <2>1. t \in Itineraries
    BY TargetTyped
  <2>2. RowsOf(t)' = {} /\ Elsewhere(t)
    BY <1>4, DeleteMoves, MappingIn DEF StoreInv
  <2>3. PayloadIn(db', t) = None /\ HotelsIn(db', t) = {}
    BY <2>2, MappingIn, MappingGone
  <2>4. Aggregates!Delete(t)
    BY <1>2, <2>1, <2>2, <2>3 DEF Aggregates!Delete
  <2> QED
    BY <2>1, <2>4 DEF Aggregates!Next
<1>5. ASSUME NEW r \in Requests, DeleteAccommodationById(r)
      PROVE  [Aggregates!Next]_<<StoredPayload, StoredHotels>>
  <2> DEFINE t == Target[r]
  <2>1. t \in Itineraries
    BY TargetTyped
  <2>2. PICK n \in Hotels :
          db' = db \ {x \in db : x.table = "hotel" /\ x.key = <<t, n>>}
    BY <1>5 DEF DeleteAccommodationById
  <2>3. Elsewhere(t)
    BY <2>2, HotelRemoved, MappingIn DEF StoreInv
  <2>4. CASE RowsOf(t)' = RowsOf(t)
    <3>1. PayloadIn(db', t) = PayloadIn(db, t) /\ HotelsIn(db', t) = HotelsIn(db, t)
      BY <2>4, MappingFrame, MappingIn
    <3> QED
      BY <1>2, <2>1, <2>3, <3>1, MappingIn
  <2>5. CASE RowsOf(t)' # RowsOf(t)
    <3>1. RowsOf(t) # {}
      BY <2>2, <2>5 DEF RowsOf
    <3>2. PICK id \in Payloads, p \in Payloads, H \in SUBSET Hotels : RowsOf(t) = Stored(t, id, p, H)
      BY <2>1, <3>1 DEF StoreInv, DbInv, DbWhole
    <3>3. RowsOf(t)' = Stored(t, id, p, H \ {n})
      BY <2>2, <2>5, <3>2, HotelRemoved DEF StoreInv
    <3>4. /\ PayloadIn(db, t) = p /\ HotelsIn(db, t) = H
          /\ PayloadIn(db', t) = p /\ HotelsIn(db', t) = H \ {n}
      BY <2>1, <3>2, <3>3, MappingIn, MappingWhole
    <3>5. StoredPayload[t] = p /\ StoredHotels[t] = H
      BY <2>1, <3>4, MappingIn
    <3>6. /\ StoredPayload' = [StoredPayload EXCEPT ![t] = p]
          /\ StoredHotels' = [StoredHotels EXCEPT ![t] = H \ {n}]
      BY <1>2, <2>1, <2>3, <3>4
    <3>7. StoredPayload' = StoredPayload
      <4>1. StoredPayload = [i \in Itineraries |-> PayloadIn(db, i)]
        BY MappingIn
      <4> QED
        BY <2>1, <3>5, <3>6, <4>1
    <3>8. StoredHotels' = [StoredHotels EXCEPT ![t] = StoredHotels[t] \ {n}]
      BY <3>5, <3>6
    <3>9. Aggregates!DeleteHotel(t, n)
      BY <2>1, <3>7, <3>8 DEF Aggregates!DeleteHotel
    <3> QED
      BY <2>1, <3>9 DEF Aggregates!Next
  <2> QED
    BY <2>4, <2>5
<1>6. ASSUME NEW r \in Requests, Save(r)
      PROVE  db' = db \/ Commit(r)
  BY <1>6 DEF Save, BeginSave, InsertItinerary, UpdateItineraryRow, UpdateMissing,
     FindDemographics, WriteDemographics, DropHotels, AddHotels, DropDays, AddDays, PublishCreated
<1>7. ASSUME NEW r \in Requests, Remove(r)
      PROVE  db' = db \/ DeleteItineraryById(r) \/ DeleteAccommodationById(r)
  BY <1>7 DEF Remove, BeginRemove
<1>8. ASSUME NEW r \in Requests, Read(r)
      PROVE  db' = db
  BY <1>8 DEF Read, BeginRead, GetRow, GetDemographics, GetHotels, GetDays, GetActivities,
     AnswerRead, Select
<1>9. ASSUME NEW r \in Requests, Rollback(r) \/ StatementFails(r)
      PROVE  db' = db
  BY <1>9 DEF Rollback, StatementFails
<1>10. CASE Crash \/ UNCHANGED vars
  <2>1. db' = db
    BY <1>10 DEF Crash, vars
  <2> QED
    BY <1>1, <2>1
<1> QED
  BY <1>1, <1>3, <1>4, <1>5, <1>6, <1>7, <1>8, <1>9, <1>10 DEF Next

(* The seeded database is the first state of AggregateStore.               *)
LEMMA AggregateInit == Init => Aggregates!Init
<1> SUFFICES ASSUME Init PROVE Aggregates!Init
  OBVIOUS
<1>1. StoreInv
  BY InitInv
<1>2. Seed \in Itineraries /\ Seed \in Payloads /\ Hotels \in SUBSET Hotels
  BY DEF Itineraries, Payloads
<1>3. db = Stored(Seed, Seed, Seed, Hotels)
  BY <1>2, StoredTables DEF Init
<1>4. \A x \in db : x.of = Seed
  BY <1>2, <1>3, StoredFacts
<1>5. RowsIn(db, Seed) = Stored(Seed, Seed, Seed, Hotels)
  BY <1>3, <1>4 DEF RowsIn
<1>6. PayloadIn(db, Seed) = Seed /\ HotelsIn(db, Seed) = Hotels
  BY <1>2, <1>5, MappingWhole
<1>7. \A i \in Itineraries \ {Seed} : PayloadIn(db, i) = None /\ HotelsIn(db, i) = {}
  BY <1>4, MappingGone DEF RowsIn
<1> QED
  BY <1>6, <1>7, MappingIn DEF Aggregates!Init

(* The transactions are atomic: each commit saves its whole payload at     *)
(* once, over an itinerary that still exists, and nothing else changes     *)
(* what is stored (itineraryRepository.ts:375-402, db.ts:42-64).           *)
THEOREM TransactionsAreAtomic == Spec => SavesAreAtomic
<1>1. StoreInv /\ [Next]_vars => [Aggregates!Next]_<<StoredPayload, StoredHotels>>
  BY AggregateStep
<1> QED
  BY <1>1, AggregateInit, InitInv, InvStep, PTL DEF Spec, SavesAreAtomic, Aggregates!Spec

=============================================================================
