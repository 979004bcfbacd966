--------------------------- MODULE AggregateStore ---------------------------
(***************************************************************************)
(* What the clients of itinerary-service may believe of its writes: an     *)
(* itinerary is saved, replaced and deleted as one thing.  ItineraryStore  *)
(* implements it with transactions of many statements.                     *)
(***************************************************************************)
CONSTANTS Itineraries, Payloads, Hotels, Seed, None

VARIABLES
  payload,  \* what each itinerary holds
  hotels    \* the hotels it still has

Init ==
  /\ payload = [i \in Itineraries |-> IF i = Seed THEN Seed ELSE None]
  /\ hotels = [i \in Itineraries |-> IF i = Seed THEN Hotels ELSE {}]

(* A new itinerary, or an edit of one that exists: a PUT revives nothing.  *)
Save(i, p) ==
  /\ payload[i] # None \/ i = p
  /\ payload' = [payload EXCEPT ![i] = p]
  /\ hotels' = [hotels EXCEPT ![i] = Hotels]

Delete(i) ==
  /\ payload' = [payload EXCEPT ![i] = None]
  /\ hotels' = [hotels EXCEPT ![i] = {}]

DeleteHotel(i, n) ==
  /\ hotels' = [hotels EXCEPT ![i] = @ \ {n}]
  /\ UNCHANGED payload

Next ==
  \E i \in Itineraries :
    \/ \E p \in Payloads : Save(i, p)
    \/ Delete(i)
    \/ \E n \in Hotels : DeleteHotel(i, n)

Spec == Init /\ [][Next]_<<payload, hotels>>
=============================================================================
