-------------------------- MODULE MCItineraryStore --------------------------
(* ItineraryStore for TLC.  The requests of a run are a subset of these.   *)
EXTENDS ItineraryStore

CONSTANTS post, put1, put2, putNew, get, delete, deleteHotel

MCKind == [r \in Requests |-> CASE r = post                   -> "post"
                                [] r \in {put1, put2, putNew} -> "put"
                                [] r = get                    -> "get"
                                [] r = delete                 -> "delete"
                                [] r = deleteHotel            -> "deleteHotel"]

(* putNew is about the itinerary that post saves.                          *)
MCTarget == [r \in Requests |-> IF r \in {post, putNew} THEN post ELSE Seed]
=============================================================================
