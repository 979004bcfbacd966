-------------------------- MODULE MCEmailDelivery --------------------------
(* EmailDelivery for TLC: an itinerary created without a usable owner      *)
(* address, one shared with two people and an invitation.                  *)
EXTENDS EmailDelivery

CONSTANTS created, shared, invited, owner, ann, bob

MCKind == [e \in Events |-> CASE e = created -> "created"
                              [] e = shared  -> "shared"
                              [] e = invited -> "invited"]

MCTo == [e \in Events |-> CASE e = created -> <<>>
                            [] e = shared  -> <<ann, bob>>
                            [] e = invited -> <<ann>>]

(* With Lead = 1 the reminder of the trip is due at time 2.                *)
MCTripStart == [e \in Events |-> 3]
=============================================================================
