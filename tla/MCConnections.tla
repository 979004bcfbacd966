--------------------------- MODULE MCConnections ---------------------------
(* The connections to RabbitMQ for TLC: one supervised connection, against *)
(* the contract of ServiceLink, and the publishers that make and share     *)
(* such connections.  LazyPublisher keeps of a connection only whether it  *)
(* has a channel, so the two have no step in common, and a behaviour moves *)
(* one of them and leaves the other as it began.                           *)
EXTENDS BrokerImplementsLink, LazyPublisher

VARIABLE moves

(* The one that rests has one initial state.                               *)
ConnectionsInit ==
  /\ moves \in {"adapter", "publishers"}
  /\ Init /\ PublisherInit
  /\ moves = "adapter" => rabbitUp
  /\ moves = "publishers" => up /\ initial = CHOOSE a \in Attempts : TRUE

AdapterMoves ==
  /\ moves = "adapter"
  /\ Next
  /\ UNCHANGED <<moves, publisherVars>>

PublishersMove ==
  /\ moves = "publishers"
  /\ PublisherNext
  /\ UNCHANGED <<moves, vars>>

ConnectionsNext == AdapterMoves \/ PublishersMove

(* Publishers that rest wait for no attempt: nothing of them is due.  The  *)
(* adapter's first establish() would be.                                   *)
ConnectionsSpec ==
  /\ ConnectionsInit
  /\ [][ConnectionsNext]_<<moves, vars, publisherVars>>
  /\ PublisherFairness
  /\ moves = "publishers" \/ Fairness
=============================================================================
