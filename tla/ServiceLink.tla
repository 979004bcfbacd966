----------------------------- MODULE ServiceLink -----------------------------
(***************************************************************************)
(* What a service sees of its broker connection, without sockets, attempts *)
(* and timers: the contract of createBroker().  BrokerAdapter implements   *)
(* it (module BrokerImplementsLink) and EmailDelivery runs on top of it.   *)
(*                                                                         *)
(* The contract has one sharp edge, which is the code's: on a reconnect    *)
(* the consumers come back one by one while publishing still throws.       *)
(***************************************************************************)
CONSTANT Queues

VARIABLES
  stage,       \* "starting", "up", "recovering", "closed" or "failed"
  live,        \* queues whose consumer receives messages
  registered   \* queues whose consumer is replayed on a reconnect

linkVars == <<stage, live, registered>>

LinkTypeOK ==
  /\ stage \in {"starting", "up", "recovering", "closed", "failed"}
  /\ live \in SUBSET Queues
  /\ registered \in SUBSET Queues

(* publish() and scheduleReminder() do not throw.                          *)
Publishable == stage = "up"

LinkInit ==
  /\ stage = "starting"
  /\ live = {}
  /\ registered = {}

Opened ==
  /\ stage = "starting"
  /\ stage' = "up"
  /\ UNCHANGED <<live, registered>>

CreateFailed ==
  /\ stage = "starting"
  /\ stage' = "failed"
  /\ UNCHANGED <<live, registered>>

Register(q) ==
  /\ stage = "up"
  /\ q \notin registered
  /\ live' = live \cup {q}
  /\ registered' = registered \cup {q}
  /\ UNCHANGED stage

Lost ==
  /\ stage = "up"
  /\ stage' = "recovering"
  /\ live' = {}
  /\ UNCHANGED registered

Replay(q) ==
  /\ stage = "recovering"
  /\ q \in registered \ live
  /\ live' = live \cup {q}
  /\ UNCHANGED <<stage, registered>>

ReplayLost ==
  /\ stage = "recovering"
  /\ live' = {}
  /\ UNCHANGED <<stage, registered>>

Resumed ==
  /\ stage = "recovering"
  /\ live = registered
  /\ stage' = "up"
  /\ UNCHANGED <<live, registered>>

Closed ==
  /\ stage \in {"up", "recovering"}
  /\ stage' = "closed"
  /\ live' = {}
  /\ registered' = {}

LinkNext ==
  \/ Opened \/ CreateFailed
  \/ Lost \/ ReplayLost \/ Resumed \/ Closed
  \/ \E q \in Queues : Register(q) \/ Replay(q)

LinkSpec == LinkInit /\ [][LinkNext]_linkVars
=============================================================================
