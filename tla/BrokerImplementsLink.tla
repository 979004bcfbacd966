------------------------ MODULE BrokerImplementsLink ------------------------
(***************************************************************************)
(* BrokerAdapter implements ServiceLink as long as RabbitMQ closes         *)
(* connections and not single channels, and no connection dies in the      *)
(* instant between the last reply and the continuation of establish()      *)
(* (MaxFaults = 0).                                                        *)
(* After close() the contract says nothing, so what a closed adapter still *)
(* holds is mapped to nothing.                                             *)
(***************************************************************************)
EXTENDS BrokerAdapter

LinkStage ==
  CASE caller = "creating" -> "starting"
    [] caller = "failed"   -> "failed"
    [] caller = "owned"    -> IF channel # NoAttempt THEN "up" ELSE "recovering"
    [] OTHER               -> "closed"

LinkLive ==
  IF caller = "owned" THEN UNION {Range(consuming[a]) : a \in Attempts} ELSE {}

LinkRegistered == IF caller = "owned" THEN Range(registry) ELSE {}

Link == INSTANCE ServiceLink WITH
          stage <- LinkStage, live <- LinkLive, registered <- LinkRegistered

(* Every step of the adapter is a step of the contract or is invisible to  *)
(* the service (createBroker's returned object and onStatus, broker.ts:    *)
(* 268-340).                                                               *)
ImplementsLink == Link!LinkSpec
=============================================================================
