-------------------------- MODULE MCBrokerAdapter --------------------------
(* BrokerAdapter for TLC: the slots and the queues are interchangeable in  *)
(* the runs that check safety only.                                        *)
EXTENDS BrokerAdapter, TLC

Symmetry == Permutations(Attempts) \cup Permutations(Queues)
=============================================================================
