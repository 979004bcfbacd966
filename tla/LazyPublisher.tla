---------------------------- MODULE LazyPublisher ----------------------------
(***************************************************************************)
(* The publishers of itinerary-service (itineraryCreatedPublisher.ts) and  *)
(* tools-service (eventPublisher.ts), which are one algorithm: a broker    *)
(* connection that the first publish creates and later ones share, and     *)
(* that is tried again after a failure.                                    *)
(*                                                                         *)
(* An attempt is one promise of connectBroker() and, once it is resolved,  *)
(* its broker (BrokerAdapter), of which this module keeps whether publish  *)
(* finds a channel.  Every continuation that a settled promise releases    *)
(* runs before the event loop takes the next callback (microtasks), so     *)
(* they all belong to the step that settles it.  The slots of attempts are *)
(* the bound of the model.                                                 *)
(***************************************************************************)
EXTENDS Naturals, FiniteSets, Functions

CONSTANTS
  Publishers,       \* requests that publish, one event at a time each
  Promises,         \* slots for connectBroker() promises
  None,             \* JavaScript's null
  MaxRabbitOutages  \* bound: how often RabbitMQ goes away

ASSUME PublisherAssumption ==
  /\ None \notin Promises
  /\ IsFiniteSet(Publishers) /\ IsFiniteSet(Promises)
  /\ MaxRabbitOutages \in Nat

VARIABLES
  rabbitUp,         \* RabbitMQ is reachable
  rabbitOutages,
  standing,         \* where each attempt stands
  brokerAttempt,
  connectedBroker,
  waits,            \* the attempt a publish awaits
  owns,             \* ... which is the one it created itself
  outcome,          \* what became of the last event of each publisher
  server            \* the HTTP server and its process

rabbitVars    == <<rabbitUp, rabbitOutages>>
refVars       == <<brokerAttempt, connectedBroker>>
pubVars       == <<waits, owns, outcome>>
publisherVars == <<rabbitVars, standing, refVars, pubVars, server>>

PublisherTypeOK ==
  /\ rabbitUp \in BOOLEAN
  /\ rabbitOutages \in 0..MaxRabbitOutages
  /\ standing \in [Promises ->
       {"free", "pending", "failed", "connected", "recovering", "closed"}]
  /\ brokerAttempt \in Promises \cup {None}
  /\ connectedBroker \in Promises \cup {None}
  /\ waits \in [Publishers -> Promises \cup {None}]
  /\ owns \in [Publishers -> BOOLEAN]
  /\ outcome \in [Publishers -> {"none", "published", "dropped"}]
  /\ server \in {"open", "draining", "closed", "exited"}

PublisherInit ==
  /\ rabbitUp \in BOOLEAN
  /\ rabbitOutages = 0
  /\ standing = [a \in Promises |-> "free"]
  /\ brokerAttempt = None
  /\ connectedBroker = None
  /\ waits = [p \in Publishers |-> None]
  /\ owns = [p \in Publishers |-> FALSE]
  /\ outcome = [p \in Publishers |-> "none"]
  /\ server = "open"

Running == server \in {"open", "draining"}

(* Slots that a new attempt may take; which one it takes makes no          *)
(* difference.                                                             *)
Unused == {a \in Promises : standing[a] \in {"free", "failed"} /\ a # brokerAttempt}

Live == {a \in Promises : standing[a] \in {"connected", "recovering"}}

(* broker.publish throws when the broker has no channel at the moment; the *)
(* catch drops the event.                                                  *)
PublishOn(a) == IF standing[a] = "connected" THEN "published" ELSE "dropped"

-----------------------------------------------------------------------------
(* RabbitMQ, and what the supervised connections make of it.               *)

RabbitGoes ==
  /\ rabbitUp /\ rabbitOutages < MaxRabbitOutages /\ Running
  /\ rabbitUp' = FALSE
  /\ rabbitOutages' = rabbitOutages + 1
  /\ UNCHANGED <<standing, refVars, pubVars, server>>

RabbitReturns ==
  /\ ~rabbitUp /\ Running
  /\ rabbitUp' = TRUE
  /\ UNCHANGED <<rabbitOutages, standing, refVars, pubVars, server>>

BrokerLost(a) ==
  /\ standing[a] = "connected" /\ ~rabbitUp /\ Running
  /\ standing' = [standing EXCEPT ![a] = "recovering"]
  /\ UNCHANGED <<rabbitVars, refVars, pubVars, server>>

BrokerResumed(a) ==
  /\ standing[a] = "recovering" /\ rabbitUp /\ Running
  /\ standing' = [standing EXCEPT ![a] = "connected"]
  /\ UNCHANGED <<rabbitVars, refVars, pubVars, server>>

-----------------------------------------------------------------------------
(* A request publishes an event and awaits it.                             *)

(* `await brokerAttempt` finds null: connectBroker().                      *)
PublishConnects(p) ==
  /\ server = "open"
  /\ waits[p] = None
  /\ brokerAttempt = None
  /\ Unused # {}
  /\ LET a == CHOOSE b \in Unused : TRUE IN
       /\ standing' = [standing EXCEPT ![a] = "pending"]
       /\ brokerAttempt' = a
       /\ waits' = [waits EXCEPT ![p] = a]
  /\ owns' = [owns EXCEPT ![p] = TRUE]
  /\ outcome' = [outcome EXCEPT ![p] = "none"]
  /\ UNCHANGED <<rabbitVars, connectedBroker, server>>

(* ... or an attempt that somebody else made and that is still pending.    *)
PublishJoins(p) ==
  /\ server = "open"
  /\ waits[p] = None
  /\ brokerAttempt # None
  /\ standing[brokerAttempt] = "pending"
  /\ waits' = [waits EXCEPT ![p] = brokerAttempt]
  /\ outcome' = [outcome EXCEPT ![p] = "none"]
  /\ UNCHANGED <<rabbitVars, standing, refVars, owns, server>>

(* ... or a broker.                                                        *)
PublishAtOnce(p) ==
  /\ server = "open"
  /\ waits[p] = None
  /\ brokerAttempt # None
  /\ standing[brokerAttempt] # "pending"
  /\ outcome' = [outcome EXCEPT ![p] = PublishOn(brokerAttempt)]
  /\ UNCHANGED <<rabbitVars, standing, refVars, waits, owns, server>>

-----------------------------------------------------------------------------
(* createBroker() settles.                                                 *)

Waiters(a) == {p \in Publishers : waits[p] = a}

AttemptSucceedsForgotten(a) ==
  /\ standing[a] = "pending" /\ rabbitUp /\ Running
  /\ standing' = [standing EXCEPT ![a] = "connected"]
  /\ connectedBroker' = a
  /\ waits' = [p \in Publishers |-> IF waits[p] = a /\ owns[p] THEN None ELSE waits[p]]
  /\ owns' = [p \in Publishers |-> owns[p] /\ waits[p] # a]
  /\ outcome' = [p \in Publishers |-> IF waits[p] = a /\ owns[p] THEN "published" ELSE outcome[p]]
  /\ UNCHANGED <<rabbitVars, brokerAttempt, server>>

(* The broker is kept, and whoever awaited it publishes.                   *)
AttemptSucceeds(a) ==
  /\ standing[a] = "pending" /\ rabbitUp /\ Running
  /\ standing' = [standing EXCEPT ![a] = "connected"]
  /\ connectedBroker' = a
  /\ waits' = [p \in Publishers |-> IF waits[p] = a THEN None ELSE waits[p]]
  /\ owns' = [p \in Publishers |-> owns[p] /\ waits[p] # a]
  /\ outcome' = [p \in Publishers |-> IF waits[p] = a THEN "published" ELSE outcome[p]]
  /\ UNCHANGED <<rabbitVars, brokerAttempt, server>>

(* What brokerAttempt is after a failed, when `fresh` are the attempts     *)
(* that its waiters made: the catch clears it, whatever it refers to by    *)
(* then, and the last connectBroker() call stays.                          *)
KeepsReference(a, fresh) == {brokerAttempt}
AfterFailure(a, fresh) == IF fresh = {} THEN {None} ELSE fresh

(* Those who found the failed attempt in brokerAttempt get null from it    *)
(* and call connectBroker() themselves, each for itself.                   *)
JoinersGiveUp(a) == {}
Joiners(a) == {p \in Waiters(a) : ~owns[p]}

AttemptFails(a) ==
  /\ standing[a] = "pending" /\ ~rabbitUp /\ Running
  /\ Cardinality(Joiners(a)) <= Cardinality(Unused)
  /\ LET fresh == CHOOSE f \in Injection(Joiners(a), Unused) : TRUE
         made  == {fresh[p] : p \in Joiners(a)} IN
       /\ standing' = [b \in Promises |-> IF b = a THEN "failed"
                                        ELSE IF b \in made THEN "pending" ELSE standing[b]]
       /\ brokerAttempt' \in AfterFailure(a, made)
       /\ waits' = [p \in Publishers |->
                      IF p \in Joiners(a) THEN fresh[p]
                      ELSE IF p \in Waiters(a) THEN None ELSE waits[p]]
       /\ owns' = [p \in Publishers |->
                     p \in Joiners(a) \/ (owns[p] /\ p \notin Waiters(a))]
  /\ outcome' = [p \in Publishers |->
                   IF p \in Waiters(a) \ Joiners(a) THEN "dropped" ELSE outcome[p]]
  /\ UNCHANGED <<rabbitVars, connectedBroker, server>>

-----------------------------------------------------------------------------
(* SIGTERM: no new requests; when those in progress are answered,          *)
(* closeBroker() closes the broker it knows, and the process exits.        *)
Drain ==
  /\ server = "open"
  /\ server' = "draining"
  /\ UNCHANGED <<rabbitVars, standing, refVars, pubVars>>

CloseBroker ==
  /\ server = "draining"
  /\ \A p \in Publishers : waits[p] = None
  /\ server' = "closed"
  /\ standing' = [a \in Promises |-> IF a = connectedBroker THEN "closed" ELSE standing[a]]
  /\ connectedBroker' = None
  /\ brokerAttempt' = IF connectedBroker = None THEN brokerAttempt ELSE None
  /\ UNCHANGED <<rabbitVars, pubVars>>

(* The ten seconds are over.                                               *)
HardExit ==
  /\ server = "draining"
  /\ server' = "exited"
  /\ UNCHANGED <<rabbitVars, standing, refVars, pubVars>>

-----------------------------------------------------------------------------
AttemptSettles(a) == AttemptSucceeds(a) \/ AttemptFails(a)

PublisherNext ==
  \/ RabbitGoes \/ RabbitReturns
  \/ \E a \in Promises : BrokerLost(a) \/ BrokerResumed(a) \/ AttemptSettles(a)
  \/ \E p \in Publishers : PublishConnects(p) \/ PublishJoins(p) \/ PublishAtOnce(p)
  \/ Drain \/ CloseBroker \/ HardExit

PublisherSpec == PublisherInit /\ [][PublisherNext]_publisherVars

(* createBroker() settles at last.                                         *)
PublisherFairness == \A a \in Promises : WF_publisherVars(AttemptSettles(a))

PublisherFairSpec == PublisherSpec /\ PublisherFairness

-----------------------------------------------------------------------------
(* A failure is never cached, however many attempts fail in between, and   *)
(* nobody waits in vain or for an attempt that is nobody's: whatever is    *)
(* awaited is pending, and each pending attempt has exactly one publish    *)
(* that made it and waits for it (itineraryCreatedPublisher.ts:36-38, 57). *)
PendingIsOwned ==
  /\ brokerAttempt # None => standing[brokerAttempt] \in {"pending", "connected", "recovering"}
  /\ \A p \in Publishers : waits[p] # None => standing[waits[p]] = "pending"
  /\ \A a \in Promises : standing[a] = "pending" =>
       Cardinality({p \in Waiters(a) : owns[p]}) = 1

(* An event is dropped only for a broker that has no channel or for the    *)
(* failure of the publish's own attempt: the failure of somebody else's    *)
(* attempt costs it nothing (itineraryCreatedPublisher.ts:17-19, 57-58).   *)
DropsAreOwnFailures ==
  [][\A p \in Publishers :
       waits[p] # None /\ waits'[p] = None /\ outcome'[p] = "dropped" => owns[p]]_publisherVars

(* A save's response waits for the publish, and a shutdown for the         *)
(* response: neither is held for ever (itineraryRoutes.ts:109).            *)
EveryPublishSettles ==
  \A p \in Publishers : waits[p] # None ~> waits[p] = None \/ server = "exited"

-----------------------------------------------------------------------------
(* itineraryCreatedPublisher.ts:26 speaks of "The live connection, kept    *)
(* only for clean shutdown": what stays supervised is what closeBroker()   *)
(* will find.  Three concurrent publishes can break it.                    *)
OneLiveConnection == Cardinality(Live) <= 1
=============================================================================
