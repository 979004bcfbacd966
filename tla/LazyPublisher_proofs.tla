------------------------ MODULE LazyPublisher_proofs ------------------------
(***************************************************************************)
(* Proofs about LazyPublisher, for any finite number of publishers and of  *)
(* attempts, and any number of rabbitOutages.                                    *)
(***************************************************************************)
EXTENDS LazyPublisher, FiniteSetTheorems, TLAPS

USE PublisherAssumption

(* The attempts that a failure needs can be handed out: a set that is no   *)
(* larger than another injects into it.                                    *)
LEMMA InjectionExists ==
  ASSUME NEW S, NEW T, IsFiniteSet(S), IsFiniteSet(T), Cardinality(S) <= Cardinality(T)
  PROVE  Injection(S, T) # {}
<1> DEFINE m == Cardinality(S)
           n == Cardinality(T)
<1>1. m \in Nat /\ n \in Nat /\ m <= n
  BY FS_CardinalityType
<1>2. PICK f : f \in Bijection(1..m, S)
  BY FS_CardinalityType DEF ExistsBijection
<1>3. PICK g : g \in Bijection(1..n, T)
  BY FS_CardinalityType DEF ExistsBijection
<1>4. f \in [1..m -> S] /\ \A s \in S : \E i \in 1..m : f[i] = s
  BY <1>2 DEF Bijection, Surjection
<1>5. g \in [1..n -> T] /\ \A i, j \in 1..n : g[i] = g[j] => i = j
  BY <1>3 DEF Bijection, Injection, IsInjective
<1> DEFINE h == [s \in S |-> g[CHOOSE i \in 1..m : f[i] = s]]
<1>6. \A s \in S : (CHOOSE i \in 1..m : f[i] = s) \in 1..m /\ f[CHOOSE i \in 1..m : f[i] = s] = s
  BY <1>4
<1>7. 1..m \subseteq 1..n
  BY <1>1
<1>8. h \in [S -> T]
  BY <1>5, <1>6, <1>7
<1>9. \A s, t \in S : h[s] = h[t] => s = t
  <2>1. SUFFICES ASSUME NEW s \in S, NEW t \in S, h[s] = h[t] PROVE s = t
    OBVIOUS
  <2>2. (CHOOSE i \in 1..m : f[i] = s) = (CHOOSE i \in 1..m : f[i] = t)
    BY <1>5, <1>6, <1>7, <2>1
  <2> QED
    BY <1>6, <2>2
<1> QED
  BY <1>8, <1>9 DEF Injection, IsInjective

-----------------------------------------------------------------------------
(* The inductive invariant.  PendingIsOwned counts the owners of a pending *)
(* attempt; what is inductive says where an owner is, and that there are   *)
(* not two.                                                                *)

ReferenceOK ==
  brokerAttempt # None => standing[brokerAttempt] \in {"pending", "connected", "recovering"}

AwaitedIsPending ==
  \A p \in Publishers : waits[p] # None => standing[waits[p]] = "pending"

OwnersWait ==
  \A p \in Publishers : owns[p] => waits[p] # None

PendingHasOwner ==
  \A a \in Promises : standing[a] = "pending" => \E p \in Publishers : waits[p] = a /\ owns[p]

OneOwner ==
  \A p, q \in Publishers : owns[p] /\ owns[q] /\ waits[p] = waits[q] => p = q

Inv ==
  /\ PublisherTypeOK
  /\ ReferenceOK
  /\ AwaitedIsPending
  /\ OwnersWait
  /\ PendingHasOwner
  /\ OneOwner

(* What a failure hands out: every joiner gets an unused attempt of its    *)
(* own, and the one that owned the failed attempt gets nothing.            *)
FailureHandsOut(a, fresh) ==
  /\ fresh \in [Joiners(a) -> Unused]
  /\ \A p, q \in Joiners(a) : fresh[p] = fresh[q] => p = q
  /\ standing' = [b \in Promises |->
                  IF b = a THEN "failed"
                  ELSE IF \E p \in Joiners(a) : b = fresh[p] THEN "pending" ELSE standing[b]]
  /\ brokerAttempt' = None \/ \E p \in Joiners(a) : brokerAttempt' = fresh[p]
  /\ waits' = [p \in Publishers |->
                 IF p \in Joiners(a) THEN fresh[p]
                 ELSE IF p \in Waiters(a) THEN None ELSE waits[p]]
  /\ owns' = [p \in Publishers |->
                p \in Joiners(a) \/ (owns[p] /\ p \notin Waiters(a))]
  /\ outcome' = [p \in Publishers |->
                   IF p \in Waiters(a) \ Joiners(a) THEN "dropped" ELSE outcome[p]]
  /\ UNCHANGED <<rabbitVars, connectedBroker, server>>

(* What a failed attempt leaves behind.                                    *)
LEMMA FailureStep ==
  ASSUME NEW a \in Promises, AttemptFails(a)
  PROVE  \E fresh : FailureHandsOut(a, fresh)
<1> DEFINE fresh == CHOOSE f \in Injection(Joiners(a), Unused) : TRUE
           made  == {fresh[p] : p \in Joiners(a)}
<1>1. IsFiniteSet(Joiners(a)) /\ IsFiniteSet(Unused)
  <2>1. Joiners(a) \subseteq Publishers /\ Unused \subseteq Promises
    BY DEF Joiners, Waiters, Unused
  <2> QED
    BY <2>1, FS_Subset
<1>2. Injection(Joiners(a), Unused) # {}
  BY <1>1, InjectionExists DEF AttemptFails
<1>3. fresh \in Injection(Joiners(a), Unused)
  BY <1>2
<1>4. /\ standing' = [b \in Promises |-> IF b = a THEN "failed"
                                       ELSE IF b \in made THEN "pending" ELSE standing[b]]
      /\ brokerAttempt' \in AfterFailure(a, made)
      /\ waits' = [p \in Publishers |->
                     IF p \in Joiners(a) THEN fresh[p]
                     ELSE IF p \in Waiters(a) THEN None ELSE waits[p]]
      /\ owns' = [p \in Publishers |->
                    p \in Joiners(a) \/ (owns[p] /\ p \notin Waiters(a))]
  BY DEF AttemptFails
<1>5. /\ fresh \in [Joiners(a) -> Unused]
      /\ \A p, q \in Joiners(a) : fresh[p] = fresh[q] => p = q
  BY <1>3 DEF Injection, IsInjective
<1> HIDE DEF fresh
<1>6. standing' = [b \in Promises |->
                   IF b = a THEN "failed"
                   ELSE IF \E p \in Joiners(a) : b = fresh[p] THEN "pending" ELSE standing[b]]
  BY <1>4
<1>7. brokerAttempt' = None \/ \E p \in Joiners(a) : brokerAttempt' = fresh[p]
  BY <1>4 DEF AfterFailure
<1>8. FailureHandsOut(a, fresh)
  BY <1>4, <1>5, <1>6, <1>7 DEF FailureHandsOut, AttemptFails
<1> QED
  BY <1>8

-----------------------------------------------------------------------------
(* Typing, one variable or two at a time.                                  *)
LEMMA TypeStep ==
  ASSUME PublisherTypeOK, [PublisherNext]_publisherVars
  PROVE  PublisherTypeOK'
<1> USE DEF PublisherTypeOK, refVars, pubVars, rabbitVars
<1>1. ASSUME RabbitGoes PROVE PublisherTypeOK'
  <2>1. rabbitUp' \in BOOLEAN
    BY <1>1, Zenon DEF RabbitGoes
  <2>2. rabbitOutages' \in 0..MaxRabbitOutages
    BY <1>1 DEF RabbitGoes
  <2> QED
    BY <1>1, <2>1, <2>2 DEF RabbitGoes
<1>2. ASSUME RabbitReturns PROVE PublisherTypeOK'
  <2>1. rabbitUp' \in BOOLEAN
    BY <1>2, Zenon DEF RabbitReturns
  <2> QED
    BY <1>2, <2>1 DEF RabbitReturns
<1>3. ASSUME NEW a \in Promises, BrokerLost(a) \/ BrokerResumed(a) PROVE PublisherTypeOK'
  BY <1>3 DEF BrokerLost, BrokerResumed
<1>4. ASSUME NEW a \in Promises, AttemptSucceeds(a) PROVE PublisherTypeOK'
  BY <1>4 DEF AttemptSucceeds
<1>5. ASSUME NEW a \in Promises, AttemptFails(a) PROVE PublisherTypeOK'
  <2>1. PICK fresh : FailureHandsOut(a, fresh)
    BY <1>5, FailureStep
  <2> QED
    BY <2>1 DEF FailureHandsOut, Unused, Joiners, Waiters
<1>6. ASSUME NEW p \in Publishers, PublishConnects(p) PROVE PublisherTypeOK'
  BY <1>6 DEF PublishConnects, Unused
<1>7. ASSUME NEW p \in Publishers, PublishJoins(p) PROVE PublisherTypeOK'
  BY <1>7 DEF PublishJoins
<1>8. ASSUME NEW p \in Publishers, PublishAtOnce(p) PROVE PublisherTypeOK'
  BY <1>8 DEF PublishAtOnce, PublishOn
<1>9. ASSUME CloseBroker PROVE PublisherTypeOK'
  BY <1>9 DEF CloseBroker
<1>10. ASSUME Drain \/ HardExit \/ UNCHANGED publisherVars PROVE PublisherTypeOK'
  BY <1>10 DEF Drain, HardExit, publisherVars
<1> QED
  BY <1>1, <1>2, <1>3, <1>4, <1>5, <1>6, <1>7, <1>8, <1>9, <1>10 DEF PublisherNext, AttemptSettles

-----------------------------------------------------------------------------
(* No failure is cached: what brokerAttempt refers to is pending or a      *)
(* broker.                                                                 *)
LEMMA ReferenceStep ==
  ASSUME PublisherTypeOK, ReferenceOK, [PublisherNext]_publisherVars
  PROVE  ReferenceOK'
<1> USE DEF PublisherTypeOK, ReferenceOK, refVars
<1>1. ASSUME NEW a \in Promises, BrokerLost(a) \/ BrokerResumed(a) PROVE ReferenceOK'
  BY <1>1 DEF BrokerLost, BrokerResumed
<1>2. ASSUME NEW a \in Promises, AttemptSucceeds(a) PROVE ReferenceOK'
  BY <1>2 DEF AttemptSucceeds
<1>3. ASSUME NEW a \in Promises, AttemptFails(a) PROVE ReferenceOK'
  <2>1. PICK fresh : FailureHandsOut(a, fresh)
    BY <1>3, FailureStep
  <2>2. \A p \in Joiners(a) : fresh[p] \in Promises /\ fresh[p] # a
    BY <1>3, <2>1 DEF FailureHandsOut, Unused, AttemptFails
  <2>3. ASSUME NEW p \in Joiners(a), brokerAttempt' = fresh[p] PROVE ReferenceOK'
    <3>1. standing'[fresh[p]] = "pending"
      BY <2>1, <2>2 DEF FailureHandsOut
    <3> QED
      BY <2>3, <3>1
  <2> QED
    BY <2>1, <2>3 DEF FailureHandsOut
<1>4. ASSUME NEW p \in Publishers, PublishConnects(p) PROVE ReferenceOK'
  BY <1>4 DEF PublishConnects, Unused
<1>5. ASSUME CloseBroker PROVE ReferenceOK'
  BY <1>5 DEF CloseBroker
<1>6. ASSUME UNCHANGED <<standing, refVars>> PROVE ReferenceOK'
  BY <1>6
<1> QED
  BY <1>1, <1>2, <1>3, <1>4, <1>5, <1>6
     DEF PublisherNext, AttemptSettles, RabbitGoes, RabbitReturns, PublishJoins, PublishAtOnce, Drain, HardExit, publisherVars

(* Whoever waits awaits a pending attempt, and an owner waits.             *)
LEMMA AwaitedStep ==
  ASSUME PublisherTypeOK, AwaitedIsPending, OwnersWait, [PublisherNext]_publisherVars
  PROVE  AwaitedIsPending' /\ OwnersWait'
<1> USE DEF PublisherTypeOK, AwaitedIsPending, OwnersWait, pubVars
<1>1. ASSUME NEW a \in Promises, BrokerLost(a) \/ BrokerResumed(a)
      PROVE  AwaitedIsPending' /\ OwnersWait'
  BY <1>1 DEF BrokerLost, BrokerResumed
<1>2. ASSUME NEW a \in Promises, AttemptSucceeds(a)
      PROVE  AwaitedIsPending' /\ OwnersWait'
  BY <1>2 DEF AttemptSucceeds
<1>3. ASSUME NEW a \in Promises, AttemptFails(a)
      PROVE  AwaitedIsPending' /\ OwnersWait'
  <2>1. PICK fresh : FailureHandsOut(a, fresh)
    BY <1>3, FailureStep
  <2>2. \A p \in Joiners(a) : fresh[p] \in Promises /\ fresh[p] # a
    BY <1>3, <2>1 DEF FailureHandsOut, Unused, AttemptFails
  <2>3. \A p \in Joiners(a) : standing'[fresh[p]] = "pending"
    BY <2>1, <2>2 DEF FailureHandsOut
  <2>4. \A b \in Promises \ {a} : standing[b] = "pending" => standing'[b] = "pending"
    BY <2>1 DEF FailureHandsOut
  <2>5. AwaitedIsPending'
    BY <2>1, <2>2, <2>3, <2>4 DEF FailureHandsOut, Waiters
  <2>6. OwnersWait'
    BY <2>1, <2>2 DEF FailureHandsOut, Waiters, Joiners
  <2> QED
    BY <2>5, <2>6
<1>4. ASSUME NEW p \in Publishers, PublishConnects(p)
      PROVE  AwaitedIsPending' /\ OwnersWait'
  <2> DEFINE a == CHOOSE b \in Unused : TRUE
  <2>1. a \in Promises /\ standing[a] # "pending"
    BY <1>4 DEF PublishConnects, Unused
  <2> HIDE DEF a
  <2>2. /\ standing' = [standing EXCEPT ![a] = "pending"]
        /\ waits' = [waits EXCEPT ![p] = a]
        /\ owns' = [owns EXCEPT ![p] = TRUE]
    BY <1>4 DEF PublishConnects, a
  <2> QED
    BY <2>1, <2>2
<1>5. ASSUME NEW p \in Publishers, PublishJoins(p)
      PROVE  AwaitedIsPending' /\ OwnersWait'
  BY <1>5 DEF PublishJoins
<1>6. ASSUME CloseBroker
      PROVE  AwaitedIsPending' /\ OwnersWait'
  BY <1>6 DEF CloseBroker
<1>7. ASSUME UNCHANGED <<standing, waits, owns>>
      PROVE  AwaitedIsPending' /\ OwnersWait'
  BY <1>7
<1> QED
  BY <1>1, <1>2, <1>3, <1>4, <1>5, <1>6, <1>7
     DEF PublisherNext, AttemptSettles, RabbitGoes, RabbitReturns, PublishAtOnce, Drain, HardExit, publisherVars

(* Each pending attempt keeps one owner: a failure gives each joiner an    *)
(* attempt that nobody has, since a free or failed one is not awaited.     *)
LEMMA OwnerStep ==
  ASSUME Inv, [PublisherNext]_publisherVars
  PROVE  PendingHasOwner' /\ OneOwner'
<1> USE DEF Inv, PublisherTypeOK, AwaitedIsPending, OwnersWait, PendingHasOwner, OneOwner, pubVars
<1>1. ASSUME NEW a \in Promises, BrokerLost(a) \/ BrokerResumed(a)
      PROVE  PendingHasOwner' /\ OneOwner'
  BY <1>1 DEF BrokerLost, BrokerResumed
<1>2. ASSUME NEW a \in Promises, AttemptSucceeds(a)
      PROVE  PendingHasOwner' /\ OneOwner'
  <2>1. /\ standing' = [standing EXCEPT ![a] = "connected"]
        /\ waits' = [p \in Publishers |-> IF waits[p] = a THEN None ELSE waits[p]]
        /\ owns' = [p \in Publishers |-> owns[p] /\ waits[p] # a]
    BY <1>2 DEF AttemptSucceeds
  <2>2. \A p \in Publishers : owns'[p] => owns[p] /\ waits[p] # a /\ waits'[p] = waits[p]
    BY <2>1
  <2>3. OneOwner'
    BY <2>2
  <2>4. ASSUME NEW b \in Promises, standing'[b] = "pending"
        PROVE  \E p \in Publishers : waits'[p] = b /\ owns'[p]
    <3>1. b # a /\ standing[b] = "pending"
      BY <2>1, <2>4
    <3> QED
      BY <2>1, <3>1
  <2> QED
    BY <2>3, <2>4
<1>3. ASSUME NEW a \in Promises, AttemptFails(a)
      PROVE  PendingHasOwner' /\ OneOwner'
  <2>1. PICK fresh : FailureHandsOut(a, fresh)
    BY <1>3, FailureStep
  <2>2. \A p \in Joiners(a) : /\ p \in Publishers
                              /\ fresh[p] \in Promises /\ fresh[p] # a
                              /\ standing[fresh[p]] # "pending"
                              /\ waits'[p] = fresh[p] /\ owns'[p]
    <3>1. ASSUME NEW p \in Joiners(a)
          PROVE  /\ p \in Publishers
                 /\ fresh[p] \in Promises /\ fresh[p] # a
                 /\ standing[fresh[p]] # "pending"
      BY <1>3, <2>1, <3>1 DEF FailureHandsOut, Unused, AttemptFails, Joiners, Waiters
    <3>2. ASSUME NEW p \in Joiners(a)
          PROVE  waits'[p] = fresh[p] /\ owns'[p]
      BY <2>1, <3>1, <3>2 DEF FailureHandsOut
    <3> QED
      BY <3>1, <3>2
  <2>3. \A p \in Publishers \ Joiners(a) :
           owns'[p] => owns[p] /\ waits[p] # a /\ waits'[p] = waits[p] /\ standing[waits[p]] = "pending"
    BY <2>1 DEF FailureHandsOut, Waiters
  <2>4. \A p \in Joiners(a), q \in Publishers \ Joiners(a) :
           owns'[q] => waits'[p] # waits'[q]
    BY <2>2, <2>3
  <2>5. \A p, q \in Joiners(a) : waits'[p] = waits'[q] => p = q
    BY <2>1, <2>2 DEF FailureHandsOut
  <2>6. \A p, q \in Publishers \ Joiners(a) :
           owns'[p] /\ owns'[q] /\ waits'[p] = waits'[q] => p = q
    BY <2>3
  <2>7. OneOwner'
    BY <2>4, <2>5, <2>6
  <2>8. ASSUME NEW b \in Promises, standing'[b] = "pending"
        PROVE  \E p \in Publishers : waits'[p] = b /\ owns'[p]
    <3>1. CASE \E p \in Joiners(a) : b = fresh[p]
      BY <2>2, <3>1
    <3>2. CASE ~\E p \in Joiners(a) : b = fresh[p]
      <4>1. b # a /\ standing[b] = "pending"
        BY <2>1, <2>8, <3>2 DEF FailureHandsOut
      <4>2. PICK p \in Publishers : waits[p] = b /\ owns[p]
        BY <4>1
      <4>3. p \notin Joiners(a) /\ p \notin Waiters(a)
        BY <4>1, <4>2 DEF Joiners, Waiters
      <4> QED
        BY <2>1, <4>2, <4>3 DEF FailureHandsOut
    <3> QED
      BY <3>1, <3>2
  <2> QED
    BY <2>7, <2>8
<1>4. ASSUME NEW p \in Publishers, PublishConnects(p)
      PROVE  PendingHasOwner' /\ OneOwner'
  <2> DEFINE a == CHOOSE b \in Unused : TRUE
  <2>1. a \in Promises /\ standing[a] # "pending"
    BY <1>4 DEF PublishConnects, Unused
  <2> HIDE DEF a
  <2>2. /\ waits[p] = None
        /\ standing' = [standing EXCEPT ![a] = "pending"]
        /\ waits' = [waits EXCEPT ![p] = a]
        /\ owns' = [owns EXCEPT ![p] = TRUE]
    BY <1>4 DEF PublishConnects, a
  <2>3. \A q \in Publishers \ {p} : owns[q] => waits[q] # a
    BY <2>1
  <2>4. OneOwner'
    BY <2>2, <2>3
  <2>5. PendingHasOwner'
    BY <2>1, <2>2
  <2> QED
    BY <2>4, <2>5
<1>5. ASSUME NEW p \in Publishers, PublishJoins(p)
      PROVE  PendingHasOwner' /\ OneOwner'
  BY <1>5 DEF PublishJoins
<1>6. ASSUME CloseBroker
      PROVE  PendingHasOwner' /\ OneOwner'
  BY <1>6 DEF CloseBroker
<1>7. ASSUME UNCHANGED <<standing, waits, owns>>
      PROVE  PendingHasOwner' /\ OneOwner'
  BY <1>7
<1> QED
  BY <1>1, <1>2, <1>3, <1>4, <1>5, <1>6, <1>7
     DEF PublisherNext, AttemptSettles, RabbitGoes, RabbitReturns, PublishAtOnce, Drain, HardExit, publisherVars

(* Every step preserves the invariant.                                     *)
LEMMA InvStep ==
  ASSUME Inv, [PublisherNext]_publisherVars
  PROVE  Inv'
BY TypeStep, ReferenceStep, AwaitedStep, OwnerStep DEF Inv

(* It holds at the start.                                                  *)
LEMMA InitInv == PublisherInit => Inv
BY DEF PublisherInit, Inv, PublisherTypeOK, ReferenceOK, AwaitedIsPending, OwnersWait, PendingHasOwner, OneOwner

-----------------------------------------------------------------------------
(* Every reachable state is well-formed.                                   *)
THEOREM TypeSafety == PublisherSpec => []PublisherTypeOK
<1>1. Inv => PublisherTypeOK
  BY DEF Inv
<1> QED
  BY <1>1, InitInv, InvStep, PTL DEF PublisherSpec

(* The invariant gives PendingIsOwned: the one owner is one element.       *)
LEMMA InvImpliesOwned ==
  ASSUME Inv
  PROVE  PendingIsOwned
<1> USE DEF Inv, PublisherTypeOK
<1>1. ASSUME NEW a \in Promises, standing[a] = "pending"
      PROVE  Cardinality({p \in Waiters(a) : owns[p]}) = 1
  <2>1. PICK p \in Publishers : waits[p] = a /\ owns[p]
    BY <1>1 DEF PendingHasOwner
  <2>2. {q \in Waiters(a) : owns[q]} = {p}
    BY <2>1 DEF Waiters, OneOwner
  <2> QED
    BY <2>2, FS_Singleton
<1> QED
  BY <1>1 DEF PendingIsOwned, ReferenceOK, AwaitedIsPending

(* A failure is never cached, nobody waits in vain, and each pending       *)
(* attempt has exactly one publish that made it and waits for it, however  *)
(* many publishes join and attempts fail (itineraryCreatedPublisher.ts:    *)
(* 29-44, 57).                                                             *)
THEOREM PendingStaysOwned == PublisherSpec => []PendingIsOwned
BY InitInv, InvStep, InvImpliesOwned, PTL DEF PublisherSpec

-----------------------------------------------------------------------------
(* A waiting publish whose event is dropped owned the attempt that failed. *)
LEMMA DropStep ==
  ASSUME Inv, [PublisherNext]_publisherVars, NEW p \in Publishers,
         waits[p] # None, waits'[p] = None, outcome'[p] = "dropped"
  PROVE  owns[p]
<1> USE DEF Inv, PublisherTypeOK, pubVars
<1>1. ASSUME NEW a \in Promises, AttemptSucceeds(a) PROVE owns[p]
  <2>1. /\ waits' = [q \in Publishers |-> IF waits[q] = a THEN None ELSE waits[q]]
        /\ outcome' = [q \in Publishers |-> IF waits[q] = a THEN "published" ELSE outcome[q]]
    BY <1>1 DEF AttemptSucceeds
  <2> QED
    BY <2>1
<1>2. ASSUME NEW a \in Promises, AttemptFails(a) PROVE owns[p]
  <2>1. PICK fresh : FailureHandsOut(a, fresh)
    BY <1>2, FailureStep
  <2>2. \A q \in Joiners(a) : fresh[q] # None
    BY <2>1 DEF FailureHandsOut, Unused
  <2>3. p \notin Joiners(a)
    BY <2>1, <2>2 DEF FailureHandsOut
  <2>4. p \in Waiters(a)
    BY <2>1, <2>3 DEF FailureHandsOut
  <2> QED
    BY <2>3, <2>4 DEF Joiners
<1>3. ASSUME NEW q \in Publishers, PublishConnects(q) \/ PublishJoins(q) PROVE owns[p]
  BY <1>3 DEF PublishConnects, PublishJoins, Unused
<1> QED
  BY <1>1, <1>2, <1>3
     DEF PublisherNext, AttemptSettles, BrokerLost, BrokerResumed, PublishAtOnce, CloseBroker,
       RabbitGoes, RabbitReturns, Drain, HardExit, publisherVars

(* The failure of somebody else's attempt costs a publish nothing: only    *)
(* the one that made the attempt loses its event with it                   *)
(* (itineraryCreatedPublisher.ts:57-58).                                   *)
THEOREM DropsStayOwn == PublisherSpec => DropsAreOwnFailures
<1>1. Inv /\ [PublisherNext]_publisherVars =>
        [\A p \in Publishers :
           waits[p] # None /\ waits'[p] = None /\ outcome'[p] = "dropped" => owns[p]]_publisherVars
  BY DropStep
<1> QED
  BY <1>1, InitInv, InvStep, PTL DEF PublisherSpec, DropsAreOwnFailures
=============================================================================
