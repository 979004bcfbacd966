------------------------ MODULE EmailDelivery_proofs ------------------------
(***************************************************************************)
(* Proofs about EmailDelivery, for any notifications, recipients and trip  *)
(* dates, and any number of connection losses, crashes and SMTP failures.  *)
(***************************************************************************)
EXTENDS EmailDelivery, FiniteSetTheorems, TLAPS

-----------------------------------------------------------------------------
(***************************************************************************)
(* The inductive invariant.  What it says of one message is said of its    *)
(* row alone: its state s, the count c of its deliveries, the steps f of   *)
(* their runs, the mails per recipient and the losses so far.              *)
(***************************************************************************)

DeliveryTyped ==
  /\ Link!LinkTypeOK
  /\ msg \in [Messages -> {"unpublished", "waiting", "ready", "held", "gone"}]
  /\ count \in [Messages -> Nat]
  /\ run \in [Messages -> [Deliveries -> Nat]]
  /\ \A m \in Messages : run[m] \in [Deliveries -> 0..Finishing(m)]
  /\ waiting \in Seq([id : Reminders, due : Nat])
  /\ DOMAIN sent = Messages
  /\ \A m \in Messages : sent[m] \in [DOMAIN Recipients(m) -> Nat]
  /\ failed \in [Messages -> Nat]
  /\ now \in 0..MaxTime /\ losses \in 0..MaxLosses /\ smtpFaults \in 0..MaxSmtpFaults

(* Each delivery but the first was made necessary by a loss, or is the one *)
(* retry; a run belongs to a delivery that was made; and that of the last  *)
(* one is over when the message is gone.                                   *)
Delivered(s, c, f, l) ==
  /\ s \in {"unpublished", "waiting"} => c = 0
  /\ s = "ready" => c <= l + 1
  /\ s \in {"held", "gone"} => c \in 1..(l + 2)
  /\ \A n \in Deliveries : f[n] # 0 => n <= c
  /\ s = "gone" => f[c] = 0

(* Runs beyond recipient i, and runs that have yet to mail it.             *)
Past(f, i)    == {n \in Deliveries : f[n] > i}
Pending(f, i) == {n \in Deliveries : f[n] \in 1..i}

(* A recipient was mailed by every run that went beyond it or parked a     *)
(* reminder, and by no more runs than there were deliveries.               *)
Mailed(f, mails, c, parked) ==
  \A i \in DOMAIN mails :
    /\ mails[i] >= Cardinality(Past(f, i) \cup parked)
    /\ mails[i] + Cardinality(Pending(f, i)) <= c

(* The runs of m that have parked a reminder.                              *)
Parked(m) == {n \in Deliveries : ParksReminder(m) /\ Started(<<m, n>>)}

Row(m) ==
  /\ Delivered(msg[m], count[m], run[m], losses)
  /\ Mailed(run[m], sent[m], count[m], Parked(m))
  /\ \A n \in Parked(m) : run[m][n] = 0 /\ n <= count[m]

(* What becomes of a message at last.                                      *)
Settled(m) == msg[m] = "gone" => Complete(m) \/ (failed[m] > 0 /\ count[m] > 1)

RowInv == \A m \in Messages : Row(m) /\ Settled(m)

(* The holding queue has each reminder once, and none is due too early.    *)
QueueInv ==
  /\ \A i \in DOMAIN waiting :
       /\ msg[waiting[i].id] = "waiting"
       /\ waiting[i].due + Lead >= TripStart[EventOf(waiting[i].id)]
  /\ \A i, j \in DOMAIN waiting : waiting[i].id = waiting[j].id => i = j
  /\ \A r \in Reminders :
       msg[r] \in {"ready", "held", "gone"} => now + Lead >= TripStart[EventOf(r)]

EmailInv == DeliveryTyped /\ RowInv /\ QueueInv

-----------------------------------------------------------------------------
(***************************************************************************)
(* Messages, and counting runs.                                            *)
(***************************************************************************)

(* Whom a message is mailed to, and the reminders of a created itinerary.  *)
LEMMA MessageFacts ==
  /\ \A m \in Messages : EventOf(m) \in Events
  /\ \A m \in Messages : /\ Len(Recipients(m)) \in Nat
                         /\ DOMAIN Recipients(m) = 1..Len(Recipients(m))
  /\ \A m : ParksReminder(m) => Recipients(m) # <<>>
  /\ \A m \in Messages, n \in Deliveries : ParksReminder(m) =>
       /\ <<m, n>> \in Reminders /\ <<m, n>> \in Messages /\ EventOf(<<m, n>>) = m
  /\ \A r \in Reminders : r \in Messages /\ ~ParksReminder(r) /\ r \notin Events
<1>1. \A r \in Reminders : r \in Messages /\ ~ParksReminder(r) /\ r \notin Events /\ r[1] \in Events
  BY NamesAssumption DEF Reminders, Messages, ParksReminder
<1>2. \A m \in Messages : EventOf(m) \in Events
  BY <1>1 DEF EventOf, Messages
<1>3. ASSUME NEW m \in Messages
      PROVE  Len(Recipients(m)) \in Nat /\ DOMAIN Recipients(m) = 1..Len(Recipients(m))
  <2>1. CASE Kind[EventOf(m)] = "created" /\ To[EventOf(m)] = <<>>
    BY <2>1 DEF Recipients
  <2>2. CASE ~(Kind[EventOf(m)] = "created" /\ To[EventOf(m)] = <<>>)
    BY <1>2, <2>2, DeliveryAssumption DEF Recipients
  <2> QED
    BY <2>1, <2>2
<1>4. \A m : ParksReminder(m) => Recipients(m) # <<>>
  BY DEF ParksReminder, EventOf, Recipients
<1>5. ASSUME NEW m \in Messages, NEW n \in Deliveries, ParksReminder(m)
      PROVE  <<m, n>> \in Reminders /\ <<m, n>> \in Messages /\ EventOf(<<m, n>>) = m
  <2>1. m \in {e \in Events : Kind[e] = "created"}
    BY <1>5 DEF ParksReminder, EventOf
  <2>2. <<m, n>> \in Reminders
    BY <2>1 DEF Reminders
  <2> QED
    BY <1>1, <2>2 DEF EventOf
<1> QED
  BY <1>1, <1>2, <1>3, <1>4, <1>5

(* The runs that are counted are finitely many.                            *)
LEMMA RunsFinite ==
  ASSUME NEW f, NEW i, NEW R \in SUBSET Deliveries
  PROVE  /\ IsFiniteSet(Past(f, i) \cup R) /\ IsFiniteSet(Pending(f, i))
         /\ Cardinality(Past(f, i) \cup R) \in Nat /\ Cardinality(Pending(f, i)) \in Nat
<1>1. IsFiniteSet(Deliveries)
  BY FS_Interval, DeliveryAssumption DEF Deliveries
<1>2. Past(f, i) \cup R \subseteq Deliveries /\ Pending(f, i) \subseteq Deliveries
  BY DEF Past, Pending
<1>3. IsFiniteSet(Past(f, i) \cup R) /\ IsFiniteSet(Pending(f, i))
  BY <1>1, <1>2, FS_Subset
<1> QED
  BY <1>3, FS_CardinalityType

(* Fewer runs beyond a recipient and fewer ahead of it.                    *)
LEMMA FewerRuns ==
  ASSUME NEW f, NEW g, NEW mails, NEW c \in Nat, NEW d \in Nat,
         NEW R \in SUBSET Deliveries, NEW T \in SUBSET Deliveries,
         c <= d, Mailed(f, mails, c, R),
         \A i \in DOMAIN mails : mails[i] \in Nat,
         \A i \in DOMAIN mails :
           Past(g, i) \cup T \subseteq Past(f, i) \cup R /\ Pending(g, i) \subseteq Pending(f, i)
  PROVE  Mailed(g, mails, d, T)
<1>1. ASSUME NEW i \in DOMAIN mails
      PROVE  /\ mails[i] >= Cardinality(Past(g, i) \cup T)
             /\ mails[i] + Cardinality(Pending(g, i)) <= d
  <2>1. /\ Cardinality(Past(g, i) \cup T) <= Cardinality(Past(f, i) \cup R)
        /\ Cardinality(Pending(g, i)) <= Cardinality(Pending(f, i))
    BY RunsFinite, FS_Subset
  <2>2. /\ mails[i] >= Cardinality(Past(f, i) \cup R)
        /\ mails[i] + Cardinality(Pending(f, i)) <= c
    BY DEF Mailed
  <2>3. /\ Cardinality(Past(f, i) \cup R) \in Nat /\ Cardinality(Pending(f, i)) \in Nat
        /\ Cardinality(Past(g, i) \cup T) \in Nat /\ Cardinality(Pending(g, i)) \in Nat
    BY RunsFinite
  <2> QED
    BY <2>1, <2>2, <2>3
<1> QED
  BY <1>1 DEF Mailed

(* A run ends without a mail, parking its reminder when it is beyond the   *)
(* last recipient.                                                         *)
LEMMA RunEnds ==
  ASSUME NEW f \in [Deliveries -> Nat], NEW n \in Deliveries, NEW mails, NEW c \in Nat,
         NEW R \in SUBSET Deliveries, Mailed(f, mails, c, R),
         DOMAIN mails \subseteq Nat, \A i \in DOMAIN mails : mails[i] \in Nat
  PROVE  /\ Mailed([f EXCEPT ![n] = 0], mails, c, R)
         /\ (\A i \in DOMAIN mails : f[n] > i) =>
              Mailed([f EXCEPT ![n] = 0], mails, c, R \cup {n})
<1> DEFINE g == [f EXCEPT ![n] = 0]
<1>1. \A i \in DOMAIN mails : Past(g, i) \subseteq Past(f, i) /\ Pending(g, i) \subseteq Pending(f, i)
  BY DEF Past, Pending
<1> HIDE DEF g
<1>2. Mailed(g, mails, c, R)
  <2>1. \A i \in DOMAIN mails :
          Past(g, i) \cup R \subseteq Past(f, i) \cup R /\ Pending(g, i) \subseteq Pending(f, i)
    BY <1>1
  <2> QED
    BY <2>1, FewerRuns
<1>3. ASSUME \A i \in DOMAIN mails : f[n] > i
      PROVE  Mailed(g, mails, c, R \cup {n})
  <2>1. \A i \in DOMAIN mails : n \in Past(f, i)
    BY <1>3 DEF Past
  <2> DEFINE T == R \cup {n}
  <2>2. T \in SUBSET Deliveries
    OBVIOUS
  <2>3. \A i \in DOMAIN mails :
          Past(g, i) \cup T \subseteq Past(f, i) \cup R /\ Pending(g, i) \subseteq Pending(f, i)
    BY <1>1, <2>1
  <2> HIDE DEF T
  <2>4. Mailed(g, mails, c, T)
    BY <2>2, <2>3, FewerRuns
  <2> QED
    BY <2>4 DEF T
<1> QED
  BY <1>2, <1>3 DEF g

(* A run that begins is ahead of every recipient.                          *)
LEMMA RunBegins ==
  ASSUME NEW f \in [Deliveries -> Nat], NEW n \in Deliveries, f[n] = 0, NEW mails, NEW c \in Nat,
         NEW R \in SUBSET Deliveries, Mailed(f, mails, c, R),
         DOMAIN mails \subseteq Nat \ {0}, \A i \in DOMAIN mails : mails[i] \in Nat
  PROVE  Mailed([f EXCEPT ![n] = 1], mails, c + 1, R)
<1> DEFINE g == [f EXCEPT ![n] = 1]
<1>1. ASSUME NEW i \in DOMAIN mails
      PROVE  mails[i] >= Cardinality(Past(g, i) \cup R) /\ mails[i] + Cardinality(Pending(g, i)) <= c + 1
  <2>1. Past(g, i) \cup R = Past(f, i) \cup R
    BY DEF Past
  <2>2. Pending(g, i) = Pending(f, i) \cup {n} /\ n \notin Pending(f, i)
    BY DEF Pending
  <2>3. Cardinality(Pending(g, i)) = Cardinality(Pending(f, i)) + 1
    BY <2>2, RunsFinite, FS_AddElement
  <2>4. Cardinality(Pending(f, i)) \in Nat
    BY RunsFinite
  <2>5. /\ mails[i] >= Cardinality(Past(f, i) \cup R)
        /\ mails[i] + Cardinality(Pending(f, i)) <= c
    BY DEF Mailed
  <2>6. mails[i] \in Nat
    OBVIOUS
  <2> HIDE DEF g
  <2> QED
    BY <2>1, <2>3, <2>4, <2>5, <2>6
<1> QED
  BY <1>1 DEF Mailed

(* A run mails its next recipient and goes on, or ends with an error.      *)
LEMMA RunMails ==
  ASSUME NEW f \in [Deliveries -> Nat], NEW n \in Deliveries, NEW mails, NEW c \in Nat,
         NEW R \in SUBSET Deliveries, Mailed(f, mails, c, R),
         f[n] \in DOMAIN mails, DOMAIN mails \subseteq Nat \ {0},
         mails \in [DOMAIN mails -> Nat], NEW next \in {0, f[n] + 1}
  PROVE  Mailed([f EXCEPT ![n] = next], [mails EXCEPT ![f[n]] = @ + 1], c, R)
<1> DEFINE g == [f EXCEPT ![n] = next]
           more == [mails EXCEPT ![f[n]] = @ + 1]
<1>1. ASSUME NEW i \in DOMAIN mails
      PROVE  more[i] >= Cardinality(Past(g, i) \cup R) /\ more[i] + Cardinality(Pending(g, i)) <= c
  <2>1. /\ Cardinality(Pending(f, i)) \in Nat /\ Cardinality(Past(f, i) \cup R) \in Nat
        /\ Cardinality(Pending(g, i)) \in Nat /\ Cardinality(Past(g, i) \cup R) \in Nat
        /\ IsFiniteSet(Pending(f, i)) /\ IsFiniteSet(Past(f, i) \cup R)
    BY RunsFinite
  <2>2. /\ mails[i] >= Cardinality(Past(f, i) \cup R)
        /\ mails[i] + Cardinality(Pending(f, i)) <= c
    BY DEF Mailed
  <2>3. CASE i = f[n]
    <3>1. n \in Pending(f, i) /\ Pending(g, i) = Pending(f, i) \ {n}
      BY <2>3 DEF Pending
    <3> DEFINE was == Pending(f, i)
               old == Past(f, i) \cup R
               new == Past(g, i) \cup R
    <3>2. new \subseteq old \cup {n}
      BY DEF Past
    <3> HIDE DEF g, was, old, new
    <3>3. Cardinality(was \ {n}) = Cardinality(was) - 1
      BY <2>1, <3>1, FS_RemoveElement DEF was
    <3>4. /\ IsFiniteSet(old \cup {n})
          /\ Cardinality(old \cup {n}) <= Cardinality(old) + 1
          /\ Cardinality(old \cup {n}) \in Nat
      <4>1. IsFiniteSet(old) /\ Cardinality(old) \in Nat
        BY <2>1 DEF old
      <4>2. IsFiniteSet(old \cup {n})
        BY <4>1, FS_AddElement
      <4>3. Cardinality(old \cup {n}) <= Cardinality(old) + 1
        <5>1. Cardinality(old \cup {n}) = IF n \in old THEN Cardinality(old) ELSE Cardinality(old) + 1
          BY <4>1, FS_AddElement, Zenon
        <5> QED
          BY <4>1, <5>1
      <4> QED
        BY <4>2, <4>3, FS_CardinalityType
    <3>5. Cardinality(new) <= Cardinality(old \cup {n})
      BY <3>2, <3>4, FS_Subset
    <3>6. Cardinality(Pending(g, i)) = Cardinality(Pending(f, i)) - 1
      BY <3>1, <3>3 DEF was
    <3>8. Cardinality(new) \in Nat /\ Cardinality(new) <= Cardinality(old) + 1
      BY <2>1, <3>4, <3>5 DEF new, old
    <3>7. more[i] = mails[i] + 1 /\ mails[i] \in Nat
      BY <2>3
    <3> QED
      BY <2>1, <2>2, <3>6, <3>7, <3>8 DEF new, old
  <2>4. CASE i # f[n]
    <3>1. Past(g, i) \cup R \subseteq Past(f, i) \cup R /\ Pending(g, i) \subseteq Pending(f, i)
      BY <2>4 DEF Past, Pending
    <3>2. /\ Cardinality(Past(g, i) \cup R) <= Cardinality(Past(f, i) \cup R)
          /\ Cardinality(Pending(g, i)) <= Cardinality(Pending(f, i))
      BY <2>1, <3>1, FS_Subset
    <3>3. more[i] = mails[i] /\ mails[i] \in Nat
      BY <2>4
    <3> QED
      BY <2>1, <2>2, <3>2, <3>3
  <2> QED
    BY <2>3, <2>4
<1>2. DOMAIN more = DOMAIN mails
  OBVIOUS
<1> QED
  BY <1>1, <1>2 DEF Mailed

(* Whoever is behind a run was mailed.                                     *)
LEMMA PastIsMailed ==
  ASSUME NEW f, NEW mails, NEW c \in Nat, NEW R \in SUBSET Deliveries, Mailed(f, mails, c, R),
         NEW i \in DOMAIN mails, mails[i] \in Nat, NEW n \in Deliveries, f[n] > i
  PROVE  mails[i] > 0
<1>1. n \in Past(f, i) \cup R
  BY DEF Past
<1>2. Cardinality(Past(f, i) \cup R) # 0 /\ Cardinality(Past(f, i) \cup R) \in Nat
  BY <1>1, RunsFinite, FS_EmptySet
<1>3. mails[i] >= Cardinality(Past(f, i) \cup R)
  BY DEF Mailed
<1> QED
  BY <1>2, <1>3

-----------------------------------------------------------------------------
(***************************************************************************)
(* Typing.                                                                 *)
(***************************************************************************)

(* A handler run that throws.                                              *)
LEMMA ThrowTyped ==
  ASSUME DeliveryTyped, NEW m \in Messages, NEW n \in Deliveries, Throw(m, n)
  PROVE  /\ msg' \in [Messages -> {"unpublished", "waiting", "ready", "held", "gone"}]
         /\ run' \in [Messages -> [Deliveries -> Nat]]
         /\ \A o \in Messages : run'[o] \in [Deliveries -> 0..Finishing(o)]
         /\ failed' \in [Messages -> Nat] /\ waiting' = waiting
<1> USE DEF DeliveryTyped
<1>1. AfterThrow(m, n) \in {"ready", "gone"}
  BY DEF AfterThrow
<1>2. \A o \in Messages : Finishing(o) \in Nat
  BY MessageFacts DEF Finishing
<1> QED
  BY <1>1, <1>2 DEF Throw

(* A mail to one recipient.                                                *)
LEMMA MailTyped ==
  ASSUME DeliveryTyped, NEW m \in Messages, NEW i \in DOMAIN Recipients(m), NEW k \in {0, 1},
         sent' = [sent EXCEPT ![m][i] = @ + k]
  PROVE  DOMAIN sent' = Messages /\ \A o \in Messages : sent'[o] \in [DOMAIN Recipients(o) -> Nat]
BY DEF DeliveryTyped

(* A step of one run.                                                      *)
LEMMA RunTyped ==
  ASSUME DeliveryTyped, NEW m \in Messages, NEW n, NEW k \in 0..Finishing(m),
         run' = [run EXCEPT ![m][n] = k]
  PROVE  /\ run' \in [Messages -> [Deliveries -> Nat]]
         /\ \A o \in Messages : run'[o] \in [Deliveries -> 0..Finishing(o)]
<1>1. \A o \in Messages : Finishing(o) \in Nat
  BY MessageFacts DEF Finishing
<1>2. run'[m] = [run[m] EXCEPT ![n] = k] /\ \A o \in Messages \ {m} : run'[o] = run[o]
  BY DEF DeliveryTyped
<1>3. run[m] \in [Deliveries -> 0..Finishing(m)] /\ k \in Nat
  BY <1>1 DEF DeliveryTyped
<1>4. run'[m] \in [Deliveries -> 0..Finishing(m)]
  BY <1>2, <1>3
<1>5. \A o \in Messages : run'[o] \in [Deliveries -> 0..Finishing(o)]
  BY <1>2, <1>4 DEF DeliveryTyped
<1>6. \A o \in Messages : run'[o] \in [Deliveries -> Nat]
  BY <1>1, <1>5
<1>7. run' \in [Messages -> [Deliveries -> Nat]]
  BY <1>6 DEF DeliveryTyped
<1> QED
  BY <1>5, <1>7

(* A loss or a crash gives messages back.                                  *)
LEMMA GiveBackTyped ==
  ASSUME DeliveryTyped, NEW S \in SUBSET OnTheWire, GiveBack(S), losses < MaxLosses,
         losses' = losses + 1
  PROVE  /\ msg' \in [Messages -> {"unpublished", "waiting", "ready", "held", "gone"}]
         /\ count' \in [Messages -> Nat] /\ waiting' = waiting /\ losses' \in 0..MaxLosses
BY DeliveryAssumption DEF DeliveryTyped, GiveBack

(* The reminder that is parked.                                            *)
LEMMA ParkTyped ==
  ASSUME DeliveryTyped, NEW m \in Messages, NEW n \in Deliveries, ScheduleReminder(m, n)
  PROVE  /\ waiting' \in Seq([id : Reminders, due : Nat])
         /\ m \in Events /\ DueAt(m) \in Nat /\ DueAt(m) + Lead >= TripStart[m]
         /\ DueAt(m) >= 0
<1>1. ParksReminder(m) /\ <<m, n>> \in Reminders /\ m \in Events
  BY MessageFacts DEF ScheduleReminder, ParksReminder
<1>2. TripStart[m] \in Nat /\ Lead \in Nat /\ now \in Nat
  BY <1>1, DeliveryAssumption DEF DeliveryTyped
<1>3. DueAt(m) \in Nat /\ DueAt(m) + Lead >= TripStart[m]
  BY <1>2 DEF DueAt
<1>4. [id |-> <<m, n>>, due |-> DueAt(m)] \in [id : Reminders, due : Nat]
  BY <1>1, <1>3
<1>5. waiting' = Append(waiting, [id |-> <<m, n>>, due |-> DueAt(m)])
  BY DEF ScheduleReminder
<1>6. waiting' \in Seq([id : Reminders, due : Nat])
  BY <1>4, <1>5 DEF DeliveryTyped
<1> QED
  BY <1>1, <1>3, <1>6

(* Every step keeps the types.                                             *)
LEMMA TypedStep ==
  ASSUME DeliveryTyped, [Next]_vars
  PROVE  DeliveryTyped'
<1> USE DEF linkVars, queueVars
<1>0. CASE UNCHANGED vars
  BY <1>0 DEF DeliveryTyped, vars, Link!LinkTypeOK
<1>1. ASSUME NEW e \in Events, Publish(e)
      PROVE  DeliveryTyped'
  BY <1>1 DEF Publish, DeliveryTyped, Link!LinkTypeOK, Messages
<1>2. ASSUME NEW m \in Messages, Deliver(m)
      PROVE  DeliveryTyped'
  <2>1. 1 \in 0..Finishing(m)
    BY MessageFacts DEF Finishing
  <2>2. /\ run' \in [Messages -> [Deliveries -> Nat]]
        /\ \A o \in Messages : run'[o] \in [Deliveries -> 0..Finishing(o)]
    BY <1>2, <2>1, RunTyped DEF Deliver
  <2>3. /\ msg' \in [Messages -> {"unpublished", "waiting", "ready", "held", "gone"}]
        /\ count' \in [Messages -> Nat]
    BY <1>2 DEF Deliver, DeliveryTyped
  <2> QED
    BY <1>2, <2>2, <2>3 DEF Deliver, DeliveryTyped, Link!LinkTypeOK
<1>3. ASSUME NEW m \in Messages, NEW n \in Deliveries,
             ParseFails(m, n) \/ SendRefused(m, n) \/ ScheduleReminderFails(m, n)
      PROVE  DeliveryTyped'
  <2>1. Throw(m, n) /\ UNCHANGED <<linkVars, count, sent, now, losses, smtpFaults>>
    BY <1>3 DEF ParseFails, SendRefused, ScheduleReminderFails
  <2> QED
    BY <2>1, ThrowTyped DEF DeliveryTyped, Link!LinkTypeOK
<1>4. ASSUME NEW m \in Messages, NEW n \in Deliveries, SendMail(m, n)
      PROVE  DeliveryTyped'
  <2>1. run[m][n] \in DOMAIN Recipients(m) /\ run[m][n] + 1 \in 0..Finishing(m)
    BY <1>4, MessageFacts DEF SendMail, Sending, Finishing
  <2>2. DOMAIN sent' = Messages /\ \A o \in Messages : sent'[o] \in [DOMAIN Recipients(o) -> Nat]
    BY <1>4, <2>1, MailTyped DEF SendMail
  <2>3. run' = [run EXCEPT ![m][n] = run[m][n] + 1]
    BY <1>4 DEF SendMail, DeliveryTyped
  <2>4. /\ run' \in [Messages -> [Deliveries -> Nat]]
        /\ \A o \in Messages : run'[o] \in [Deliveries -> 0..Finishing(o)]
    BY <2>1, <2>3, RunTyped
  <2> QED
    BY <1>4, <2>2, <2>4 DEF SendMail, DeliveryTyped, Link!LinkTypeOK
<1>5. ASSUME NEW m \in Messages, NEW n \in Deliveries, SendFails(m, n)
      PROVE  DeliveryTyped'
  <2>1. run[m][n] \in DOMAIN Recipients(m)
    BY <1>5 DEF SendFails, Sending
  <2>2. DOMAIN sent' = Messages /\ \A o \in Messages : sent'[o] \in [DOMAIN Recipients(o) -> Nat]
    BY <1>5, <2>1, MailTyped DEF SendFails
  <2>3. smtpFaults' \in 0..MaxSmtpFaults
    BY <1>5, DeliveryAssumption DEF SendFails, DeliveryTyped
  <2>4. Throw(m, n) /\ UNCHANGED <<linkVars, count, now, losses>>
    BY <1>5 DEF SendFails
  <2> QED
    BY <2>2, <2>3, <2>4, ThrowTyped DEF DeliveryTyped, Link!LinkTypeOK
<1>6. ASSUME NEW m \in Messages, NEW n \in Deliveries, ScheduleReminder(m, n)
      PROVE  DeliveryTyped'
  <2>1. 0 \in 0..Finishing(m)
    BY MessageFacts DEF Finishing
  <2>2. /\ run' \in [Messages -> [Deliveries -> Nat]]
        /\ \A o \in Messages : run'[o] \in [Deliveries -> 0..Finishing(o)]
    BY <1>6, <2>1, RunTyped DEF ScheduleReminder
  <2>3. msg' \in [Messages -> {"unpublished", "waiting", "ready", "held", "gone"}]
    BY <1>6 DEF ScheduleReminder, DeliveryTyped, Ack
  <2>4. waiting' \in Seq([id : Reminders, due : Nat])
    BY <1>6, ParkTyped
  <2> QED
    BY <1>6, <2>2, <2>3, <2>4 DEF ScheduleReminder, DeliveryTyped, Link!LinkTypeOK
<1>7. ASSUME NEW m \in Messages, NEW n \in Deliveries, Finish(m, n)
      PROVE  DeliveryTyped'
  <2>1. 0 \in 0..Finishing(m)
    BY MessageFacts DEF Finishing
  <2>2. /\ run' \in [Messages -> [Deliveries -> Nat]]
        /\ \A o \in Messages : run'[o] \in [Deliveries -> 0..Finishing(o)]
    BY <1>7, <2>1, RunTyped DEF Finish
  <2>3. msg' \in [Messages -> {"unpublished", "waiting", "ready", "held", "gone"}]
    BY <1>7 DEF Finish, DeliveryTyped, Ack
  <2> QED
    BY <1>7, <2>2, <2>3 DEF Finish, DeliveryTyped, Link!LinkTypeOK
<1>8. CASE Tick
  BY <1>8, DeliveryAssumption DEF Tick, DeliveryTyped, Link!LinkTypeOK
<1>9. CASE Expire
  <2>1. waiting' = Tail(waiting) /\ waiting # <<>>
    BY <1>9 DEF Expire
  <2>2. waiting' \in Seq([id : Reminders, due : Nat])
    BY <2>1 DEF DeliveryTyped
  <2>3. msg' \in [Messages -> {"unpublished", "waiting", "ready", "held", "gone"}]
    BY <1>9 DEF Expire, DeliveryTyped
  <2> QED
    BY <1>9, <2>2, <2>3 DEF Expire, DeliveryTyped, Link!LinkTypeOK
<1>10. CASE LinkStep
  <2>1. UNCHANGED <<queueVars, run, sent, failed, now, losses, smtpFaults>>
    BY <1>10 DEF LinkStep, Connect, LinkResumed, Subscribe, ReplayConsumer
  <2>2. Link!LinkTypeOK'
    BY <1>10 DEF LinkStep, Connect, LinkResumed, Subscribe, ReplayConsumer, DeliveryTyped,
       Link!LinkTypeOK, Link!Opened, Link!Resumed, Link!Register, Link!Replay
  <2> QED
    BY <2>1, <2>2 DEF DeliveryTyped
<1>11. ASSUME NEW S \in SUBSET OnTheWire, LinkLost(S)
       PROVE  DeliveryTyped'
  <2>1. Link!LinkTypeOK'
    BY <1>11 DEF LinkLost, DeliveryTyped, Link!LinkTypeOK, Link!Lost, Link!ReplayLost
  <2> QED
    BY <1>11, <2>1, GiveBackTyped DEF LinkLost, DeliveryTyped
<1>12. ASSUME NEW S \in SUBSET OnTheWire, Crash(S)
       PROVE  DeliveryTyped'
  <2>1. Link!LinkTypeOK'
    BY <1>12 DEF Crash, Link!LinkTypeOK
  <2>2. \A o \in Messages : 0 \in 0..Finishing(o)
    BY MessageFacts DEF Finishing
  <2>3. /\ run' \in [Messages -> [Deliveries -> Nat]]
        /\ \A o \in Messages : run'[o] \in [Deliveries -> 0..Finishing(o)]
    BY <1>12, <2>2 DEF Crash
  <2> QED
    BY <1>12, <2>1, <2>3, GiveBackTyped DEF Crash, DeliveryTyped
<1> QED
  BY <1>0, <1>1, <1>2, <1>3, <1>4, <1>5, <1>6, <1>7, <1>8, <1>9, <1>10, <1>11, <1>12
     DEF Next, HandlerStep

-----------------------------------------------------------------------------
(***************************************************************************)
(* Rows.                                                                   *)
(***************************************************************************)

(* A run goes on or ends; the last one may settle its message, and the     *)
(* first may have it retried.                                              *)
LEMMA RunMoves ==
  ASSUME NEW s, NEW c \in Nat, NEW f \in [Deliveries -> Nat], NEW l \in 0..MaxLosses,
         Delivered(s, c, f, l), NEW n \in Deliveries, f[n] # 0, NEW k \in Nat
  PROVE  /\ Delivered(s, c, [f EXCEPT ![n] = k], l)
         /\ n <= c
         /\ s = "held" /\ n = c => Delivered("gone", c, [f EXCEPT ![n] = 0], l)
         /\ s = "held" /\ n = c /\ n = 1 => Delivered("ready", c, [f EXCEPT ![n] = 0], l)
<1>1. n <= c /\ (s = "gone" => n # c)
  BY DEF Delivered
<1>2. l \in Nat /\ MaxLosses \in Nat /\ l + 2 <= MaxLosses + 2
  BY DeliveryAssumption
<1>3. Delivered(s, c, [f EXCEPT ![n] = k], l)
  <2>1. \A o \in Deliveries : [f EXCEPT ![n] = k][o] # 0 => o <= c
    BY <1>1 DEF Delivered
  <2>2. s = "gone" => [f EXCEPT ![n] = k][c] = 0
    BY <1>1, <1>2 DEF Delivered, Deliveries
  <2> QED
    BY <2>1, <2>2 DEF Delivered
<1>4. ASSUME s = "held", n = c
      PROVE  Delivered("gone", c, [f EXCEPT ![n] = 0], l)
  BY <1>4, <1>2 DEF Delivered, Deliveries
<1>5. ASSUME s = "held", n = c, n = 1
      PROVE  Delivered("ready", c, [f EXCEPT ![n] = 0], l)
  BY <1>5, <1>2 DEF Delivered, Deliveries
<1> QED
  BY <1>1, <1>3, <1>4, <1>5

(* What the row of a message is typed as.                                  *)
LEMMA RowTyped ==
  ASSUME DeliveryTyped, RowInv, NEW m \in Messages
  PROVE  /\ count[m] \in Nat /\ run[m] \in [Deliveries -> Nat] /\ losses \in 0..MaxLosses
         /\ failed[m] \in Nat /\ Parked(m) \in SUBSET Deliveries
         /\ sent[m] \in [DOMAIN sent[m] -> Nat]
         /\ DOMAIN sent[m] = DOMAIN Recipients(m) /\ DOMAIN sent[m] \subseteq Nat \ {0}
         /\ \A i \in DOMAIN sent[m] : sent[m][i] \in Nat
         /\ Row(m) /\ Settled(m)
BY MessageFacts DEF DeliveryTyped, RowInv, Parked

Others(m) ==
  /\ \A o \in Messages \ {m} : /\ msg'[o] = msg[o] /\ count'[o] = count[o] /\ run'[o] = run[o]
                               /\ sent'[o] = sent[o] /\ failed'[o] = failed[o]
  /\ losses' = losses

(* A step of one message leaves the rows of the others alone, as long as   *)
(* it parks nothing.                                                       *)
LEMMA OneRowMoves ==
  ASSUME DeliveryTyped, RowInv, NEW m \in Messages, Others(m),
         \A r \in Reminders : Started(r)' <=> Started(r),
         Delivered(msg'[m], count'[m], run'[m], losses),
         Mailed(run'[m], sent'[m], count'[m], Parked(m)),
         \A n \in Parked(m) : run'[m][n] = 0 /\ n <= count'[m],
         Settled(m)'
  PROVE  RowInv'
<1>1. ASSUME NEW o \in Messages
      PROVE  Parked(o)' = Parked(o)
  <2>1. \A n \in Deliveries : ParksReminder(o) => (Started(<<o, n>>)' <=> Started(<<o, n>>))
    BY MessageFacts
  <2> QED
    BY <2>1 DEF Parked
<1>2. Row(m)'
  BY <1>1 DEF Row, Others
<1>3. ASSUME NEW o \in Messages \ {m}
      PROVE  Row(o)' /\ Settled(o)'
  <2>1. Row(o) /\ Settled(o)
    BY DEF RowInv
  <2>2. Row(o)'
    BY <1>1, <2>1 DEF Row, Others
  <2>3. \A n \in Deliveries : ParksReminder(o) => (Started(<<o, n>>)' <=> Started(<<o, n>>))
    BY MessageFacts
  <2>4. Complete(o) => Complete(o)'
    BY <2>3 DEF Complete, Others
  <2>5. Settled(o)'
    BY <2>1, <2>4 DEF Settled, Others
  <2> QED
    BY <2>2, <2>5
<1> QED
  BY <1>2, <1>3 DEF RowInv

(* What is complete stays so, and what was poison.                         *)
LEMMA SettledStays ==
  ASSUME DeliveryTyped, NEW m \in Messages, Settled(m), msg'[m] = "gone" => msg[m] = "gone",
         count'[m] = count[m], failed'[m] = failed[m] \/ failed'[m] = failed[m] + 1,
         \A i \in DOMAIN Recipients(m) : sent[m][i] > 0 => sent'[m][i] > 0,
         \A r \in Reminders : Started(r)' <=> Started(r)
  PROVE  Settled(m)'
<1>1. \A n \in Deliveries : ParksReminder(m) => (Started(<<m, n>>)' <=> Started(<<m, n>>))
  BY MessageFacts
<1>2. Complete(m) => Complete(m)'
  BY <1>1 DEF Complete
<1>3. failed[m] \in Nat
  BY DEF DeliveryTyped
<1>4. failed[m] > 0 => failed'[m] > 0
  BY <1>3
<1> QED
  BY <1>2, <1>4 DEF Settled

(* A message is published, or expires into reminders.due.                  *)
LEMMA AppearMoves ==
  ASSUME DeliveryTyped, RowInv, NEW m \in Messages, msg[m] \in {"unpublished", "waiting"},
         msg' = [msg EXCEPT ![m] = "ready"],
         m \in Reminders => msg[m] = "waiting",
         UNCHANGED <<count, run, sent, failed, losses>>
  PROVE  RowInv' /\ \A r \in Reminders : Started(r)' <=> Started(r)
<1>1. msg'[m] = "ready" /\ \A o \in Messages \ {m} : msg'[o] = msg[o]
  BY DEF DeliveryTyped
<1>2. Others(m)
  BY <1>1 DEF Others
<1>3. \A r \in Reminders : Started(r)' <=> Started(r)
  BY <1>1, MessageFacts DEF Started
<1>4. Delivered(msg'[m], count'[m], run'[m], losses)
  BY <1>1, RowTyped DEF Row, Delivered
<1>5. Settled(m)'
  BY <1>1 DEF Settled
<1> QED
  BY <1>2, <1>3, <1>4, <1>5, RowTyped, OneRowMoves DEF Row

(* A delivery starts a run.                                                *)
LEMMA DeliverMoves ==
  ASSUME DeliveryTyped, RowInv, NEW m \in Messages, Deliver(m)
  PROVE  RowInv' /\ \A r \in Reminders : Started(r)' <=> Started(r)
<1> DEFINE n == count[m] + 1
<1>1. /\ msg[m] = "ready" /\ msg'[m] = "held"
      /\ count'[m] = count[m] + 1 /\ run'[m] = [run[m] EXCEPT ![n] = 1]
      /\ sent' = sent /\ failed' = failed /\ losses' = losses
      /\ \A o \in Messages \ {m} : msg'[o] = msg[o] /\ count'[o] = count[o] /\ run'[o] = run[o]
  BY DEF Deliver, DeliveryTyped
<1>2. Others(m)
  BY <1>1 DEF Others
<1>3. \A r \in Reminders : Started(r)' <=> Started(r)
  BY <1>1, MessageFacts DEF Started
<1>4. count[m] <= losses + 1 /\ n \in Deliveries /\ run[m][n] = 0
  <2>1. count[m] \in Nat /\ losses \in 0..MaxLosses /\ MaxLosses \in Nat
    BY RowTyped, DeliveryAssumption
  <2>2. count[m] <= losses + 1
    BY <1>1, RowTyped DEF Row, Delivered
  <2>3. n \in Deliveries
    BY <2>1, <2>2 DEF Deliveries
  <2>4. run[m][n] # 0 => n <= count[m]
    BY <2>3, RowTyped DEF Row, Delivered
  <2> QED
    BY <2>1, <2>2, <2>3, <2>4
<1>5. Delivered(msg'[m], count'[m], run'[m], losses)
  <2>1. count[m] \in Nat /\ losses \in Nat /\ run[m] \in [Deliveries -> Nat]
    BY RowTyped, DeliveryAssumption
  <2>2. \A o \in Deliveries : run'[m][o] # 0 => o <= count'[m]
    BY <1>1, <2>1, RowTyped DEF Row, Delivered, Deliveries
  <2>3. count'[m] \in 1..(losses + 2)
    BY <1>1, <1>4, <2>1
  <2> QED
    BY <1>1, <2>2, <2>3 DEF Delivered
<1>6. Mailed(run'[m], sent'[m], count'[m], Parked(m))
  <2> HIDE DEF n
  <2>1. Mailed([run[m] EXCEPT ![n] = 1], sent[m], count[m] + 1, Parked(m))
    BY <1>4, RowTyped, RunBegins DEF Row
  <2> QED
    BY <1>1, <2>1
<1>7. \A o \in Parked(m) : run'[m][o] = 0 /\ o <= count'[m]
  <2>1. ASSUME NEW o \in Parked(m)
        PROVE  run'[m][o] = 0 /\ o <= count'[m]
    <3>1. run[m][o] = 0 /\ o <= count[m] /\ o \in Nat /\ count[m] \in Nat
      BY RowTyped DEF Row, Deliveries
    <3> QED
      BY <1>1, <3>1, RowTyped
  <2> QED
    BY <2>1
<1>8. Settled(m)'
  BY <1>1 DEF Settled
<1> QED
  BY <1>2, <1>3, <1>5, <1>6, <1>7, <1>8, OneRowMoves

(* A handler run that throws, whether or not SMTP took the mail.           *)
LEMMA ThrowMoves ==
  ASSUME DeliveryTyped, RowInv, NEW m \in Messages, NEW n \in Deliveries, Throw(m, n),
         run[m][n] # 0, UNCHANGED <<count, losses>>,
         \A o \in Messages \ {m} : sent'[o] = sent[o],
         \A i \in DOMAIN Recipients(m) : sent[m][i] > 0 => sent'[m][i] > 0,
         Mailed([run[m] EXCEPT ![n] = 0], sent'[m], count[m], Parked(m))
  PROVE  RowInv' /\ \A r \in Reminders : Started(r)' <=> Started(r)
<1>1. /\ run'[m] = [run[m] EXCEPT ![n] = 0] /\ failed'[m] = failed[m] + 1
      /\ msg'[m] = IF Holds(m, n) THEN AfterThrow(m, n) ELSE msg[m]
      /\ \A o \in Messages \ {m} :
           msg'[o] = msg[o] /\ run'[o] = run[o] /\ failed'[o] = failed[o]
  BY DEF Throw, DeliveryTyped
<1>2. Others(m)
  BY <1>1 DEF Others
<1>3. /\ Delivered(msg[m], count[m], [run[m] EXCEPT ![n] = 0], losses)
      /\ msg[m] = "held" /\ n = count[m] => Delivered("gone", count[m], [run[m] EXCEPT ![n] = 0], losses)
      /\ msg[m] = "held" /\ n = count[m] /\ n = 1 =>
           Delivered("ready", count[m], [run[m] EXCEPT ![n] = 0], losses)
      /\ n <= count[m]
  <2>1. 0 \in Nat /\ Delivered(msg[m], count[m], run[m], losses)
    BY RowTyped DEF Row
  <2> QED
    BY <2>1, RowTyped, RunMoves
<1>4. Delivered(msg'[m], count'[m], run'[m], losses)
  <2>1. CASE Holds(m, n) /\ n = 1
    BY <1>1, <1>3, <2>1 DEF Holds, AfterThrow
  <2>2. CASE Holds(m, n) /\ n # 1
    BY <1>1, <1>3, <2>2 DEF Holds, AfterThrow
  <2>3. CASE ~Holds(m, n)
    BY <1>1, <1>3, <2>3
  <2> QED
    BY <2>1, <2>2, <2>3
<1>5. msg[m] # "unpublished" /\ msg'[m] # "unpublished"
  <2>1. msg[m] # "unpublished"
    BY <1>3, RowTyped DEF Row, Delivered, Deliveries
  <2> QED
    BY <1>1, <2>1 DEF AfterThrow
<1>6. \A r \in Reminders : Started(r)' <=> Started(r)
  BY <1>1, <1>5, MessageFacts DEF Started
<1>7. Settled(m)'
  <2>1. CASE Holds(m, n) /\ msg'[m] = "gone"
    <3>1. count[m] > 1
      BY <1>1, <2>1 DEF Holds, AfterThrow, Deliveries
    <3>2. failed'[m] > 0
      BY <1>1, RowTyped
    <3> QED
      BY <3>1, <3>2 DEF Settled
  <2>2. CASE ~(Holds(m, n) /\ msg'[m] = "gone")
    <3>1. msg'[m] = "gone" => msg[m] = "gone"
      BY <1>1, <2>2
    <3> QED
      BY <1>1, <1>6, <3>1, RowTyped, SettledStays
  <2> QED
    BY <2>1, <2>2
<1>8. \A o \in Parked(m) : run'[m][o] = 0 /\ o <= count'[m]
  BY <1>1, RowTyped DEF Row
<1>9. Mailed(run'[m], sent'[m], count'[m], Parked(m))
  BY <1>1
<1> QED
  BY <1>2, <1>4, <1>6, <1>7, <1>8, <1>9, OneRowMoves

(* ... without a mail.                                                     *)
LEMMA ErrorMoves ==
  ASSUME DeliveryTyped, RowInv, NEW m \in Messages, NEW n \in Deliveries,
         ParseFails(m, n) \/ SendRefused(m, n) \/ ScheduleReminderFails(m, n)
  PROVE  RowInv' /\ \A r \in Reminders : Started(r)' <=> Started(r)
<1>1. Throw(m, n) /\ UNCHANGED <<count, sent, losses>>
  BY DEF ParseFails, SendRefused, ScheduleReminderFails
<1>2. run[m][n] # 0
  BY MessageFacts
     DEF ParseFails, SendRefused, ScheduleReminderFails, Sending, Finishing
<1>3. Mailed([run[m] EXCEPT ![n] = 0], sent[m], count[m], Parked(m))
  <2>1. Mailed(run[m], sent[m], count[m], Parked(m)) /\ DOMAIN sent[m] \subseteq Nat
    BY RowTyped DEF Row
  <2> QED
    BY <2>1, RowTyped, RunEnds
<1> QED
  BY <1>1, <1>2, <1>3, ThrowMoves

(* ... in a mail that SMTP took or not.                                    *)
LEMMA SendFailsMoves ==
  ASSUME DeliveryTyped, RowInv, NEW m \in Messages, NEW n \in Deliveries, SendFails(m, n)
  PROVE  RowInv' /\ \A r \in Reminders : Started(r)' <=> Started(r)
<1> DEFINE i == run[m][n]
<1>1. PICK k \in {0, 1} : sent' = [sent EXCEPT ![m][i] = @ + k]
  BY DEF SendFails
<1>2. Throw(m, n) /\ UNCHANGED <<count, losses>> /\ i \in DOMAIN sent[m] /\ i # 0
  BY RowTyped DEF SendFails, Sending
<1>3. /\ sent'[m] = [sent[m] EXCEPT ![i] = @ + k]
      /\ \A o \in Messages \ {m} : sent'[o] = sent[o]
  BY <1>1 DEF DeliveryTyped
<1>4. Mailed(run[m], sent[m], count[m], Parked(m))
  BY RowTyped DEF Row
<1>5. Mailed([run[m] EXCEPT ![n] = 0], sent'[m], count[m], Parked(m))
  <2>1. CASE k = 0
    <3>1. sent'[m] = sent[m]
      BY <1>2, <1>3, <2>1, RowTyped
    <3>2. DOMAIN sent[m] \subseteq Nat
      BY RowTyped
    <3> QED
      BY <1>4, <3>1, <3>2, RowTyped, RunEnds
  <2>2. CASE k = 1
    <3>1. sent'[m] = [sent[m] EXCEPT ![run[m][n]] = @ + 1]
      BY <1>3, <2>2
    <3>2. 0 \in {0, run[m][n] + 1}
      OBVIOUS
    <3>3. run[m][n] \in DOMAIN sent[m]
      BY <1>2
    <3>4. Mailed([run[m] EXCEPT ![n] = 0], [sent[m] EXCEPT ![run[m][n]] = @ + 1],
                 count[m], Parked(m))
      BY <1>4, <3>2, <3>3, RowTyped, RunMails
    <3> QED
      BY <3>1, <3>4
  <2> QED
    BY <2>1, <2>2
<1>6. \A j \in DOMAIN Recipients(m) : sent[m][j] > 0 => sent'[m][j] > 0
  BY <1>3, RowTyped
<1> QED
  BY <1>2, <1>3, <1>5, <1>6, ThrowMoves

(* SMTP accepts a mail and the run goes on.                                *)
LEMMA SendMoves ==
  ASSUME DeliveryTyped, RowInv, NEW m \in Messages, NEW n \in Deliveries, SendMail(m, n)
  PROVE  RowInv' /\ \A r \in Reminders : Started(r)' <=> Started(r)
<1> DEFINE i == run[m][n]
<1>1. i \in DOMAIN sent[m] /\ i \in Nat /\ i # 0 /\ UNCHANGED <<msg, count, failed, losses>>
  BY RowTyped DEF SendMail, Sending, queueVars
<1>2. /\ sent'[m] = [sent[m] EXCEPT ![i] = @ + 1] /\ run'[m] = [run[m] EXCEPT ![n] = i + 1]
      /\ \A o \in Messages \ {m} : sent'[o] = sent[o] /\ run'[o] = run[o]
  BY DEF SendMail, DeliveryTyped
<1>3. Others(m)
  BY <1>1, <1>2 DEF Others
<1>4. \A r \in Reminders : Started(r)' <=> Started(r)
  BY <1>1 DEF Started
<1>5. Delivered(msg'[m], count'[m], run'[m], losses)
  <2>1. i + 1 \in Nat /\ Delivered(msg[m], count[m], run[m], losses)
    BY <1>1, RowTyped DEF Row
  <2>2. Delivered(msg[m], count[m], [run[m] EXCEPT ![n] = i + 1], losses)
    BY <1>1, <2>1, RowTyped, RunMoves
  <2> QED
    BY <1>1, <1>2, <2>2
<1>6. Mailed(run'[m], sent'[m], count'[m], Parked(m))
  <2>1. Mailed(run[m], sent[m], count[m], Parked(m)) /\ i + 1 \in {0, run[m][n] + 1}
    BY RowTyped DEF Row
  <2>2. Mailed([run[m] EXCEPT ![n] = i + 1], [sent[m] EXCEPT ![run[m][n]] = @ + 1],
               count[m], Parked(m))
    BY <1>1, <2>1, RowTyped, RunMails
  <2> QED
    BY <1>1, <1>2, <2>2
<1>7. \A o \in Parked(m) : run'[m][o] = 0 /\ o <= count'[m]
  <2>1. n \notin Parked(m)
    BY <1>1, RowTyped DEF Row
  <2> QED
    BY <1>1, <1>2, <2>1, RowTyped DEF Row
<1>8. \A j \in DOMAIN Recipients(m) : sent[m][j] > 0 => sent'[m][j] > 0
  BY <1>2, RowTyped
<1>9. Settled(m)'
  BY <1>1, <1>4, <1>8, RowTyped, SettledStays
<1> QED
  BY <1>3, <1>4, <1>5, <1>6, <1>7, <1>9, OneRowMoves

(* A run that is done with its last recipient.                             *)
LEMMA DoneIsMailed ==
  ASSUME DeliveryTyped, RowInv, NEW m \in Messages, NEW n \in Deliveries,
         run[m][n] = Finishing(m)
  PROVE  /\ run[m][n] # 0
         /\ \A i \in DOMAIN sent[m] : run[m][n] > i /\ sent[m][i] > 0
<1>1. /\ Len(Recipients(m)) \in Nat /\ run[m][n] = Len(Recipients(m)) + 1
      /\ DOMAIN sent[m] = 1..Len(Recipients(m))
  BY MessageFacts, RowTyped DEF Finishing
<1>2. \A i \in DOMAIN sent[m] : run[m][n] > i
  BY <1>1
<1>3. Mailed(run[m], sent[m], count[m], Parked(m))
  BY RowTyped DEF Row
<1>4. \A i \in DOMAIN sent[m] : sent[m][i] > 0
  BY <1>2, <1>3, RowTyped, PastIsMailed
<1> QED
  BY <1>1, <1>2, <1>4

(* A handler without a reminder is done.                                   *)
LEMMA FinishMoves ==
  ASSUME DeliveryTyped, RowInv, NEW m \in Messages, NEW n \in Deliveries, Finish(m, n)
  PROVE  RowInv' /\ \A r \in Reminders : Started(r)' <=> Started(r)
<1>1. /\ ~ParksReminder(m) /\ UNCHANGED <<count, sent, failed, losses>>
      /\ run[m][n] # 0 /\ \A i \in DOMAIN sent[m] : sent[m][i] > 0
  BY DoneIsMailed DEF Finish
<1>2. /\ run'[m] = [run[m] EXCEPT ![n] = 0]
      /\ msg'[m] = IF Holds(m, n) THEN "gone" ELSE msg[m]
      /\ \A o \in Messages \ {m} : msg'[o] = msg[o] /\ run'[o] = run[o]
  BY DEF Finish, Ack, DeliveryTyped
<1>3. Others(m)
  BY <1>1, <1>2 DEF Others
<1>4. \A r \in Reminders : Started(r)' <=> Started(r)
  <2>1. msg[m] # "unpublished" /\ msg'[m] # "unpublished"
    BY <1>1, <1>2, RowTyped DEF Row, Delivered, Deliveries
  <2> QED
    BY <1>2, <2>1, MessageFacts DEF Started
<1>5. Delivered(msg'[m], count'[m], run'[m], losses)
  <2>1. 0 \in Nat /\ Delivered(msg[m], count[m], run[m], losses)
    BY RowTyped DEF Row
  <2>2. /\ Delivered(msg[m], count[m], [run[m] EXCEPT ![n] = 0], losses)
        /\ msg[m] = "held" /\ n = count[m] => Delivered("gone", count[m], [run[m] EXCEPT ![n] = 0], losses)
    BY <1>1, <2>1, RowTyped, RunMoves
  <2> QED
    BY <1>1, <1>2, <2>2 DEF Holds
<1>6. Mailed(run'[m], sent'[m], count'[m], Parked(m))
  <2>1. Mailed(run[m], sent[m], count[m], Parked(m)) /\ DOMAIN sent[m] \subseteq Nat
    BY RowTyped DEF Row
  <2>2. Mailed([run[m] EXCEPT ![n] = 0], sent[m], count[m], Parked(m))
    BY <2>1, RowTyped, RunEnds
  <2> QED
    BY <1>1, <1>2, <2>2
<1>7. \A o \in Parked(m) : run'[m][o] = 0 /\ o <= count'[m]
  BY <1>1 DEF Parked
<1>8. Settled(m)'
  <2>1. Complete(m)'
    BY <1>1, RowTyped DEF Complete
  <2> QED
    BY <2>1 DEF Settled
<1> QED
  BY <1>3, <1>4, <1>5, <1>6, <1>7, <1>8, OneRowMoves

(* The confirmation is out and the reminder is parked.                     *)
LEMMA ParkMoves ==
  ASSUME DeliveryTyped, RowInv, NEW m \in Messages, NEW n \in Deliveries, ScheduleReminder(m, n)
  PROVE  /\ RowInv' /\ msg[<<m, n>>] = "unpublished"
         /\ \A r \in Reminders : r # <<m, n>> => msg'[r] = msg[r]
         /\ msg'[<<m, n>>] = "waiting"
<1> DEFINE park == <<m, n>>
<1>1. /\ ParksReminder(m) /\ park \in Messages /\ ~ParksReminder(park) /\ park # m
      /\ park \in Reminders /\ m \notin Reminders
  BY MessageFacts DEF ScheduleReminder
<1>2. /\ UNCHANGED <<count, sent, failed, losses>>
      /\ run[m][n] # 0 /\ \A i \in DOMAIN sent[m] : run[m][n] > i /\ sent[m][i] > 0
  BY DoneIsMailed DEF ScheduleReminder
<1>3. msg[park] = "unpublished"
  BY <1>1, <1>2, RowTyped DEF Row, Parked, Started
<1>4. /\ run'[m] = [run[m] EXCEPT ![n] = 0]
      /\ msg'[park] = "waiting"
      /\ msg'[m] = IF Holds(m, n) THEN "gone" ELSE msg[m]
      /\ \A o \in Messages \ {m} : run'[o] = run[o]
      /\ \A o \in Messages \ {m, park} : msg'[o] = msg[o]
  BY <1>1 DEF ScheduleReminder, Ack, DeliveryTyped
<1>5. /\ \A r \in Reminders : r # park => (Started(r)' <=> Started(r))
      /\ Started(park)'
  BY <1>1, <1>4, MessageFacts DEF Started
<1>6. /\ Parked(m)' = Parked(m) \cup {n}
      /\ \A o \in Messages \ {m} : Parked(o)' = Parked(o)
  <2>1. ASSUME NEW o \in Messages, NEW k \in Deliveries, ParksReminder(o), o # m \/ k # n
        PROVE  Started(<<o, k>>)' <=> Started(<<o, k>>)
    <3>1. <<o, k>> \in Reminders /\ <<o, k>> # park
      BY <2>1, MessageFacts
    <3> QED
      BY <1>5, <3>1
  <2>2. ASSUME NEW o \in Messages \ {m}
        PROVE  Parked(o)' = Parked(o)
    BY <2>1 DEF Parked
  <2>3. Parked(m)' = Parked(m) \cup {n}
    BY <1>1, <1>5, <2>1 DEF Parked
  <2> QED
    BY <2>2, <2>3
<1>7. Row(m)'
  <2>1. 0 \in Nat /\ Delivered(msg[m], count[m], run[m], losses)
    BY RowTyped DEF Row
  <2>2. /\ Delivered(msg[m], count[m], [run[m] EXCEPT ![n] = 0], losses)
        /\ msg[m] = "held" /\ n = count[m] => Delivered("gone", count[m], [run[m] EXCEPT ![n] = 0], losses)
        /\ n <= count[m]
    BY <1>2, <2>1, RowTyped, RunMoves
  <2>3. Delivered(msg'[m], count'[m], run'[m], losses')
    BY <1>2, <1>4, <2>2 DEF Holds
  <2>4. Mailed(run[m], sent[m], count[m], Parked(m)) /\ DOMAIN sent[m] \subseteq Nat
    BY RowTyped DEF Row
  <2>5. Mailed([run[m] EXCEPT ![n] = 0], sent[m], count[m], Parked(m) \cup {n})
    BY <1>2, <2>4, RowTyped, RunEnds
  <2>6. Mailed(run'[m], sent'[m], count'[m], Parked(m)')
    BY <1>2, <1>4, <1>6, <2>5
  <2>7. \A o \in Parked(m)' : run'[m][o] = 0 /\ o <= count'[m]
    BY <1>2, <1>4, <1>6, <2>2, RowTyped DEF Row
  <2> QED
    BY <2>3, <2>6, <2>7 DEF Row
<1>8. Settled(m)'
  <2>1. Complete(m)'
    BY <1>1, <1>2, <1>5, RowTyped DEF Complete
  <2> QED
    BY <2>1 DEF Settled
<1>9. Row(park)' /\ Settled(park)'
  <2>1. Row(park)
    BY <1>1, RowTyped
  <2>2. Delivered("waiting", count[park], run[park], losses)
    BY <1>3, <2>1 DEF Row, Delivered
  <2>3. Row(park)'
    BY <1>1, <1>2, <1>4, <1>6, <2>1, <2>2 DEF Row
  <2> QED
    BY <1>4, <2>3 DEF Settled
<1>10. ASSUME NEW o \in Messages \ {m, park}
       PROVE  Row(o)' /\ Settled(o)'
  <2>1. Row(o) /\ Settled(o)
    BY DEF RowInv
  <2>2. Row(o)'
    BY <1>2, <1>4, <1>6, <2>1 DEF Row
  <2>3. \A k \in Deliveries : ParksReminder(o) => (Started(<<o, k>>)' <=> Started(<<o, k>>))
    <3>1. ASSUME NEW k \in Deliveries, ParksReminder(o)
          PROVE  Started(<<o, k>>)' <=> Started(<<o, k>>)
      <4>1. <<o, k>> \in Reminders /\ <<o, k>> # park
        BY <3>1, MessageFacts
      <4> QED
        BY <1>5, <4>1
    <3> QED
      BY <3>1
  <2>4. Complete(o) => Complete(o)'
    BY <1>2, <2>3 DEF Complete
  <2>5. Settled(o)'
    BY <1>2, <1>4, <2>1, <2>4 DEF Settled
  <2> QED
    BY <2>2, <2>5
<1>11. RowInv'
  BY <1>7, <1>8, <1>9, <1>10 DEF RowInv
<1> QED
  BY <1>1, <1>3, <1>4, <1>11, MessageFacts

(* The link or the process is lost, and messages are given back.           *)
LEMMA LossMoves ==
  ASSUME DeliveryTyped, RowInv, NEW S \in SUBSET OnTheWire, LinkLost(S) \/ Crash(S)
  PROVE  RowInv' /\ \A r \in Reminders : Started(r)' <=> Started(r)
<1>1. /\ losses' = losses + 1 /\ losses \in Nat
      /\ UNCHANGED <<sent, failed>>
      /\ \A m \in Messages : /\ msg'[m] = IF msg[m] = "held" THEN "ready" ELSE msg[m]
                             /\ count'[m] = IF m \in S THEN count[m] + 1 ELSE count[m]
      /\ \A m \in S : msg[m] = "ready"
  BY DeliveryAssumption DEF LinkLost, Crash, GiveBack, OnTheWire, DeliveryTyped
<1>2. \A m \in Messages, n \in Deliveries : run'[m][n] = run[m][n] \/ run'[m][n] = 0
  BY DEF LinkLost, Crash
<1>3. \A m \in Messages : Started(m)' <=> Started(m)
  BY <1>1 DEF Started
<1>4. ASSUME NEW m \in Messages
      PROVE  Row(m)' /\ Settled(m)'
  <2>1. \A n \in Deliveries : ParksReminder(m) => (Started(<<m, n>>)' <=> Started(<<m, n>>))
    BY <1>3, MessageFacts
  <2>2. Parked(m)' = Parked(m)
    BY <2>1 DEF Parked
  <2>3. count[m] \in Nat /\ count'[m] \in Nat /\ count[m] <= count'[m]
    BY <1>1, RowTyped
  <2>4. Delivered(msg'[m], count'[m], run'[m], losses')
    <3>1. Delivered(msg[m], count[m], run[m], losses)
      BY RowTyped DEF Row
    <3>2. \A n \in Deliveries : run'[m][n] # 0 => n <= count'[m]
      BY <1>2, <2>3, <3>1 DEF Delivered, Deliveries
    <3>3. msg'[m] = "gone" => run'[m][count'[m]] = 0
      <4>1. ASSUME msg'[m] = "gone"
            PROVE  run'[m][count'[m]] = 0
        <5>1. msg[m] = "gone" /\ count'[m] = count[m]
          BY <1>1, <4>1
        <5>2. count[m] \in Deliveries /\ run[m][count[m]] = 0
          BY <1>1, <3>1, <5>1, RowTyped, DeliveryAssumption DEF Delivered, Deliveries
        <5> QED
          BY <1>2, <5>1, <5>2
      <4> QED
        BY <4>1
    <3>4. msg'[m] = "ready" => count'[m] <= losses' + 1
      BY <1>1, <2>3, <3>1 DEF Delivered
    <3>5. /\ msg'[m] \in {"unpublished", "waiting"} => count'[m] = 0
          /\ msg'[m] \in {"held", "gone"} => count'[m] \in 1..(losses' + 2)
      BY <1>1, <2>3, <3>1 DEF Delivered
    <3> QED
      BY <3>2, <3>3, <3>4, <3>5 DEF Delivered
  <2>5. Mailed(run'[m], sent'[m], count'[m], Parked(m))
    <3>1. \A i \in DOMAIN sent[m] :
            Past(run'[m], i) \subseteq Past(run[m], i) /\ Pending(run'[m], i) \subseteq Pending(run[m], i)
      BY <1>2, RowTyped DEF Past, Pending
    <3>2. \A i \in DOMAIN sent[m] :
            /\ Past(run'[m], i) \cup Parked(m) \subseteq Past(run[m], i) \cup Parked(m)
            /\ Pending(run'[m], i) \subseteq Pending(run[m], i)
      BY <3>1
    <3>3. Mailed(run[m], sent[m], count[m], Parked(m))
      BY RowTyped DEF Row
    <3> QED
      BY <1>1, <2>3, <3>2, <3>3, RowTyped, FewerRuns
  <2>6. \A n \in Parked(m) : run'[m][n] = 0 /\ n <= count'[m]
    BY <1>2, <2>3, RowTyped DEF Row, Deliveries
  <2>7. Row(m)'
    BY <2>2, <2>4, <2>5, <2>6 DEF Row
  <2>8. Complete(m) => Complete(m)'
    BY <1>1, <2>1 DEF Complete
  <2>9. Settled(m)'
    BY <1>1, <2>3, <2>8, RowTyped DEF Settled
  <2> QED
    BY <2>7, <2>9
<1> QED
  BY <1>3, <1>4, MessageFacts DEF RowInv

-----------------------------------------------------------------------------
(***************************************************************************)
(* The holding queue.                                                      *)
(***************************************************************************)

(* What is in the holding queue.                                           *)
LEMMA WaitingTyped ==
  ASSUME DeliveryTyped
  PROVE  /\ Len(waiting) \in Nat /\ DOMAIN waiting = 1..Len(waiting)
         /\ \A i \in DOMAIN waiting : waiting[i].id \in Reminders /\ waiting[i].due \in Nat
         /\ \A r \in Reminders : EventOf(r) \in Events /\ TripStart[EventOf(r)] \in Nat
         /\ now \in Nat /\ Lead \in Nat
<1> DEFINE Parking == [id : Reminders, due : Nat]
<1>1. waiting \in Seq(Parking)
  BY DEF DeliveryTyped
<1> HIDE DEF Parking
<1>2. Len(waiting) \in Nat /\ DOMAIN waiting = 1..Len(waiting)
  BY <1>1
<1>5. \A i \in DOMAIN waiting : waiting[i] \in Parking
  BY <1>1, <1>2
<1>6. \A x \in Parking : x.id \in Reminders /\ x.due \in Nat
  BY DEF Parking
<1>3. \A r \in Reminders : EventOf(r) \in Events /\ TripStart[EventOf(r)] \in Nat
  BY MessageFacts, DeliveryAssumption
<1>4. now \in Nat /\ Lead \in Nat
  BY DeliveryAssumption DEF DeliveryTyped
<1> QED
  BY <1>2, <1>3, <1>4, <1>5, <1>6

(* Steps that leave the holding queue and what waits in it alone.          *)
LEMMA QueueKeeps ==
  ASSUME DeliveryTyped, QueueInv, waiting' = waiting, now' \in {now, now + 1},
         \A r \in Reminders : /\ msg[r] = "waiting" => msg'[r] = "waiting"
                              /\ msg'[r] \in {"ready", "held", "gone"} =>
                                   msg[r] \in {"ready", "held", "gone"}
  PROVE  QueueInv'
BY WaitingTyped DEF QueueInv

(* ... which a delivery, a throw and an ack are.                           *)
LEMMA MessageKeepsQueue ==
  ASSUME DeliveryTyped, QueueInv, waiting' = waiting, now' = now, NEW m \in Messages,
         \A o \in Messages \ {m} : msg'[o] = msg[o],
         \/ msg'[m] = msg[m]
         \/ m \in Events
         \/ msg[m] \in {"ready", "held"} /\ msg'[m] \in {"ready", "held", "gone"}
  PROVE  QueueInv'
<1>1. \A r \in Reminders : r \in Messages /\ r \notin Events
  BY MessageFacts
<1>2. \A r \in Reminders : /\ msg[r] = "waiting" => msg'[r] = "waiting"
                           /\ msg'[r] \in {"ready", "held", "gone"} =>
                                msg[r] \in {"ready", "held", "gone"}
  BY <1>1
<1> QED
  BY <1>2, QueueKeeps

(* The head of the holding queue expires.                                  *)
LEMMA ExpireMoves ==
  ASSUME EmailInv, Expire
  PROVE  RowInv' /\ QueueInv'
<1> USE DEF EmailInv
<1> DEFINE m == Head(waiting).id
<1>1. /\ waiting # <<>> /\ waiting' = Tail(waiting) /\ now' = now
      /\ Head(waiting).due <= now /\ msg' = [msg EXCEPT ![m] = "ready"]
      /\ UNCHANGED <<count, run, sent, failed, losses>>
  BY DEF Expire
<1>2. 1 \in DOMAIN waiting /\ Head(waiting) = waiting[1]
  BY <1>1, WaitingTyped
<1>3. m \in Reminders /\ m \in Messages /\ msg[m] = "waiting"
  BY <1>2, WaitingTyped, MessageFacts DEF QueueInv
<1>4. RowInv'
  <2> HIDE DEF m
  <2> QED
    BY <1>1, <1>3, AppearMoves
<1>5. now + Lead >= TripStart[EventOf(m)]
  <2>1. waiting[1].due + Lead >= TripStart[EventOf(m)] /\ waiting[1].due <= now
    BY <1>1, <1>2 DEF QueueInv
  <2>2. waiting[1].due \in Nat /\ TripStart[EventOf(m)] \in Nat
    BY <1>2, <1>3, WaitingTyped
  <2> QED
    BY <2>1, <2>2, WaitingTyped
<1>6. \A i \in DOMAIN waiting' : i + 1 \in DOMAIN waiting /\ waiting'[i] = waiting[i + 1] /\ i \in Nat
  BY <1>1, WaitingTyped DEF DeliveryTyped
<1>7. \A o \in Messages : msg'[o] = IF o = m THEN "ready" ELSE msg[o]
  BY <1>1, <1>3 DEF DeliveryTyped
<1>8. \A i \in DOMAIN waiting' : waiting'[i].id # m
  <2>1. ASSUME NEW i \in DOMAIN waiting', waiting'[i].id = m
        PROVE  FALSE
    <3>1. i + 1 \in DOMAIN waiting /\ waiting[i + 1].id = waiting[1].id /\ i \in Nat /\ i # 0
      BY <1>1, <1>2, <1>6, <2>1, WaitingTyped DEF DeliveryTyped
    <3>2. i + 1 = 1
      BY <1>2, <3>1 DEF QueueInv
    <3> QED
      BY <3>1, <3>2
  <2> QED
    BY <2>1
<1>9. \A i \in DOMAIN waiting' :
        /\ msg'[waiting'[i].id] = "waiting"
        /\ waiting'[i].due + Lead >= TripStart[EventOf(waiting'[i].id)]
  <2>1. ASSUME NEW i \in DOMAIN waiting'
        PROVE  /\ msg'[waiting'[i].id] = "waiting"
               /\ waiting'[i].due + Lead >= TripStart[EventOf(waiting'[i].id)]
    <3>1. i + 1 \in DOMAIN waiting /\ waiting'[i] = waiting[i + 1]
      BY <1>6
    <3>2. waiting'[i].id \in Messages
      BY <3>1, WaitingTyped, MessageFacts
    <3> QED
      BY <1>7, <1>8, <3>1, <3>2 DEF QueueInv
  <2> QED
    BY <2>1
<1>10. \A i, j \in DOMAIN waiting' : waiting'[i].id = waiting'[j].id => i = j
  <2>1. ASSUME NEW i \in DOMAIN waiting', NEW j \in DOMAIN waiting', waiting'[i].id = waiting'[j].id
        PROVE  i = j
    <3>1. i + 1 = j + 1 /\ i \in Nat /\ j \in Nat
      BY <1>6, <2>1 DEF QueueInv
    <3> QED
      BY <3>1
  <2> QED
    BY <2>1
<1>11. \A r \in Reminders :
         msg'[r] \in {"ready", "held", "gone"} => now' + Lead >= TripStart[EventOf(r)]
  BY <1>1, <1>5, <1>7, MessageFacts DEF QueueInv
<1> QED
  BY <1>4, <1>9, <1>10, <1>11 DEF QueueInv

(* A reminder is parked at the tail.                                       *)
LEMMA ParkQueues ==
  ASSUME EmailInv, NEW m \in Messages, NEW n \in Deliveries, ScheduleReminder(m, n)
  PROVE  QueueInv'
<1> USE DEF EmailInv
<1> DEFINE park == <<m, n>>
           new == [id |-> park, due |-> DueAt(m)]
<1>1. /\ msg[park] = "unpublished" /\ msg'[park] = "waiting"
      /\ \A r \in Reminders : r # park => msg'[r] = msg[r]
  BY ParkMoves
<1>2. park \in Reminders /\ EventOf(park) = m
  BY MessageFacts DEF ScheduleReminder
<1>3. waiting' = Append(waiting, new) /\ now' = now
  BY DEF ScheduleReminder
<1>4. new.id = park /\ new.due + Lead >= TripStart[m]
  BY ParkTyped
<1> HIDE DEF park, new
<1>5. /\ DOMAIN waiting' = DOMAIN waiting \cup {Len(waiting) + 1} /\ Len(waiting) + 1 \notin DOMAIN waiting
      /\ \A i \in DOMAIN waiting : waiting'[i] = waiting[i]
      /\ waiting'[Len(waiting) + 1] = new
  BY <1>3, WaitingTyped DEF DeliveryTyped
<1>6. \A i \in DOMAIN waiting : waiting[i].id \in Reminders /\ waiting[i].id # park
  BY <1>1, WaitingTyped DEF QueueInv
<1>7. \A i \in DOMAIN waiting' :
        /\ msg'[waiting'[i].id] = "waiting"
        /\ waiting'[i].due + Lead >= TripStart[EventOf(waiting'[i].id)]
  <2>1. \A i \in DOMAIN waiting :
          /\ msg'[waiting'[i].id] = "waiting"
          /\ waiting'[i].due + Lead >= TripStart[EventOf(waiting'[i].id)]
    BY <1>1, <1>5, <1>6 DEF QueueInv
  <2>2. msg'[new.id] = "waiting" /\ new.due + Lead >= TripStart[EventOf(new.id)]
    BY <1>1, <1>2, <1>4
  <2> QED
    BY <1>5, <2>1, <2>2
<1>8. \A i, j \in DOMAIN waiting' : waiting'[i].id = waiting'[j].id => i = j
  BY <1>4, <1>5, <1>6 DEF QueueInv
<1>9. \A r \in Reminders :
        msg'[r] \in {"ready", "held", "gone"} => now' + Lead >= TripStart[EventOf(r)]
  BY <1>1, <1>3 DEF QueueInv
<1> QED
  BY <1>7, <1>8, <1>9 DEF QueueInv

-----------------------------------------------------------------------------
(***************************************************************************)
(* The theorems.                                                           *)
(***************************************************************************)

(* Nothing is published and nothing runs.                                  *)
LEMMA InitInv == Init => EmailInv
<1> SUFFICES ASSUME Init PROVE EmailInv
  OBVIOUS
<1>1. \A m \in Messages : Finishing(m) \in Nat /\ 0 \in 0..Finishing(m)
  BY MessageFacts DEF Finishing
<1>2. run \in [Messages -> [Deliveries -> Nat]]
  BY DEF Init
<1>3. \A m \in Messages : run[m] \in [Deliveries -> 0..Finishing(m)]
  BY <1>1 DEF Init
<1>4. DOMAIN sent = Messages /\ \A m \in Messages : sent[m] \in [DOMAIN Recipients(m) -> Nat]
  BY DEF Init
<1>5. waiting \in Seq([id : Reminders, due : Nat]) /\ DOMAIN waiting = {}
  BY DEF Init
<1>6. Link!LinkTypeOK
  BY DEF Init, Link!LinkInit, Link!LinkTypeOK
<1>7. DeliveryTyped
  BY <1>2, <1>3, <1>4, <1>5, <1>6, DeliveryAssumption DEF Init, DeliveryTyped
<1>8. ASSUME NEW m \in Messages
      PROVE  Row(m) /\ Settled(m)
  <2>1. /\ msg[m] = "unpublished" /\ count[m] = 0
        /\ \A n \in Deliveries : run[m][n] = 0
        /\ \A i \in DOMAIN sent[m] : sent[m][i] = 0
    BY DEF Init
  <2>2. Parked(m) = {}
    <3>1. \A n \in Deliveries : ParksReminder(m) => ~Started(<<m, n>>)
      BY MessageFacts DEF Init, Started
    <3> QED
      BY <3>1 DEF Parked
  <2>3. \A i \in DOMAIN sent[m] : i \in Nat /\ Past(run[m], i) = {} /\ Pending(run[m], i) = {}
    BY <1>4, <2>1, MessageFacts DEF Past, Pending
  <2>6. Cardinality({}) = 0 /\ \A i \in DOMAIN sent[m] : Past(run[m], i) \cup {} = {}
    BY <2>3, FS_EmptySet
  <2>4. Mailed(run[m], sent[m], count[m], {})
    BY <2>1, <2>3, <2>6 DEF Mailed
  <2>5. Delivered(msg[m], count[m], run[m], losses)
    BY <2>1 DEF Delivered
  <2> QED
    BY <2>1, <2>2, <2>4, <2>5 DEF Row, Settled
<1>9. QueueInv
  BY <1>5, MessageFacts DEF QueueInv, Init
<1> QED
  BY <1>7, <1>8, <1>9 DEF EmailInv, RowInv

(* Every step keeps the invariant.                                         *)
LEMMA InvStep == EmailInv /\ [Next]_vars => EmailInv'
<1> SUFFICES ASSUME EmailInv, [Next]_vars PROVE EmailInv'
  OBVIOUS
<1> USE DEF EmailInv
<1>1. DeliveryTyped'
  BY TypedStep
<1>2. ASSUME UNCHANGED <<msg, count, run, sent, failed, losses, waiting>>, now' \in {now, now + 1}
      PROVE  RowInv' /\ QueueInv'
  <2>1. RowInv'
    BY <1>2 DEF RowInv, Row, Parked, Started, Settled, Complete
  <2> QED
    BY <1>2, <2>1, QueueKeeps
<1>3. ASSUME UNCHANGED vars \/ Tick \/ LinkStep
      PROVE  RowInv' /\ QueueInv'
  <2>1. UNCHANGED <<msg, count, run, sent, failed, losses, waiting>> /\ now' \in {now, now + 1}
    BY <1>3 DEF vars, linkVars, queueVars, Tick, LinkStep, Connect, LinkResumed, Subscribe,
       ReplayConsumer
  <2> QED
    BY <1>2, <2>1
<1>4. ASSUME NEW e \in Events, Publish(e)
      PROVE  RowInv' /\ QueueInv'
  <2>1. e \in Messages /\ e \notin Reminders
    BY NamesAssumption DEF Messages
  <2>2. RowInv'
    BY <1>4, <2>1, AppearMoves DEF Publish
  <2>3. \A o \in Messages \ {e} : msg'[o] = msg[o]
    BY <1>4 DEF Publish, DeliveryTyped
  <2> QED
    BY <1>4, <2>1, <2>2, <2>3, MessageKeepsQueue DEF Publish
<1>5. ASSUME NEW m \in Messages, Deliver(m)
      PROVE  RowInv' /\ QueueInv'
  <2>1. /\ \A o \in Messages \ {m} : msg'[o] = msg[o]
        /\ msg[m] = "ready" /\ msg'[m] = "held" /\ waiting' = waiting /\ now' = now
    BY <1>5 DEF Deliver, DeliveryTyped
  <2> QED
    BY <1>5, <2>1, DeliverMoves, MessageKeepsQueue
<1>6. ASSUME NEW m \in Messages, NEW n \in Deliveries, Throw(m, n), now' = now
      PROVE  QueueInv'
  <2>1. /\ \A o \in Messages \ {m} : msg'[o] = msg[o]
        /\ waiting' = waiting
        /\ msg'[m] = msg[m] \/ (msg[m] = "held" /\ msg'[m] \in {"ready", "gone"})
    BY <1>6 DEF Throw, DeliveryTyped, Holds, AfterThrow
  <2> QED
    BY <1>6, <2>1, MessageKeepsQueue
<1>7. ASSUME NEW m \in Messages, NEW n \in Deliveries,
             ParseFails(m, n) \/ SendRefused(m, n) \/ ScheduleReminderFails(m, n)
      PROVE  RowInv' /\ QueueInv'
  <2>1. Throw(m, n) /\ now' = now
    BY <1>7 DEF ParseFails, SendRefused, ScheduleReminderFails
  <2> QED
    BY <1>6, <1>7, <2>1, ErrorMoves
<1>8. ASSUME NEW m \in Messages, NEW n \in Deliveries, SendFails(m, n)
      PROVE  RowInv' /\ QueueInv'
  <2>1. Throw(m, n) /\ now' = now
    BY <1>8 DEF SendFails
  <2> QED
    BY <1>6, <1>8, <2>1, SendFailsMoves
<1>9. ASSUME NEW m \in Messages, NEW n \in Deliveries, SendMail(m, n)
      PROVE  RowInv' /\ QueueInv'
  <2>1. msg' = msg /\ waiting' = waiting /\ now' = now
    BY <1>9 DEF SendMail, queueVars
  <2> QED
    BY <1>9, <2>1, SendMoves, QueueKeeps
<1>10. ASSUME NEW m \in Messages, NEW n \in Deliveries, Finish(m, n)
       PROVE  RowInv' /\ QueueInv'
  <2>1. /\ \A o \in Messages \ {m} : msg'[o] = msg[o]
        /\ waiting' = waiting /\ now' = now
        /\ msg'[m] = msg[m] \/ (msg[m] = "held" /\ msg'[m] = "gone")
    BY <1>10 DEF Finish, Ack, Holds, DeliveryTyped
  <2> QED
    BY <1>10, <2>1, FinishMoves, MessageKeepsQueue
<1>11. ASSUME NEW m \in Messages, NEW n \in Deliveries, ScheduleReminder(m, n)
       PROVE  RowInv' /\ QueueInv'
  BY <1>11, ParkMoves, ParkQueues
<1>12. ASSUME Expire
       PROVE  RowInv' /\ QueueInv'
  BY <1>12, ExpireMoves
<1>13. ASSUME NEW S \in SUBSET OnTheWire, LinkLost(S) \/ Crash(S)
       PROVE  RowInv' /\ QueueInv'
  <2>1. /\ waiting' = waiting /\ now' = now
        /\ \A m \in Messages : msg'[m] = IF msg[m] = "held" THEN "ready" ELSE msg[m]
    BY <1>13 DEF LinkLost, Crash, GiveBack
  <2>2. \A r \in Reminders : r \in Messages
    BY MessageFacts
  <2>3. QueueInv'
    BY <2>1, <2>2, QueueKeeps
  <2> QED
    BY <1>13, <2>3, LossMoves
<1>14. RowInv' /\ QueueInv'
  BY <1>3, <1>4, <1>5, <1>7, <1>8, <1>9, <1>10, <1>11, <1>12, <1>13 DEF Next, HandlerStep
<1> QED
  BY <1>1, <1>14

(* Messages, runs, mails and the holding queue keep their types; RabbitMQ  *)
(* delivers no message more than twice as often as losses and its one      *)
(* retry make it (broker.ts:147-175).                                      *)
THEOREM TypeSafety == Spec => []TypeOK
<1>1. EmailInv => TypeOK
  <2> SUFFICES ASSUME EmailInv PROVE TypeOK
    OBVIOUS
  <2>1. \A m \in Messages : count[m] \in 0..(MaxLosses + 2)
    <3>1. ASSUME NEW m \in Messages
          PROVE  count[m] \in 0..(MaxLosses + 2)
      <4>1. Delivered(msg[m], count[m], run[m], losses)
        BY DEF EmailInv, RowInv, Row
      <4>2. losses \in 0..MaxLosses /\ MaxLosses \in Nat /\ count[m] \in Nat
        BY DeliveryAssumption DEF EmailInv, DeliveryTyped
      <4>3. msg[m] \in {"unpublished", "waiting", "ready", "held", "gone"}
        BY DEF EmailInv, DeliveryTyped
      <4> QED
        BY <4>1, <4>2, <4>3 DEF Delivered
    <3> QED
      BY <3>1
  <2>2. count \in [Messages -> 0..(MaxLosses + 2)]
    BY <2>1 DEF EmailInv, DeliveryTyped
  <2>3. \A i \in DOMAIN waiting : waiting[i].id \in Reminders /\ waiting[i].due \in Nat
    BY WaitingTyped DEF EmailInv
  <2> QED
    BY <2>2, <2>3 DEF EmailInv, DeliveryTyped, TypeOK
<1> QED
  BY <1>1, InitInv, InvStep, PTL DEF Spec

(* At-least-once: a message leaves its queue by the handler run of its     *)
(* last delivery, never by one that outlived its connection, and           *)
(* unfinished only as poison, after a run that threw, on a delivery that   *)
(* was not the first (handlers.ts:19-27, broker.ts:131-171).               *)
THEOREM MessagesLeaveDone == Spec => []LeavesOnlyDoneOrPoison
<1>1. EmailInv => LeavesOnlyDoneOrPoison
  BY DEF EmailInv, RowInv, Row, Delivered, Settled, LeavesOnlyDoneOrPoison
<1> QED
  BY <1>1, InitInv, InvStep, PTL DEF Spec

(* Nobody is mailed more often than the message was delivered, however     *)
(* many runs of it overlap: duplicates come from redelivery and from       *)
(* nothing else (handlers.ts:25-27).                                       *)
THEOREM DuplicatesAreRedeliveries == Spec => []DuplicatesNeedRedelivery
<1>1. EmailInv => DuplicatesNeedRedelivery
  <2> SUFFICES ASSUME EmailInv, NEW m \in Messages, NEW i \in DOMAIN Recipients(m)
               PROVE  sent[m][i] <= count[m]
    BY DEF DuplicatesNeedRedelivery
  <2>1. /\ Mailed(run[m], sent[m], count[m], Parked(m)) /\ i \in DOMAIN sent[m]
        /\ sent[m][i] \in Nat /\ count[m] \in Nat
    BY RowTyped DEF EmailInv, Row
  <2>2. sent[m][i] + Cardinality(Pending(run[m], i)) <= count[m]
    BY <2>1 DEF Mailed
  <2>3. Cardinality(Pending(run[m], i)) \in Nat
    <3>1. {} \in SUBSET Deliveries
      OBVIOUS
    <3> QED
      BY <3>1, RunsFinite
  <2> QED
    BY <2>1, <2>2, <2>3
<1> QED
  BY <1>1, InitInv, InvStep, PTL DEF Spec

(* Every reminder was preceded by a confirmation of its own to everybody,  *)
(* and one that is out of the holding queue is within Lead of the trip     *)
(* (handlers.ts:60-61, events.ts:80-96, broker.ts:31-33).                  *)
THEOREM RemindersFollow == Spec => []ReminderAfterConfirmation
<1>1. EmailInv => ReminderAfterConfirmation
  <2> SUFFICES ASSUME EmailInv PROVE ReminderAfterConfirmation
    OBVIOUS
  <2>1. ASSUME NEW e \in Events, Kind[e] = "created", NEW i \in DOMAIN Recipients(e)
        PROVE  sent[e][i] >= Cardinality({n \in Deliveries : Started(<<e, n>>)})
    <3>1. e \in Messages /\ ParksReminder(e)
      BY <2>1 DEF Messages, ParksReminder, EventOf
    <3>2. Parked(e) = {n \in Deliveries : Started(<<e, n>>)}
      BY <3>1 DEF Parked
    <3>3. /\ Mailed(run[e], sent[e], count[e], Parked(e)) /\ i \in DOMAIN sent[e]
          /\ sent[e][i] \in Nat /\ Parked(e) \in SUBSET Deliveries
      BY <3>1, RowTyped DEF EmailInv, Row
    <3>4. sent[e][i] >= Cardinality(Past(run[e], i) \cup Parked(e))
      BY <3>3 DEF Mailed
    <3>5. /\ IsFiniteSet(Past(run[e], i) \cup Parked(e))
          /\ Cardinality(Past(run[e], i) \cup Parked(e)) \in Nat
      BY <3>3, RunsFinite
    <3>6. /\ Cardinality(Parked(e)) <= Cardinality(Past(run[e], i) \cup Parked(e))
          /\ Cardinality(Parked(e)) \in Nat
      BY <3>5, FS_Subset, FS_CardinalityType
    <3>7. sent[e][i] >= Cardinality(Parked(e))
      BY <3>3, <3>4, <3>5, <3>6
    <3> QED
      BY <3>2, <3>7
  <2>2. \A r \in Reminders :
          msg[r] \in {"ready", "held", "gone"} => now + Lead >= TripStart[EventOf(r)]
    BY DEF EmailInv, QueueInv
  <2> QED
    BY <2>1, <2>2 DEF ReminderAfterConfirmation
<1> QED
  BY <1>1, InitInv, InvStep, PTL DEF Spec

=============================================================================
