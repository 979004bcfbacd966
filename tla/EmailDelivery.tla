---------------------------- MODULE EmailDelivery ----------------------------
(***************************************************************************)
(* email-service on top of its broker link: RabbitMQ's queues, deliveries  *)
(* and redeliveries (broker.ts:147-175), the handlers that send mail       *)
(* (handlers.ts) and the reminder that is parked with a TTL and comes back *)
(* as a message of its own (broker.ts:288-310, events.ts:80-96).           *)
(*                                                                         *)
(* A delivery is one run of a handler.  The handler awaits SMTP, so it may *)
(* outlive the connection its message came by: it then goes on, its ack    *)
(* fails on the dead channel, and RabbitMQ has already given the message   *)
(* back to be delivered again.  SMTP accepting a mail and the handler      *)
(* going on are two steps.                                                 *)
(***************************************************************************)
EXTENDS Naturals, Sequences, FiniteSets

CONSTANTS
  Events,         \* notifications that can be published
  Kind,           \* [Events -> {"created", "shared", "invited"}]
  To,             \* [Events -> Seq(Addresses)]: ownerEmail, recipientEmails, email
  Fallback,       \* OWNER_EMAIL_FALLBACK
  BadAddresses,   \* addresses SMTP refuses
  Malformed,      \* events whose payload fails its schema
  TripStart,      \* [Events -> Nat]: start date of a created itinerary; 0 stands for
                  \* one that is no date
  Lead,           \* REMINDER_HOURS_BEFORE_TRIP, in units of the clock
  MaxPublished,   \* bound: how many of them are
  MaxTime,        \* bound of the clock
  MaxLosses,      \* bound: connection losses and crashes
  MaxSmtpFaults   \* bound: transient SMTP failures

ASSUME DeliveryAssumption ==
  /\ Kind \in [Events -> {"created", "shared", "invited"}]
  /\ DOMAIN To = Events
  /\ \A e \in Events : Len(To[e]) \in Nat /\ DOMAIN To[e] = 1..Len(To[e])
  /\ Malformed \subseteq Events
  /\ TripStart \in [Events -> Nat]
  /\ {Lead, MaxPublished, MaxTime, MaxLosses, MaxSmtpFaults} \subseteq Nat

VARIABLES
  stage, live, registered,  \* the broker link (ServiceLink)
  msg,         \* where each message is
  count,       \* deliveries of it so far; every one but the first is flagged redelivered
  run,         \* step of each handler run, 0 when it is over or never began
  waiting,     \* reminders.waiting, from the head
  sent,        \* mails SMTP accepted, by message and recipient
  failed,      \* handler runs that threw, by message
  now,
  losses, smtpFaults

linkVars == <<stage, live, registered>>
queueVars == <<msg, count, waiting>>
vars == <<linkVars, queueVars, run, sent, failed, now, losses, smtpFaults>>

EmailEvents  == "email.events"
RemindersDue == "reminders.due"
EmailQueues  == {EmailEvents, RemindersDue}

Link == INSTANCE ServiceLink WITH Queues <- EmailQueues

(* A connection loss or a crash, or the one retry after a failure, precedes *)
(* every delivery but the first, so there are no more than these.           *)
Deliveries == 1..(MaxLosses + 2)

(* A reminder is named after the handler run that parked it.               *)
Reminders == {e \in Events : Kind[e] = "created"} \X Deliveries
Messages  == Events \cup Reminders

ASSUME NamesAssumption == Events \cap Reminders = {}

EventOf(m) == IF m \in Events THEN m ELSE m[1]
QueueOf(m) == IF m \in Events THEN EmailEvents ELSE RemindersDue

(* Whom a handler mails.  The owner's address rides on the event or is the *)
(* configured fallback.                                                    *)
Recipients(m) ==
  IF Kind[EventOf(m)] = "created" /\ To[EventOf(m)] = <<>>
  THEN <<Fallback>> ELSE To[EventOf(m)]

FinishingAtOnce(m) == 1
Finishing(m) == Len(Recipients(m)) + 1

(* Only the handler of itinerary.created parks a reminder when it is done. *)
ParksReminder(m) == m \in Events /\ Kind[EventOf(m)] = "created"

TypeOK ==
  /\ Link!LinkTypeOK
  /\ msg \in [Messages -> {"unpublished", "waiting", "ready", "held", "gone"}]
  /\ count \in [Messages -> 0..(MaxLosses + 2)]
  /\ \A m \in Messages : run[m] \in [Deliveries -> 0..Finishing(m)]
  /\ \A i \in DOMAIN waiting : waiting[i].id \in Reminders /\ waiting[i].due \in Nat
  /\ \A m \in Messages : sent[m] \in [DOMAIN Recipients(m) -> Nat]
  /\ failed \in [Messages -> Nat]
  /\ now \in 0..MaxTime /\ losses \in 0..MaxLosses /\ smtpFaults \in 0..MaxSmtpFaults

Init ==
  /\ Link!LinkInit
  /\ msg = [m \in Messages |-> "unpublished"]
  /\ count = [m \in Messages |-> 0]
  /\ run = [m \in Messages |-> [n \in Deliveries |-> 0]]
  /\ waiting = <<>>
  /\ sent = [m \in Messages |-> [i \in DOMAIN Recipients(m) |-> 0]]
  /\ failed = [m \in Messages |-> 0]
  /\ now = 0 /\ losses = 0 /\ smtpFaults = 0

-----------------------------------------------------------------------------
(* RabbitMQ and the clock.                                                 *)

Publish(e) ==
  /\ msg[e] = "unpublished"
  /\ Cardinality({d \in Events : msg[d] # "unpublished"}) < MaxPublished
  /\ msg' = [msg EXCEPT ![e] = "ready"]
  /\ UNCHANGED <<linkVars, count, waiting, run, sent, failed, now, losses, smtpFaults>>

Tick ==
  /\ now < MaxTime
  /\ now' = now + 1
  /\ UNCHANGED <<linkVars, queueVars, run, sent, failed, losses, smtpFaults>>

(* Messages expire from the head of reminders.waiting only, and are dead-  *)
(* lettered into reminders.due.                                            *)
Expire ==
  /\ waiting # <<>>
  /\ Head(waiting).due <= now
  /\ waiting' = Tail(waiting)
  /\ msg' = [msg EXCEPT ![Head(waiting).id] = "ready"]
  /\ UNCHANGED <<linkVars, count, run, sent, failed, now, losses, smtpFaults>>

(* No prefetch limit is set: every ready message of a live queue comes.    *)
Deliver(m) ==
  /\ msg[m] = "ready"
  /\ QueueOf(m) \in live
  /\ msg' = [msg EXCEPT ![m] = "held"]
  /\ count' = [count EXCEPT ![m] = @ + 1]
  /\ run' = [run EXCEPT ![m][count[m] + 1] = 1]
  /\ UNCHANGED <<linkVars, waiting, sent, failed, now, losses, smtpFaults>>

(* RabbitMQ gives everything unacknowledged back to its queue.  Deliveries *)
(* of S were still on the wire: no handler ran, but they count.            *)
GiveBack(S) ==
  /\ msg' = [m \in Messages |-> IF msg[m] = "held" THEN "ready" ELSE msg[m]]
  /\ count' = [m \in Messages |-> IF m \in S THEN count[m] + 1 ELSE count[m]]
  /\ UNCHANGED waiting

OnTheWire == {m \in Messages : msg[m] = "ready" /\ QueueOf(m) \in live}

-----------------------------------------------------------------------------
(* The handlers.                                                           *)

(* May handler run n of m still ack or nack?  Only while the channel its   *)
(* message came by lives; otherwise safeAck swallows the failure.          *)
Holds(m, n) == msg[m] = "held" /\ n = count[m]

Ack(m, n) == [msg EXCEPT ![m] = IF Holds(m, n) THEN "gone" ELSE @]

(* A handler threw: one retry on a first delivery, else the message goes.  *)
AfterThrowDropsFirst(m, n) == "gone"
AfterThrowRequeues(m, n) == "ready"
AfterThrow(m, n) == IF n = 1 THEN "ready" ELSE "gone"

Throw(m, n) ==
  /\ run' = [run EXCEPT ![m][n] = 0]
  /\ failed' = [failed EXCEPT ![m] = @ + 1]
  /\ msg' = [msg EXCEPT ![m] = IF Holds(m, n) THEN AfterThrow(m, n) ELSE @]
  /\ UNCHANGED waiting

Sending(m, n) == run[m][n] \in DOMAIN Recipients(m) /\ EventOf(m) \notin Malformed

(* parseEvent rejects the payload.                                         *)
ParseFails(m, n) ==
  /\ run[m][n] = 1
  /\ EventOf(m) \in Malformed
  /\ Throw(m, n)
  /\ UNCHANGED <<linkVars, count, sent, now, losses, smtpFaults>>

(* SMTP accepts the mail to the next recipient.                            *)
SendMail(m, n) ==
  /\ Sending(m, n)
  /\ Recipients(m)[run[m][n]] \notin BadAddresses
  /\ sent' = [sent EXCEPT ![m][run[m][n]] = @ + 1]
  /\ run' = [run EXCEPT ![m][n] = @ + 1]
  /\ UNCHANGED <<linkVars, queueVars, failed, now, losses, smtpFaults>>

(* SMTP refuses it for good.                                               *)
SendRefused(m, n) ==
  /\ Sending(m, n)
  /\ Recipients(m)[run[m][n]] \in BadAddresses
  /\ Throw(m, n)
  /\ UNCHANGED <<linkVars, count, sent, now, losses, smtpFaults>>

(* SMTP fails for the moment; it may have accepted the mail all the same.  *)
SendFailsRetriesInPlace(m, n) ==
  /\ Sending(m, n)
  /\ Recipients(m)[run[m][n]] \notin BadAddresses
  /\ smtpFaults < MaxSmtpFaults
  /\ smtpFaults' = smtpFaults + 1
  /\ \E accepted \in {0, 1} : sent' = [sent EXCEPT ![m][run[m][n]] = @ + accepted]
  /\ UNCHANGED <<linkVars, queueVars, run, failed, now, losses>>

SendFails(m, n) ==
  /\ Sending(m, n)
  /\ Recipients(m)[run[m][n]] \notin BadAddresses
  /\ smtpFaults < MaxSmtpFaults
  /\ smtpFaults' = smtpFaults + 1
  /\ \E accepted \in {0, 1} : sent' = [sent EXCEPT ![m][run[m][n]] = @ + accepted]
  /\ Throw(m, n)
  /\ UNCHANGED <<linkVars, count, now, losses>>

(* reminderDelayMs: the reminder is due Lead before the trip, at once when *)
(* that moment has passed or the date cannot be read.                      *)
DueAt(e) == IF TripStart[e] > now + Lead THEN TripStart[e] - Lead ELSE now

(* scheduleReminder parks the reminder, and the message is acked.          *)
ScheduleReminder(m, n) ==
  /\ ParksReminder(m)
  /\ run[m][n] = Finishing(m)
  /\ Link!Publishable
  /\ waiting' = Append(waiting, [id |-> <<m, n>>, due |-> DueAt(m)])
  /\ msg' = [Ack(m, n) EXCEPT ![<<m, n>>] = "waiting"]
  /\ run' = [run EXCEPT ![m][n] = 0]
  /\ UNCHANGED <<linkVars, count, sent, failed, now, losses, smtpFaults>>

(* There is no channel: scheduleReminder throws into the retry logic.      *)
ScheduleReminderFails(m, n) ==
  /\ ParksReminder(m)
  /\ run[m][n] = Finishing(m)
  /\ ~Link!Publishable
  /\ Throw(m, n)
  /\ UNCHANGED <<linkVars, count, sent, now, losses, smtpFaults>>

(* The other handlers are done after their last mail.                      *)
Finish(m, n) ==
  /\ ~ParksReminder(m)
  /\ run[m][n] = Finishing(m)
  /\ EventOf(m) \notin Malformed
  /\ msg' = Ack(m, n)
  /\ run' = [run EXCEPT ![m][n] = 0]
  /\ UNCHANGED <<linkVars, count, waiting, sent, failed, now, losses, smtpFaults>>

-----------------------------------------------------------------------------
(* The link and the process.                                               *)

(* connectAndConsume: a broker, then the two consumers in this order.      *)
Connect ==
  /\ Link!Opened
  /\ UNCHANGED <<queueVars, run, sent, failed, now, losses, smtpFaults>>

Subscribe(q) ==
  /\ q = EmailEvents \/ EmailEvents \in registered
  /\ Link!Register(q)
  /\ UNCHANGED <<queueVars, run, sent, failed, now, losses, smtpFaults>>

(* The connection is lost.  A broker that was still being wired is closed  *)
(* and replaced; a wired one recovers by itself.                           *)
LinkLost(S) ==
  /\ losses < MaxLosses
  /\ losses' = losses + 1
  /\ \/ registered = EmailQueues /\ (Link!Lost \/ Link!ReplayLost)
     \/ /\ registered # EmailQueues
        /\ stage = "up"
        /\ stage' = "starting" /\ live' = {} /\ registered' = {}
  /\ S \subseteq OnTheWire
  /\ GiveBack(S)
  /\ UNCHANGED <<run, sent, failed, now, smtpFaults>>

ReplayConsumer(q) ==
  /\ Link!Replay(q)
  /\ UNCHANGED <<queueVars, run, sent, failed, now, losses, smtpFaults>>

LinkResumed ==
  /\ Link!Resumed
  /\ UNCHANGED <<queueVars, run, sent, failed, now, losses, smtpFaults>>

(* The process dies, by a crash or by SIGTERM's process.exit: its handlers *)
(* die with it, wherever they are, and a new process starts.               *)
Crash(S) ==
  /\ losses < MaxLosses
  /\ losses' = losses + 1
  /\ stage' = "starting" /\ live' = {} /\ registered' = {}
  /\ run' = [m \in Messages |-> [n \in Deliveries |-> 0]]
  /\ S \subseteq OnTheWire
  /\ GiveBack(S)
  /\ UNCHANGED <<sent, failed, now, smtpFaults>>

-----------------------------------------------------------------------------
HandlerStep(m, n) ==
  \/ ParseFails(m, n)
  \/ SendMail(m, n) \/ SendRefused(m, n)
  \/ ScheduleReminder(m, n) \/ ScheduleReminderFails(m, n) \/ Finish(m, n)

LinkStep ==
  \/ Connect \/ LinkResumed
  \/ \E q \in EmailQueues : Subscribe(q) \/ ReplayConsumer(q)

Next ==
  \/ \E e \in Events : Publish(e)
  \/ \E m \in Messages : Deliver(m)
  \/ \E m \in Messages, n \in Deliveries : HandlerStep(m, n) \/ SendFails(m, n)
  \/ Tick \/ Expire \/ LinkStep
  \/ \E S \in SUBSET OnTheWire : LinkLost(S) \/ Crash(S)

Spec == Init /\ [][Next]_vars

(* Handlers go on, RabbitMQ delivers, time passes, the link comes back.    *)
(* Nothing is asked about which handler or which message comes first.      *)
Fairness ==
  /\ WF_vars(\E m \in Messages : Deliver(m))
  /\ WF_vars(\E m \in Messages, n \in Deliveries : HandlerStep(m, n))
  /\ WF_vars(Tick) /\ WF_vars(Expire) /\ WF_vars(LinkStep)

FairSpec == Spec /\ Fairness

-----------------------------------------------------------------------------
(* What notification delivery guarantees.                                  *)

Started(m) == msg[m] # "unpublished"

(* All that a message stands for has happened: every recipient was mailed, *)
(* and a created itinerary has its reminder.                               *)
Complete(m) ==
  /\ \A i \in DOMAIN Recipients(m) : sent[m][i] > 0
  /\ ParksReminder(m) =>
       \E n \in Deliveries : Started(<<m, n>>)

(* At-least-once: a message leaves its queue by the handler run of its     *)
(* last delivery, never by one that outlived its connection, and           *)
(* unfinished only as poison, that is after a run that threw, on a         *)
(* delivery that was not the first (handlers.ts:19-27, broker.ts:131-171). *)
LeavesOnlyDoneOrPoison ==
  \A m \in Messages : msg[m] = "gone" =>
    /\ run[m][count[m]] = 0
    /\ Complete(m) \/ (failed[m] > 0 /\ count[m] > 1)

(* A reminder is never scheduled alone: every one was preceded by a        *)
(* confirmation of its own; and one that is out of the holding queue is    *)
(* within Lead of the trip, whichever run parked it (handlers.ts:60-61,    *)
(* events.ts:80-96, broker.ts:31-33).                                      *)
ReminderAfterConfirmation ==
  /\ \A e \in Events : Kind[e] = "created" =>
       \A i \in DOMAIN Recipients(e) :
         sent[e][i] >= Cardinality({n \in Deliveries : Started(<<e, n>>)})
  /\ \A r \in Reminders :
       msg[r] \in {"ready", "held", "gone"} => now + Lead >= TripStart[EventOf(r)]

(* Nobody is mailed more often than the message was delivered: duplicates  *)
(* come from redelivery and from nothing else (handlers.ts:25-27).         *)
DuplicatesNeedRedelivery ==
  \A m \in Messages : \A i \in DOMAIN Recipients(m) : sent[m][i] <= count[m]

(* A bad publisher cannot wedge the queue, and neither can an outage:      *)
(* whatever was published is handled or dropped in the end, and so is      *)
(* every reminder (handlers.ts:20-23).                                     *)
EveryMessageSettles ==
  <>[](\A m \in Messages : Started(m) => msg[m] = "gone")

-----------------------------------------------------------------------------
(* broker.ts:293-297: when scheduleReminder throws, itinerary.created "is  *)
(* nack-requeued and reprocessed after reconnect - the reminder is         *)
(* delayed, not lost".  On a second delivery it is dropped instead.        *)
ReminderNotLost ==
  \A e \in Events :
    Kind[e] = "created" /\ e \notin Malformed /\ msg[e] = "gone" =>
      \E n \in Deliveries : Started(<<e, n>>)
=============================================================================
