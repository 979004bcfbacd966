---------------------------- MODULE BrokerAdapter ----------------------------
(***************************************************************************)
(* One instance of the supervised RabbitMQ connection that every service   *)
(* uses (packages/shared/src/adapters/broker.ts, createBroker): the        *)
(* reconnect loop, the registry of consumers that it replays and close().  *)
(*                                                                         *)
(* Node runs one callback at a time, so a step of this module is the code  *)
(* between two awaits that leave the event loop.  An "attempt" is one call *)
(* of establish() together with the connection it opened; attempts are     *)
(* identified by slots that are reused once the connection is gone.        *)
(* `connection` and `channel` are always assigned together and are the one *)
(* variable `channel`.  Back-off delays are abstracted: a timer that is    *)
(* armed may fire at any later moment.                                     *)
(***************************************************************************)
EXTENDS Naturals, Sequences, Functions

CONSTANTS
  Attempts,            \* slots for establish() calls and their connections
  NoAttempt,           \* JavaScript's null
  Queues,              \* queues the owner calls consume() for
  MaxConsumers,        \* bound: consumers that the owner asks for
  MaxOutages,          \* bound: how often RabbitMQ goes away
  MaxFaults            \* bound: how often something happens to a channel or
                       \* connection that the loop is not built for

ASSUME NoAttemptAssumption == NoAttempt \notin Attempts
ASSUME BoundsAssumption ==
  /\ MaxConsumers \in Nat
  /\ MaxOutages \in Nat
  /\ MaxFaults \in Nat

VARIABLES
  up,            \* RabbitMQ accepts and keeps connections
  outages,       \* outages so far
  faults,        \* channels closed by RabbitMQ, and connections lost between
                 \* the last reply and the continuation of establish(), so far
  phase,         \* where each establish() call stands
  open,          \* attempts whose connection is open
  errored,       \* attempts whose channel RabbitMQ closed
  consuming,     \* live consumers, by connection, in the order they started
  initial,       \* the attempt that runs establish(true)
  channel,       \* connection / channel
  establishing,
  timers,        \* reconnect timers that are armed
  timerRef,      \* reconnectTimer !== null
  shutDown,
  status,        \* currentStatus
  caller,        \* what the code that called createBroker() is at
  closing,       \* the connection close() is waiting for
  registry,      \* consumers: a list, in which a queue may well occur twice
  subscribing,   \* consume() calls that wait for startConsumer, by connection
  granted        \* history: the consume() calls that returned, in order

envVars  == <<up, outages, faults>>
loopVars == <<channel, establishing, timers, timerRef, shutDown, status>>
connVars == <<phase, open, errored, consuming, initial>>
callVars == <<caller, closing, registry, subscribing, granted>>
vars     == <<envVars, connVars, loopVars, callVars>>

Phases == {"idle", "dialing", "wiring", "wired", "failing", "aborting", "done"}
Callers == {"creating", "owned", "failed",
            "closingChannel", "closingConnection", "closed"}

TypeOK ==
  /\ up \in BOOLEAN
  /\ outages \in 0..MaxOutages
  /\ faults \in 0..MaxFaults
  /\ phase \in [Attempts -> Phases]
  /\ open \in SUBSET Attempts
  /\ errored \in SUBSET Attempts
  /\ consuming \in [Attempts -> Seq(Queues)]
  /\ initial \in Attempts \cup {NoAttempt}
  /\ channel \in Attempts \cup {NoAttempt}
  /\ establishing \in BOOLEAN
  /\ timers \in Nat
  /\ timerRef \in BOOLEAN
  /\ shutDown \in BOOLEAN
  /\ status \in {"connecting", "connected", "retrying"}
  /\ caller \in Callers
  /\ closing \in Attempts \cup {NoAttempt}
  /\ registry \in Seq(Queues)
  /\ subscribing \in [Attempts -> Seq(Queues)]
  /\ granted \in Seq(Queues)

InFlight(a) == phase[a] \in {"dialing", "wiring", "wired", "failing", "aborting"}

-----------------------------------------------------------------------------
(* createBroker() runs establish(true) up to the await of amqp.connect.    *)
Init ==
  /\ up \in BOOLEAN
  /\ outages = 0
  /\ faults = 0
  /\ \E a \in Attempts :
       /\ initial = a
       /\ phase = [b \in Attempts |-> IF b = a THEN "dialing" ELSE "idle"]
  /\ open = {}
  /\ errored = {}
  /\ consuming = [a \in Attempts |-> <<>>]
  /\ channel = NoAttempt
  /\ establishing = TRUE
  /\ timers = 0
  /\ timerRef = FALSE
  /\ shutDown = FALSE
  /\ status = "connecting"
  /\ caller = "creating"
  /\ closing = NoAttempt
  /\ registry = <<>>
  /\ subscribing = [a \in Attempts |-> <<>>]
  /\ granted = <<>>

-----------------------------------------------------------------------------
(* Helpers.                                                                *)

(* scheduleReconnect, called n times: each call arms one more timer and    *)
(* overwrites reconnectTimer without clearing the one it held.             *)
ScheduleReconnectSilently(n) ==
  /\ timers' = timers + n
  /\ timerRef' = (timerRef \/ n > 0)
  /\ status' = status

ScheduleReconnect(n) ==
  /\ timers' = timers + n
  /\ timerRef' = (timerRef \/ n > 0)
  /\ status' = IF n > 0 THEN "retrying" ELSE status

(* How often onConnectionGone schedules a reconnect.                       *)
GoneTimersUnguarded == 1
GoneTimersNever == 0
GoneTimers == IF shutDown \/ establishing \/ timerRef THEN 0 ELSE 1

(* How often the catch block of establish() does: never for establish(true). *)
CatchTimersNever(a) == 0
CatchTimers(a) == IF a = initial THEN 0 ELSE 1

(* ... and what its `throw` means for the caller of createBroker().        *)
ThrowIfInitial(a) ==
  /\ caller' = IF a = initial THEN "failed" ELSE caller
  /\ initial' = IF a = initial THEN NoAttempt ELSE initial

(* The connection of a is gone: its socket, channel and consumers with it, *)
(* and the consume() calls that wait for a reply on it are rejected.       *)
Forget(a) ==
  /\ open' = open \ {a}
  /\ errored' = errored \ {a}
  /\ consuming' = [consuming EXCEPT ![a] = <<>>]
  /\ subscribing' = [subscribing EXCEPT ![a] = <<>>]

-----------------------------------------------------------------------------
(* RabbitMQ.                                                               *)

Outage ==
  /\ up
  /\ outages < MaxOutages
  /\ up' = FALSE
  /\ outages' = outages + 1
  /\ UNCHANGED <<faults, connVars, loopVars, callVars>>

Recover ==
  /\ ~up
  /\ up' = TRUE
  /\ UNCHANGED <<outages, faults, connVars, loopVars, callVars>>

-----------------------------------------------------------------------------
(* establish().                                                            *)

(* amqp.connect resolved.  A broker that was closed meanwhile gives the    *)
(* connection back, before any handler is attached to it.                  *)
DialOk(a) ==
  /\ phase[a] = "dialing"
  /\ up
  /\ open' = open \cup {a}
  /\ phase' = [phase EXCEPT ![a] = IF shutDown THEN "aborting" ELSE "wiring"]
  /\ UNCHANGED <<envVars, errored, consuming, initial, loopVars, callVars>>

(* The connection given back is closed, without a handler to hear of it.   *)
AbortDoneReschedules(a) ==
  /\ phase[a] = "aborting"
  /\ phase' = [phase EXCEPT ![a] = "idle"]
  /\ Forget(a)
  /\ establishing' = FALSE
  /\ ScheduleReconnect(1)
  /\ UNCHANGED <<envVars, initial, channel, shutDown, caller, closing, registry, granted>>

AbortDone(a) ==
  /\ phase[a] = "aborting"
  /\ phase' = [phase EXCEPT ![a] = "idle"]
  /\ Forget(a)
  /\ establishing' = FALSE
  /\ UNCHANGED <<envVars, initial, channel, timers, timerRef, shutDown, status,
                 caller, closing, registry, granted>>

(* amqp.connect rejected: the catch block, with nothing to close.          *)
DialFail(a) ==
  /\ phase[a] = "dialing"
  /\ ~up
  /\ phase' = [phase EXCEPT ![a] = "idle"]
  /\ establishing' = FALSE
  /\ ScheduleReconnect(CatchTimers(a))
  /\ ThrowIfInitial(a)
  /\ UNCHANGED <<envVars, open, errored, consuming, channel, shutDown,
                 closing, registry, subscribing, granted>>

(* The next entry of the registry is started on the new channel: the loop  *)
(* of establish() goes through the list once, whatever it holds.           *)
StartConsumer(a) ==
  /\ phase[a] = "wiring"
  /\ up /\ a \in open
  /\ Len(consuming[a]) < Len(registry)
  /\ consuming' = [consuming EXCEPT ![a] = Append(@, registry[Len(@) + 1])]
  /\ UNCHANGED <<envVars, phase, open, errored, initial, loopVars, callVars>>

(* The reply to the last of createChannel, the topology assertions and the *)
(* consumers has arrived; the continuation has not run yet.                *)
WiringReplyEarly(a) ==
  /\ phase[a] = "wiring"
  /\ up /\ a \in open
  /\ phase' = [phase EXCEPT ![a] = "wired"]
  /\ UNCHANGED <<envVars, open, errored, consuming, initial, loopVars, callVars>>

WiringReply(a) ==
  /\ phase[a] = "wiring"
  /\ up /\ a \in open
  /\ Len(consuming[a]) = Len(registry)
  /\ phase' = [phase EXCEPT ![a] = "wired"]
  /\ UNCHANGED <<envVars, open, errored, consuming, initial, loopVars, callVars>>

(* The continuation publishes the channel.  It does not look at shutDown.  *)
Assign(a) ==
  /\ phase[a] = "wired"
  /\ phase' = [phase EXCEPT ![a] = "done"]
  /\ channel' = a
  /\ establishing' = FALSE
  /\ status' = "connected"
  /\ caller' = IF a = initial THEN "owned" ELSE caller
  /\ initial' = IF a = initial THEN NoAttempt ELSE initial
  /\ UNCHANGED <<envVars, open, errored, consuming, timers, timerRef, shutDown,
                 closing, registry, subscribing, granted>>

(* The connection dies while establish() waits for a reply: 'close' fires  *)
(* first, then the rejected await reaches the catch block, whose close()   *)
(* of a dead connection rejects at once.                                   *)
WiringLost(a) ==
  /\ phase[a] = "wiring"
  /\ ~up
  /\ phase' = [phase EXCEPT ![a] = "idle"]
  /\ Forget(a)
  /\ channel' = NoAttempt
  /\ establishing' = FALSE
  /\ ScheduleReconnect(GoneTimers + CatchTimers(a))
  /\ ThrowIfInitial(a)
  /\ UNCHANGED <<envVars, shutDown, closing, registry, granted>>

(* The connection dies when no reply is outstanding any more: 'close'      *)
(* fires, and the continuation will run all the same.                      *)
WiredLost(a) ==
  /\ phase[a] = "wired"
  /\ ~up /\ a \in open
  /\ faults < MaxFaults
  /\ faults' = faults + 1
  /\ Forget(a)
  /\ channel' = NoAttempt
  /\ ScheduleReconnect(GoneTimers)
  /\ UNCHANGED <<up, outages, phase, initial, establishing, shutDown,
                 caller, closing, registry, granted>>

(* RabbitMQ refuses a topology assertion or a consumer and closes the      *)
(* channel only: the catch block starts to close the connection.           *)
WiringChannelFault(a) ==
  /\ phase[a] = "wiring"
  /\ up
  /\ faults < MaxFaults
  /\ faults' = faults + 1
  /\ phase' = [phase EXCEPT ![a] = "failing"]
  /\ errored' = errored \cup {a}
  /\ consuming' = [consuming EXCEPT ![a] = <<>>]
  /\ establishing' = FALSE
  /\ UNCHANGED <<up, outages, open, initial, channel, timers, timerRef, shutDown,
                 status, callVars>>

(* That close is done: its 'close' event runs onConnectionGone, and then   *)
(* the catch block goes on to throw or to schedule.                        *)
FailingClosed(a) ==
  /\ phase[a] = "failing"
  /\ phase' = [phase EXCEPT ![a] = "idle"]
  /\ Forget(a)
  /\ channel' = NoAttempt
  /\ ScheduleReconnect(GoneTimers + CatchTimers(a))
  /\ ThrowIfInitial(a)
  /\ UNCHANGED <<envVars, establishing, shutDown, closing, registry, granted>>

(* The armed timer fires: reconnectTimer is cleared and establish(false)   *)
(* runs up to amqp.connect.                                                *)
TimerFiresKeepsRef(a) ==
  /\ timers > 0
  /\ phase[a] = "idle"
  /\ timers' = timers - 1
  /\ phase' = [phase EXCEPT ![a] = "dialing"]
  /\ establishing' = TRUE
  /\ status' = "connecting"
  /\ UNCHANGED <<envVars, open, errored, consuming, initial, channel, timerRef,
                 shutDown, callVars>>

TimerFires(a) ==
  /\ timers > 0
  /\ phase[a] = "idle"
  /\ timers' = timers - 1
  /\ timerRef' = FALSE
  /\ phase' = [phase EXCEPT ![a] = "dialing"]
  /\ establishing' = TRUE
  /\ status' = "connecting"
  /\ UNCHANGED <<envVars, open, errored, consuming, initial, channel,
                 shutDown, callVars>>

-----------------------------------------------------------------------------
(* An established connection.                                              *)

(* 'close' of an established connection: onConnectionGone.  The handler    *)
(* does not ask which connection it hears of.                              *)
ConnectionLost(a) ==
  /\ phase[a] = "done"
  /\ ~up /\ a \in open
  /\ phase' = [phase EXCEPT ![a] = "idle"]
  /\ Forget(a)
  /\ channel' = NoAttempt
  /\ ScheduleReconnect(GoneTimers)
  /\ UNCHANGED <<envVars, initial, establishing, shutDown, caller, closing, registry, granted>>

(* RabbitMQ closes the channel of an established connection: logged only,  *)
(* its consumers stop until the connection itself is re-established.       *)
ChannelFault(a) ==
  /\ phase[a] = "done"
  /\ up /\ a \in open \ errored
  /\ faults < MaxFaults
  /\ faults' = faults + 1
  /\ errored' = errored \cup {a}
  /\ consuming' = [consuming EXCEPT ![a] = <<>>]
  /\ subscribing' = [subscribing EXCEPT ![a] = <<>>]
  /\ UNCHANGED <<up, outages, phase, open, initial, loopVars, caller, closing, registry, granted>>

-----------------------------------------------------------------------------
(* The owner's calls.  publish(), scheduleReminder() and consume() throw   *)
(* when there is no channel, which changes nothing here.                   *)

(* The owner may ask for the same queue again, and need not wait for the   *)
(* reply to one call before it makes the next.                             *)
ConsumeRegistersFirst(q) ==
  /\ caller = "owned"
  /\ channel # NoAttempt /\ channel \notin errored
  /\ Len(granted) + Len(subscribing[channel]) < MaxConsumers
  /\ subscribing' = [subscribing EXCEPT ![channel] = Append(@, q)]
  /\ registry' = Append(registry, q)
  /\ UNCHANGED <<envVars, connVars, loopVars, caller, closing, granted>>

Consume(q) ==
  /\ caller = "owned"
  /\ channel # NoAttempt /\ channel \notin errored
  /\ Len(granted) + Len(subscribing[channel]) < MaxConsumers
  /\ subscribing' = [subscribing EXCEPT ![channel] = Append(@, q)]
  /\ UNCHANGED <<envVars, connVars, loopVars, caller, closing, registry, granted>>

(* startConsumer's reply: only now is the registration kept for a replay.  *)
(* RabbitMQ answers the calls of a channel in their order.                 *)
ConsumeOkUnregistered(a) ==
  /\ subscribing[a] # <<>>
  /\ up /\ a \in open
  /\ consuming' = [consuming EXCEPT ![a] = Append(@, Head(subscribing[a]))]
  /\ granted' = Append(granted, Head(subscribing[a]))
  /\ subscribing' = [subscribing EXCEPT ![a] = Tail(@)]
  /\ UNCHANGED <<envVars, phase, open, errored, initial, loopVars, caller, closing,
                 registry>>

ConsumeOk(a) ==
  /\ subscribing[a] # <<>>
  /\ up /\ a \in open
  /\ consuming' = [consuming EXCEPT ![a] = Append(@, Head(subscribing[a]))]
  /\ registry' = Append(registry, Head(subscribing[a]))
  /\ granted' = Append(granted, Head(subscribing[a]))
  /\ subscribing' = [subscribing EXCEPT ![a] = Tail(@)]
  /\ UNCHANGED <<envVars, phase, open, errored, initial, loopVars, caller, closing>>

(* close(): the flag, the timer, then the channel if there is one.         *)
CloseClearsBlindly ==
  /\ caller = "owned"
  /\ shutDown' = TRUE
  /\ timers' = timers - 1
  /\ timerRef' = FALSE
  /\ caller' = IF channel # NoAttempt THEN "closingChannel" ELSE "closed"
  /\ UNCHANGED <<envVars, connVars, channel, establishing, status,
                 closing, registry, subscribing, granted>>

Close ==
  /\ caller = "owned"
  /\ shutDown' = TRUE
  /\ timers' = IF timerRef THEN timers - 1 ELSE timers
  /\ timerRef' = FALSE
  /\ caller' = IF channel # NoAttempt THEN "closingChannel" ELSE "closed"
  /\ UNCHANGED <<envVars, connVars, channel, establishing, status,
                 closing, registry, subscribing, granted>>

(* channel.close() settled; connection.close() follows if one is left.     *)
CloseChannelDone ==
  /\ caller = "closingChannel"
  /\ closing' = channel
  /\ caller' = IF channel # NoAttempt THEN "closingConnection" ELSE "closed"
  /\ consuming' = [a \in Attempts |-> IF a = channel THEN <<>> ELSE consuming[a]]
  /\ subscribing' = [a \in Attempts |-> IF a = channel THEN <<>> ELSE subscribing[a]]
  /\ UNCHANGED <<envVars, phase, open, errored, initial, loopVars, registry, granted>>

(* connection.close() settled: 'close' has fired and both are set to null. *)
CloseConnectionDone ==
  /\ caller = "closingConnection"
  /\ caller' = "closed"
  /\ closing' = NoAttempt
  /\ channel' = NoAttempt
  /\ IF phase[closing] = "done"
     THEN Forget(closing) /\ phase' = [phase EXCEPT ![closing] = "idle"]
     ELSE UNCHANGED <<phase, open, errored, consuming, subscribing>>
  /\ UNCHANGED <<envVars, initial, establishing, timers, timerRef, shutDown, status,
                 registry, granted>>

-----------------------------------------------------------------------------
Establish(a) ==
  \/ DialOk(a) \/ AbortDone(a) \/ DialFail(a) \/ StartConsumer(a)
  \/ WiringReply(a) \/ Assign(a)
  \/ WiringLost(a) \/ FailingClosed(a) \/ ConnectionLost(a)

CloseStep == CloseChannelDone \/ CloseConnectionDone

Next ==
  \/ Outage \/ Recover
  \/ \E a \in Attempts :
       \/ Establish(a) \/ TimerFires(a) \/ ConsumeOk(a)
       \/ WiredLost(a) \/ WiringChannelFault(a) \/ ChannelFault(a)
  \/ \E q \in Queues : Consume(q)
  \/ Close \/ CloseStep

Spec == Init /\ [][Next]_vars

(* Callbacks whose event has happened run, armed timers fire, and RabbitMQ *)
(* comes back.  Nobody has to call consume() or close().                   *)
Fairness ==
  /\ \A a \in Attempts : WF_vars(Establish(a))
  /\ WF_vars(\E a \in Attempts : TimerFires(a))
  /\ \A a \in Attempts : WF_vars(ConsumeOk(a))
  /\ WF_vars(CloseStep)
  /\ WF_vars(Recover)

FairSpec == Spec /\ Fairness

-----------------------------------------------------------------------------
(* What the adapter guarantees.                                            *)

InFlightAttempts == {a \in Attempts : InFlight(a)}

(* Connections are only lost as a whole, while a reply is awaited or after *)
(* establish() is over: what the reconnect loop is built for.              *)
Undisturbed == faults = 0

(* One reconnect loop: an attempt in flight, an armed timer or a published *)
(* channel, and never two of them.  The flag `establishing`, the reference *)
(* `reconnectTimer` and the close handler's early return keep it so across *)
(* losses at any point of an attempt (broker.ts:91-94, 246).               *)
SingleLoop ==
  Undisturbed =>
    /\ \A a, b \in InFlightAttempts : a = b
    /\ timers <= 1
    /\ timers = 1 => InFlightAttempts = {} /\ channel = NoAttempt
    /\ channel # NoAttempt => InFlightAttempts = {}

(* The adapter never strands its owner: until close() there is a channel,  *)
(* an attempt in flight or an armed timer (broker.ts:24-29, a restart "no  *)
(* longer leaves consumers silently dead").                                *)
NeverStranded ==
  Undisturbed /\ caller \in {"creating", "owned"} =>
    channel # NoAttempt \/ InFlightAttempts # {} \/ timers > 0

(* What /healthz mirrors is true: until close(), the status is "connected" *)
(* exactly while there is a channel, that channel's connection is open and *)
(* every registered consumer is consuming on it (broker.ts:212-224, 244).  *)
ConnectedIsTrue ==
  Undisturbed /\ ~shutDown =>
    /\ status = "connected" <=> channel # NoAttempt
    /\ channel # NoAttempt =>
         channel \in open /\ Range(registry) \subseteq Range(consuming[channel])

(* consume() keeps its word across every loss: a published channel runs    *)
(* one consumer for each call that returned, a queue that was asked for    *)
(* twice included, and none for a call that was refused; while a replay is *)
(* under way it has started no more than that, and two connections never   *)
(* consume at once (broker.ts:90, 208-210, 312-325: the registry "must     *)
(* only ever hold consumers that are actually consuming, or a reconnect    *)
(* would replay duplicates").                                              *)
ConsumersAsGranted ==
  Undisturbed =>
    /\ \A a \in Attempts :
         /\ Len(consuming[a]) <= Len(granted)
         /\ \A i \in 1..Len(consuming[a]) : consuming[a][i] = granted[i]
    /\ channel # NoAttempt /\ ~shutDown => consuming[channel] = granted
    /\ \A a, b \in Attempts : consuming[a] # <<>> /\ consuming[b] # <<>> => a = b

(* `establishing` and `reconnectTimer` silence the close handler, so one   *)
(* of them left set with nothing behind it would end all reconnecting      *)
(* (broker.ts:246).  This holds whatever RabbitMQ does, several loops at   *)
(* once included.                                                          *)
SilencersAreBacked ==
  /\ establishing => \E a \in Attempts : phase[a] \in {"dialing", "wiring", "wired", "aborting"}
  /\ timerRef => timers > 0

(* After the last outage the owner's consumers all run again (broker.ts:   *)
(* 24-29), unless the owner closes the broker or never got one.            *)
ConsumersResume ==
  <>[](caller = "owned" =>
         /\ status = "connected" /\ channel \in open
         /\ Range(registry) \subseteq Range(consuming[channel]))

(* close() ends the reconnect loop at last: an attempt that was in flight  *)
(* may fail and be retried, but none is left in the end (broker.ts:192).   *)
ClosedSettles ==
  caller = "closed" ~> [](InFlightAttempts = {} /\ timers = 0)

-----------------------------------------------------------------------------
(* broker.ts:24-26: "a RabbitMQ restart mid-session no longer leaves       *)
(* consumers silently dead".  One loss between the last reply and the      *)
(* continuation does leave them so.                                        *)
NeverSilentlyDead == status = "connected" /\ ~shutDown => channel \in open
=============================================================================
