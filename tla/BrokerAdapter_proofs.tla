------------------------ MODULE BrokerAdapter_proofs ------------------------
(***************************************************************************)
(* Proofs about BrokerAdapter, for any number of attempts, queues and      *)
(* outages, and that it implements ServiceLink.                            *)
(***************************************************************************)
EXTENDS BrokerImplementsLink, SequenceTheorems, TLAPS

-----------------------------------------------------------------------------
(* Typing.  close() takes back the timer that reconnectTimer refers to, so *)
(* the number of timers stays a natural number only because the reference  *)
(* is never set without a timer behind it.                                 *)

FlagsOK ==
  /\ up \in BOOLEAN
  /\ establishing \in BOOLEAN
  /\ timerRef \in BOOLEAN
  /\ shutDown \in BOOLEAN

CountsOK ==
  /\ outages \in 0..MaxOutages
  /\ faults \in 0..MaxFaults
  /\ timers \in Nat
  /\ timerRef => timers > 0

TypeInv == FlagsOK /\ CountsOK /\ TypeOK

(***************************************************************************)
(* The invariant behind supervision.  It holds while nothing has disturbed *)
(* the loop, and Undisturbed => SupervisionInv is inductive.               *)
(***************************************************************************)
NobodyInFlight == \A a \in Attempts : ~InFlight(a)

(* The three places where the loop can be exclude each other.              *)
LoopInv ==
  /\ \A a, b \in Attempts : InFlight(a) /\ InFlight(b) => a = b
  /\ establishing <=> ~NobodyInFlight
  /\ timerRef <=> timers = 1
  /\ timers <= 1
  /\ timers = 1 => NobodyInFlight /\ channel = NoAttempt
  /\ channel # NoAttempt => NobodyInFlight

(* Sockets exist where the attempt says so.                                *)
ConnectionInv ==
  /\ errored = {}
  /\ \A a \in Attempts :
       /\ phase[a] # "failing"
       /\ phase[a] = "aborting" => shutDown
       /\ phase[a] = "done" <=> channel = a
       /\ a \in open <=> phase[a] \in {"wiring", "wired", "aborting", "done"}

(* Every connection has gone through a first part of the registry, the     *)
(* published one through all of it as long as a call may still extend it,  *)
(* and the registry is what consume() has granted.                         *)
ConsumerInv ==
  /\ granted = registry
  /\ \A a \in Attempts :
       /\ Len(consuming[a]) <= Len(registry)
       /\ \A i \in 1..Len(consuming[a]) : consuming[a][i] = registry[i]
       /\ consuming[a] # <<>> => phase[a] \in {"wiring", "wired", "done"}
       /\ phase[a] = "wired" => Len(consuming[a]) = Len(registry)
       /\ subscribing[a] # <<>> => channel = a /\ Len(consuming[a]) = Len(registry)
  /\ channel # NoAttempt /\ ~shutDown => Len(consuming[channel]) = Len(registry)

(* What the caller of createBroker() may rely on at each of its steps.     *)
CallerInv ==
  /\ shutDown <=> caller \in {"closingChannel", "closingConnection", "closed"}
  /\ caller = "creating" <=> initial # NoAttempt
  /\ initial # NoAttempt => phase[initial] \in {"dialing", "wiring", "wired"}
  /\ caller \in {"creating", "failed"} =>
       timers = 0 /\ channel = NoAttempt /\ registry = <<>>
  /\ caller = "failed" => NobodyInFlight
  /\ caller = "owned" => channel # NoAttempt \/ timers = 1 \/ ~NobodyInFlight
  /\ ~shutDown => (status = "connected" <=> channel # NoAttempt)
  /\ caller \in {"closingChannel", "closingConnection"} => timers = 0 /\ NobodyInFlight
  /\ caller = "closingConnection" => closing # NoAttempt /\ channel \in {NoAttempt, closing}

SupervisionInv == TypeOK /\ LoopInv /\ ConnectionInv /\ ConsumerInv /\ CallerInv

-----------------------------------------------------------------------------
(* The flags stay Boolean (broker.ts:92-98).                               *)
LEMMA FlagsStep ==
  ASSUME FlagsOK, [Next]_vars
  PROVE  FlagsOK'
BY ZenonT(60)
   DEF FlagsOK, Next, Establish, CloseStep, vars, envVars, connVars, loopVars, callVars,
       Outage, Recover, DialOk, AbortDone, DialFail, StartConsumer, WiringReply, Assign,
       WiringLost, FailingClosed, ConnectionLost, TimerFires, WiredLost,
       WiringChannelFault, ChannelFault, Consume, ConsumeOk, Close, CloseChannelDone,
       CloseConnectionDone, ScheduleReconnect

(* No counter leaves its range: timers goes down only where a timer fires  *)
(* or where reconnectTimer refers to one (broker.ts:259-262, 330-333).     *)
LEMMA CountsStep ==
  ASSUME CountsOK, FlagsOK, FlagsOK', [Next]_vars
  PROVE  CountsOK'
<1> USE BoundsAssumption DEF CountsOK, FlagsOK, envVars, connVars, loopVars, callVars
<1>1. CASE Outage
  BY <1>1 DEF Outage
<1>2. CASE Recover
  BY <1>2 DEF Recover
<1>3. ASSUME NEW a \in Attempts, DialOk(a) PROVE CountsOK'
  BY <1>3 DEF DialOk
<1>4. ASSUME NEW a \in Attempts, AbortDone(a) PROVE CountsOK'
  BY <1>4 DEF AbortDone
<1>5. ASSUME NEW a \in Attempts, DialFail(a) PROVE CountsOK'
  BY <1>5 DEF DialFail, ScheduleReconnect, CatchTimers
<1>6. ASSUME NEW a \in Attempts, StartConsumer(a) PROVE CountsOK'
  BY <1>6 DEF StartConsumer
<1>7. ASSUME NEW a \in Attempts, WiringReply(a) PROVE CountsOK'
  BY <1>7 DEF WiringReply
<1>8. ASSUME NEW a \in Attempts, Assign(a) PROVE CountsOK'
  BY <1>8 DEF Assign
<1>9. ASSUME NEW a \in Attempts, WiringLost(a) PROVE CountsOK'
  BY <1>9 DEF WiringLost, ScheduleReconnect, GoneTimers, CatchTimers
<1>10. ASSUME NEW a \in Attempts, FailingClosed(a) PROVE CountsOK'
  BY <1>10 DEF FailingClosed, ScheduleReconnect, GoneTimers, CatchTimers
<1>11. ASSUME NEW a \in Attempts, ConnectionLost(a) PROVE CountsOK'
  BY <1>11 DEF ConnectionLost, ScheduleReconnect, GoneTimers
<1>12. ASSUME NEW a \in Attempts, TimerFires(a) PROVE CountsOK'
  BY <1>12 DEF TimerFires
<1>13. ASSUME NEW a \in Attempts, WiredLost(a) PROVE CountsOK'
  BY <1>13 DEF WiredLost, ScheduleReconnect, GoneTimers
<1>14. ASSUME NEW a \in Attempts, WiringChannelFault(a) PROVE CountsOK'
  BY <1>14 DEF WiringChannelFault
<1>15. ASSUME NEW a \in Attempts, ChannelFault(a) PROVE CountsOK'
  BY <1>15 DEF ChannelFault
<1>16. ASSUME NEW q \in Queues, Consume(q) PROVE CountsOK'
  BY <1>16 DEF Consume
<1>17. ASSUME NEW c \in Attempts, ConsumeOk(c) PROVE CountsOK'
  BY <1>17 DEF ConsumeOk
<1>18. CASE Close
  BY <1>18 DEF Close
<1>19. CASE CloseChannelDone
  BY <1>19 DEF CloseChannelDone
<1>20. CASE CloseConnectionDone
  BY <1>20 DEF CloseConnectionDone
<1>21. CASE UNCHANGED vars
  BY <1>21 DEF vars
<1>22. QED
  BY <1>1, <1>2, <1>3, <1>4, <1>5, <1>6, <1>7, <1>8, <1>9, <1>10, <1>11,
     <1>12, <1>13, <1>14, <1>15, <1>16, <1>17, <1>18, <1>19, <1>20, <1>21
     DEF Next, Establish, CloseStep

(* Every variable keeps its type (broker.ts:86-100).                       *)
LEMMA TypeStep ==
  ASSUME TypeOK, FlagsOK', CountsOK', [Next]_vars
  PROVE  TypeOK'
<1> USE NoAttemptAssumption
    DEF TypeOK, FlagsOK, CountsOK, Phases, Callers, envVars, connVars, loopVars, callVars
<1>1. CASE Outage
  BY <1>1 DEF Outage
<1>2. CASE Recover
  BY <1>2 DEF Recover
<1>3. ASSUME NEW a \in Attempts, DialOk(a) PROVE TypeOK'
  BY <1>3 DEF DialOk
<1>4. ASSUME NEW a \in Attempts, AbortDone(a) PROVE TypeOK'
  BY <1>4 DEF AbortDone, Forget
<1>5. ASSUME NEW a \in Attempts, DialFail(a) PROVE TypeOK'
  BY <1>5 DEF DialFail, ScheduleReconnect, ThrowIfInitial
<1>6. ASSUME NEW a \in Attempts, StartConsumer(a) PROVE TypeOK'
  BY <1>6 DEF StartConsumer
<1>7. ASSUME NEW a \in Attempts, WiringReply(a) PROVE TypeOK'
  BY <1>7 DEF WiringReply
<1>8. ASSUME NEW a \in Attempts, Assign(a) PROVE TypeOK'
  BY <1>8 DEF Assign
<1>9. ASSUME NEW a \in Attempts, WiringLost(a) PROVE TypeOK'
  BY <1>9 DEF WiringLost, ScheduleReconnect, ThrowIfInitial, Forget
<1>10. ASSUME NEW a \in Attempts, FailingClosed(a) PROVE TypeOK'
  BY <1>10 DEF FailingClosed, ScheduleReconnect, ThrowIfInitial, Forget
<1>11. ASSUME NEW a \in Attempts, ConnectionLost(a) PROVE TypeOK'
  BY <1>11 DEF ConnectionLost, ScheduleReconnect, Forget
<1>12. ASSUME NEW a \in Attempts, TimerFires(a) PROVE TypeOK'
  BY <1>12 DEF TimerFires
<1>13. ASSUME NEW a \in Attempts, WiredLost(a) PROVE TypeOK'
  BY <1>13 DEF WiredLost, ScheduleReconnect, Forget
<1>14. ASSUME NEW a \in Attempts, WiringChannelFault(a) PROVE TypeOK'
  BY <1>14 DEF WiringChannelFault
<1>15. ASSUME NEW a \in Attempts, ChannelFault(a) PROVE TypeOK'
  BY <1>15 DEF ChannelFault
<1>16. ASSUME NEW q \in Queues, Consume(q) PROVE TypeOK'
  BY <1>16 DEF Consume
<1>17. ASSUME NEW c \in Attempts, ConsumeOk(c) PROVE TypeOK'
  <2>1. PICK q \in Queues : q = Head(subscribing[c])
    BY <1>17, HeadTailProperties DEF ConsumeOk
  <2>2. Tail(subscribing[c]) \in Seq(Queues)
    BY <1>17, HeadTailProperties DEF ConsumeOk
  <2>3. /\ Append(consuming[c], q) \in Seq(Queues)
        /\ Append(registry, q) \in Seq(Queues)
        /\ Append(granted, q) \in Seq(Queues)
    OBVIOUS
  <2>4. consuming' \in [Attempts -> Seq(Queues)] /\ subscribing' \in [Attempts -> Seq(Queues)]
        /\ registry' \in Seq(Queues) /\ granted' \in Seq(Queues)
    BY <1>17, <2>1, <2>2, <2>3 DEF ConsumeOk
  <2>5. UNCHANGED <<phase, open, errored, initial, channel, status, caller, closing>>
    BY <1>17 DEF ConsumeOk
  <2>6. QED
    BY <2>4, <2>5
<1>18. CASE Close
  BY <1>18 DEF Close
<1>19. CASE CloseChannelDone
  BY <1>19 DEF CloseChannelDone
<1>20. CASE CloseConnectionDone
  <2>1. /\ phase' \in [Attempts -> Phases]
        /\ open' \in SUBSET Attempts /\ errored' \in SUBSET Attempts
    BY <1>20 DEF CloseConnectionDone, Forget
  <2>2. consuming' \in [Attempts -> Seq(Queues)] /\ subscribing' \in [Attempts -> Seq(Queues)]
    <3>1. \/ UNCHANGED <<consuming, subscribing>>
          \/ /\ consuming' = [consuming EXCEPT ![closing] = <<>>]
             /\ subscribing' = [subscribing EXCEPT ![closing] = <<>>]
      BY <1>20 DEF CloseConnectionDone, Forget
    <3>2. ASSUME NEW f \in [Attempts -> Seq(Queues)]
          PROVE  [f EXCEPT ![closing] = <<>>] \in [Attempts -> Seq(Queues)]
      <4>1. <<>> \in Seq(Queues)
        OBVIOUS
      <4>2. QED
        BY ONLY <4>1, f \in [Attempts -> Seq(Queues)]
    <3>3. consuming \in [Attempts -> Seq(Queues)] /\ subscribing \in [Attempts -> Seq(Queues)]
      OBVIOUS
    <3>4. /\ [consuming EXCEPT ![closing] = <<>>] \in [Attempts -> Seq(Queues)]
          /\ [subscribing EXCEPT ![closing] = <<>>] \in [Attempts -> Seq(Queues)]
      BY ONLY <3>2, <3>3
    <3>5. QED
      BY ONLY <3>1, <3>3, <3>4
  <2>3. QED
    BY <1>20, <2>1, <2>2 DEF CloseConnectionDone
<1>21. CASE UNCHANGED vars
  BY <1>21 DEF vars
<1>22. QED
  BY <1>1, <1>2, <1>3, <1>4, <1>5, <1>6, <1>7, <1>8, <1>9, <1>10, <1>11,
     <1>12, <1>13, <1>14, <1>15, <1>16, <1>17, <1>18, <1>19, <1>20, <1>21
     DEF Next, Establish, CloseStep

(* The types hold at the start.                                            *)
LEMMA TypeInit == Init => TypeInv
<1> SUFFICES ASSUME Init PROVE TypeInv
  OBVIOUS
<1>1. FlagsOK
  BY Zenon DEF Init, FlagsOK
<1>2. CountsOK
  BY <1>1, BoundsAssumption DEF Init, FlagsOK, CountsOK
<1>3. TypeOK
  BY <1>1, <1>2 DEF Init, FlagsOK, CountsOK, TypeOK, Phases, Callers
<1>4. QED
  BY <1>1, <1>2, <1>3 DEF TypeInv

(* The three together are inductive.                                       *)
LEMMA TypeInvariant == Spec => []TypeInv
<1>1. TypeInv /\ [Next]_vars => TypeInv'
  BY FlagsStep, CountsStep, TypeStep DEF TypeInv
<1>2. QED
  BY TypeInit, <1>1, PTL DEF Spec

(* The type invariant, for any constants (broker.ts:86-100).               *)
THEOREM TypeCorrect == Spec => []TypeOK
<1>1. TypeInv => TypeOK
  BY DEF TypeInv
<1>2. QED
  BY <1>1, TypeInvariant, PTL

-----------------------------------------------------------------------------
(* The steps that leave the loop undisturbed: no channel is closed, hence  *)
(* none is cleaned up, and no connection dies between the last reply and   *)
(* the continuation of establish().                                        *)
CoreNext ==
  \/ Outage \/ Recover \/ Close \/ CloseChannelDone \/ CloseConnectionDone
  \/ \E a \in Attempts :
       \/ DialOk(a) \/ AbortDone(a) \/ DialFail(a) \/ WiringReply(a) \/ Assign(a)
       \/ WiringLost(a) \/ ConnectionLost(a) \/ TimerFires(a)
       \/ StartConsumer(a) \/ ConsumeOk(a)
  \/ \E q \in Queues : Consume(q)

(* A fault is never taken back.                                            *)
LEMMA FaultsGrow ==
  ASSUME TypeInv, [Next]_vars
  PROVE  faults' \in {faults, faults + 1} /\ (Undisturbed' => Undisturbed)
<1>1. faults' \in {faults, faults + 1}
  BY DEF Next, Establish, CloseStep, vars, envVars, Outage, Recover, DialOk, AbortDone,
         DialFail, StartConsumer, WiringReply, Assign, WiringLost, FailingClosed,
         ConnectionLost, TimerFires, WiredLost, WiringChannelFault, ChannelFault, Consume,
         ConsumeOk, Close, CloseChannelDone, CloseConnectionDone
<1>2. QED
  BY <1>1, BoundsAssumption DEF TypeInv, CountsOK, Undisturbed

(* Without channel faults only the core steps are taken.                   *)
LEMMA UndisturbedSteps ==
  ASSUME Undisturbed', TypeInv, SupervisionInv, [Next]_vars
  PROVE  CoreNext \/ UNCHANGED vars
<1>1. faults \in Nat /\ faults' = 0
  BY BoundsAssumption DEF Undisturbed, TypeInv, CountsOK
<1>2. ASSUME NEW a \in Attempts
      PROVE  ~WiringChannelFault(a) /\ ~ChannelFault(a) /\ ~WiredLost(a) /\ ~FailingClosed(a)
  BY <1>1 DEF WiringChannelFault, ChannelFault, WiredLost, FailingClosed,
              SupervisionInv, ConnectionInv
<1>3. QED
  BY <1>2 DEF Next, Establish, CloseStep, CoreNext

(* The loop stays one loop: what ends an attempt arms at most one timer,   *)
(* because `establishing` and reconnectTimer silence the close handler.     *)
LEMMA LoopStep ==
  ASSUME Undisturbed', TypeInv, TypeOK', SupervisionInv, [Next]_vars
  PROVE  LoopInv'
<1> USE NoAttemptAssumption
    DEF SupervisionInv, TypeOK, Phases, Callers, LoopInv, ConnectionInv, CallerInv,
        NobodyInFlight, InFlight, envVars, connVars, loopVars, callVars
<1>1. CASE Outage
  BY <1>1 DEF Outage
<1>2. CASE Recover
  BY <1>2 DEF Recover
<1>3. ASSUME NEW c \in Attempts, DialOk(c) PROVE LoopInv'
  BY <1>3 DEF DialOk
<1>4. ASSUME NEW c \in Attempts, AbortDone(c) PROVE LoopInv'
  BY <1>4 DEF AbortDone, Forget
<1>5. ASSUME NEW c \in Attempts, DialFail(c) PROVE LoopInv'
  BY <1>5 DEF DialFail, ScheduleReconnect, CatchTimers, ThrowIfInitial
<1>6. ASSUME NEW c \in Attempts, StartConsumer(c) PROVE LoopInv'
  BY <1>6 DEF StartConsumer
<1>7. ASSUME NEW c \in Attempts, WiringReply(c) PROVE LoopInv'
  BY <1>7 DEF WiringReply
<1>8. ASSUME NEW c \in Attempts, Assign(c) PROVE LoopInv'
  BY <1>8 DEF Assign
<1>9. ASSUME NEW c \in Attempts, WiringLost(c) PROVE LoopInv'
  BY <1>9 DEF WiringLost, ScheduleReconnect, GoneTimers, CatchTimers, ThrowIfInitial, Forget
<1>10. ASSUME NEW c \in Attempts, ConnectionLost(c) PROVE LoopInv'
  <2>1. channel = c /\ NobodyInFlight /\ timers = 0 /\ ~timerRef /\ ~establishing
    BY <1>10 DEF ConnectionLost
  <2>2. channel' = NoAttempt /\ establishing' = establishing
    BY <1>10 DEF ConnectionLost
  <2>3. \A a \in Attempts : ~InFlight(a)'
    BY <1>10, <2>1 DEF ConnectionLost
  <2>4. CASE shutDown
    <3>1. timers' = 0 /\ ~timerRef'
      BY <1>10, <2>1, <2>4 DEF ConnectionLost, ScheduleReconnect, GoneTimers
    <3>2. QED
      BY <2>1, <2>2, <2>3, <3>1
  <2>5. CASE ~shutDown
    <3>0. GoneTimers = 1
      BY <2>1, <2>5 DEF GoneTimers
    <3>1. timers' = 1 /\ timerRef' = (timerRef \/ 1 > 0)
      BY <1>10, <2>1, <3>0 DEF ConnectionLost, ScheduleReconnect
    <3>2. 1 > 0
      OBVIOUS
    <3>3. timerRef' = TRUE
      BY <3>1, <3>2, Zenon
    <3>4. QED
      BY <2>1, <2>2, <2>3, <3>1, <3>3
  <2>6. QED
    BY <2>4, <2>5
<1>11. ASSUME NEW c \in Attempts, TimerFires(c) PROVE LoopInv'
  BY <1>11 DEF TimerFires
<1>12. ASSUME NEW q \in Queues, Consume(q) PROVE LoopInv'
  BY <1>12 DEF Consume
<1>13. ASSUME NEW c \in Attempts, ConsumeOk(c) PROVE LoopInv'
  BY <1>13 DEF ConsumeOk
<1>14. CASE Close
  BY <1>14 DEF Close
<1>15. CASE CloseChannelDone
  BY <1>15 DEF CloseChannelDone
<1>16. CASE CloseConnectionDone
  BY <1>16 DEF CloseConnectionDone, Forget
<1>17. CASE UNCHANGED vars
  BY <1>17 DEF vars
<1>18. QED
  BY UndisturbedSteps, <1>1, <1>2, <1>3, <1>4, <1>5, <1>6, <1>7, <1>8, <1>9,
     <1>10, <1>11, <1>12, <1>13, <1>14, <1>15, <1>16, <1>17
     DEF CoreNext

(* Sockets and consumers keep following the attempts.                       *)
LEMMA ConnectionStep ==
  ASSUME Undisturbed', TypeInv, TypeOK', SupervisionInv, [Next]_vars
  PROVE  ConnectionInv'
<1> USE NoAttemptAssumption
    DEF SupervisionInv, TypeOK, Phases, Callers, LoopInv, ConnectionInv, CallerInv,
        NobodyInFlight, InFlight, envVars, connVars, loopVars, callVars
<1>1. CASE Outage
  BY <1>1 DEF Outage
<1>2. CASE Recover
  BY <1>2 DEF Recover
<1>3. ASSUME NEW c \in Attempts, DialOk(c) PROVE ConnectionInv'
  BY <1>3 DEF DialOk
<1>4. ASSUME NEW c \in Attempts, AbortDone(c) PROVE ConnectionInv'
  BY <1>4 DEF AbortDone, Forget
<1>5. ASSUME NEW c \in Attempts, DialFail(c) PROVE ConnectionInv'
  BY <1>5 DEF DialFail, ScheduleReconnect, CatchTimers, ThrowIfInitial
<1>6. ASSUME NEW c \in Attempts, StartConsumer(c) PROVE ConnectionInv'
  BY <1>6 DEF StartConsumer
<1>7. ASSUME NEW c \in Attempts, WiringReply(c) PROVE ConnectionInv'
  BY <1>7 DEF WiringReply
<1>8. ASSUME NEW c \in Attempts, Assign(c) PROVE ConnectionInv'
  BY <1>8 DEF Assign
<1>9. ASSUME NEW c \in Attempts, WiringLost(c) PROVE ConnectionInv'
  BY <1>9 DEF WiringLost, ScheduleReconnect, GoneTimers, CatchTimers, ThrowIfInitial, Forget
<1>10. ASSUME NEW c \in Attempts, ConnectionLost(c) PROVE ConnectionInv'
  BY <1>10 DEF ConnectionLost, ScheduleReconnect, GoneTimers, Forget
<1>11. ASSUME NEW c \in Attempts, TimerFires(c) PROVE ConnectionInv'
  BY <1>11 DEF TimerFires
<1>12. ASSUME NEW q \in Queues, Consume(q) PROVE ConnectionInv'
  BY <1>12 DEF Consume
<1>13. ASSUME NEW c \in Attempts, ConsumeOk(c) PROVE ConnectionInv'
  BY <1>13 DEF ConsumeOk
<1>14. CASE Close
  BY <1>14 DEF Close
<1>15. CASE CloseChannelDone
  BY <1>15 DEF CloseChannelDone
<1>16. CASE CloseConnectionDone
  BY <1>16 DEF CloseConnectionDone, Forget
<1>17. CASE UNCHANGED vars
  BY <1>17 DEF vars
<1>18. QED
  BY UndisturbedSteps, <1>1, <1>2, <1>3, <1>4, <1>5, <1>6, <1>7, <1>8, <1>9,
     <1>10, <1>11, <1>12, <1>13, <1>14, <1>15, <1>16, <1>17
     DEF CoreNext

(* A member of a sequence.                                                 *)
LEMMA SeqMember ==
  ASSUME NEW S, NEW s \in Seq(S), NEW i \in 1..Len(s)
  PROVE  s[i] \in S
OBVIOUS

(* The replay goes on in the registry where it was (broker.ts:208-210).    *)
LEMMA ReplayKeepsOrder ==
  ASSUME SupervisionInv, NEW c \in Attempts, StartConsumer(c)
  PROVE  ConsumerInv'
<1>0. TypeOK /\ ConsumerInv /\ registry \in Seq(Queues) /\ consuming[c] \in Seq(Queues)
      /\ consuming \in [Attempts -> Seq(Queues)]
  BY DEF SupervisionInv, TypeOK
<1>1. PICK n \in Nat : n = Len(consuming[c])
  BY <1>0
<1>2. phase[c] = "wiring" /\ n < Len(registry) /\ Len(registry) \in Nat
  BY <1>0, <1>1 DEF StartConsumer
<1>3. PICK q \in Queues : q = registry[n + 1]
  BY <1>0, <1>2, SeqMember
<1>4. /\ consuming' = [consuming EXCEPT ![c] = Append(consuming[c], q)]
      /\ UNCHANGED <<phase, channel, registry, subscribing, granted, shutDown>>
  BY <1>1, <1>3 DEF StartConsumer, loopVars, callVars
<1>5. /\ consuming'[c] = Append(consuming[c], q)
      /\ \A a \in Attempts \ {c} : consuming'[a] = consuming[a]
  BY <1>0, <1>4
<1>6. /\ Len(consuming'[c]) = n + 1
      /\ \A i \in 1..n : consuming'[c][i] = consuming[c][i]
      /\ consuming'[c][n + 1] = q
  BY <1>0, <1>1, <1>5, AppendProperties
<1>7. ASSUME NEW i \in 1..Len(consuming'[c]) PROVE consuming'[c][i] = registry[i]
  <2>1. i \in 1..n \/ i = n + 1
    BY <1>6
  <2>2. \A j \in 1..n : consuming[c][j] = registry[j]
    BY <1>0, <1>1 DEF ConsumerInv
  <2>3. QED
    BY <2>1, <2>2, <1>3, <1>6
<1>8. channel = NoAttempt
  BY <1>2 DEF SupervisionInv, TypeOK, LoopInv, NobodyInFlight, InFlight
<1>9. \A a \in Attempts : subscribing[a] = <<>>
  BY <1>8, NoAttemptAssumption DEF SupervisionInv, ConsumerInv
<1>10. QED
  BY <1>0, <1>2, <1>4, <1>5, <1>6, <1>7, <1>8, <1>9 DEF ConsumerInv

(* The reply of consume() finds the published channel with nothing left to *)
(* replay, and every other connection without a consumer (broker.ts:321-   *)
(* 325).                                                                   *)
LEMMA ReplyKeepsOrder ==
  ASSUME SupervisionInv, NEW c \in Attempts, ConsumeOk(c)
  PROVE  ConsumerInv'
<1>0. /\ ConsumerInv /\ registry \in Seq(Queues) /\ consuming[c] \in Seq(Queues)
      /\ consuming \in [Attempts -> Seq(Queues)] /\ subscribing \in [Attempts -> Seq(Queues)]
      /\ subscribing[c] # <<>>
  BY DEF SupervisionInv, TypeOK, ConsumeOk
<1>1. PICK n \in Nat : n = Len(consuming[c])
  BY <1>0
<1>2. PICK q \in Queues : q = Head(subscribing[c])
  BY <1>0, HeadTailProperties
<1>3. channel = c /\ phase[c] = "done" /\ n = Len(registry)
  BY <1>0, <1>1 DEF ConsumerInv, SupervisionInv, ConnectionInv
<1>4. /\ consuming' = [consuming EXCEPT ![c] = Append(consuming[c], q)]
      /\ registry' = Append(registry, q) /\ granted' = Append(granted, q)
      /\ subscribing' = [subscribing EXCEPT ![c] = Tail(subscribing[c])]
      /\ UNCHANGED <<phase, channel, shutDown>>
  BY <1>2 DEF ConsumeOk, loopVars
<1>5. /\ consuming'[c] = Append(consuming[c], q)
      /\ \A a \in Attempts \ {c} :
           consuming'[a] = consuming[a] /\ subscribing'[a] = subscribing[a]
  BY <1>0, <1>4
<1>6. /\ Len(consuming'[c]) = n + 1
      /\ \A i \in 1..n : consuming'[c][i] = consuming[c][i]
      /\ consuming'[c][n + 1] = q
  BY <1>0, <1>1, <1>5, AppendProperties
<1>7. /\ Len(registry') = n + 1
      /\ \A i \in 1..n : registry'[i] = registry[i]
      /\ registry'[n + 1] = q
  BY <1>0, <1>3, <1>4, AppendProperties
<1>8. ASSUME NEW i \in 1..Len(consuming'[c]) PROVE consuming'[c][i] = registry'[i]
  <2>1. i \in 1..n \/ i = n + 1
    BY <1>6
  <2>2. \A j \in 1..n : consuming[c][j] = registry[j]
    BY <1>0, <1>1 DEF ConsumerInv
  <2>3. QED
    BY <2>1, <2>2, <1>6, <1>7
<1>9. ASSUME NEW a \in Attempts \ {c}
      PROVE  consuming'[a] = <<>> /\ subscribing'[a] = <<>> /\ phase[a] # "wired"
  <2>1. phase[a] \notin {"wiring", "wired", "done"} /\ channel # a
    BY <1>3, NoAttemptAssumption
       DEF SupervisionInv, ConnectionInv, LoopInv, NobodyInFlight, InFlight
  <2>2. QED
    BY <1>0, <1>5, <2>1 DEF ConsumerInv
<1>10. granted' = registry'
  BY <1>0, <1>4 DEF ConsumerInv
<1>11. Len(<<>>) = 0 /\ n + 1 >= 0
  OBVIOUS
<1>12. ASSUME NEW a \in Attempts
       PROVE  /\ Len(consuming'[a]) <= Len(registry')
              /\ \A i \in 1..Len(consuming'[a]) : consuming'[a][i] = registry'[i]
              /\ consuming'[a] # <<>> => phase'[a] \in {"wiring", "wired", "done"}
              /\ phase'[a] = "wired" => Len(consuming'[a]) = Len(registry')
              /\ subscribing'[a] # <<>> =>
                   channel' = a /\ Len(consuming'[a]) = Len(registry')
  <2>1. CASE a = c
    BY <1>3, <1>4, <1>6, <1>7, <1>8, <2>1
  <2>2. CASE a # c
    BY <1>4, <1>7, <1>9, <1>11, <2>2
  <2>3. QED
    BY <2>1, <2>2
<1>13. Len(consuming'[channel']) = Len(registry')
  BY <1>3, <1>4, <1>6, <1>7
<1>14. QED
  BY <1>10, <1>12, <1>13 DEF ConsumerInv

(* Consumers keep following the registry, and the registry what has been   *)
(* granted: a consumer is added to a connection by the replay, which goes  *)
(* on where it was, or by the reply of consume() on the published channel, *)
(* which has no registration left to replay.                               *)
LEMMA ConsumerStep ==
  ASSUME Undisturbed', TypeInv, TypeOK', SupervisionInv, [Next]_vars
  PROVE  ConsumerInv'
<1> USE NoAttemptAssumption
    DEF SupervisionInv, TypeOK, Phases, Callers, LoopInv, ConnectionInv, ConsumerInv,
        CallerInv, NobodyInFlight, InFlight, envVars, connVars, loopVars, callVars
<1>1. CASE Outage
  BY <1>1 DEF Outage
<1>2. CASE Recover
  BY <1>2 DEF Recover
<1>3. ASSUME NEW c \in Attempts, DialOk(c) PROVE ConsumerInv'
  BY <1>3 DEF DialOk
<1>4. ASSUME NEW c \in Attempts, AbortDone(c) PROVE ConsumerInv'
  BY <1>4 DEF AbortDone, Forget
<1>5. ASSUME NEW c \in Attempts, DialFail(c) PROVE ConsumerInv'
  BY <1>5 DEF DialFail, ScheduleReconnect, CatchTimers, ThrowIfInitial
<1>6. ASSUME NEW c \in Attempts, StartConsumer(c) PROVE ConsumerInv'
  BY <1>6, ReplayKeepsOrder
<1>7. ASSUME NEW c \in Attempts, WiringReply(c) PROVE ConsumerInv'
  BY <1>7 DEF WiringReply
<1>8. ASSUME NEW c \in Attempts, Assign(c) PROVE ConsumerInv'
  BY <1>8 DEF Assign
<1>9. ASSUME NEW c \in Attempts, WiringLost(c) PROVE ConsumerInv'
  BY <1>9 DEF WiringLost, ScheduleReconnect, GoneTimers, CatchTimers, ThrowIfInitial, Forget
<1>10. ASSUME NEW c \in Attempts, ConnectionLost(c) PROVE ConsumerInv'
  BY <1>10 DEF ConnectionLost, ScheduleReconnect, GoneTimers, Forget
<1>11. ASSUME NEW c \in Attempts, TimerFires(c) PROVE ConsumerInv'
  BY <1>11 DEF TimerFires
<1>12. ASSUME NEW q \in Queues, Consume(q) PROVE ConsumerInv'
  BY <1>12 DEF Consume
<1>13. ASSUME NEW c \in Attempts, ConsumeOk(c) PROVE ConsumerInv'
  BY <1>13, ReplyKeepsOrder
<1>14. CASE Close
  BY <1>14 DEF Close
<1>15. CASE CloseChannelDone
  BY <1>15 DEF CloseChannelDone
<1>16. CASE CloseConnectionDone
  <2>1. CASE phase[closing] = "done"
    <3>1. /\ closing \in Attempts /\ channel' = NoAttempt
          /\ phase' = [phase EXCEPT ![closing] = "idle"]
          /\ consuming' = [consuming EXCEPT ![closing] = <<>>]
          /\ subscribing' = [subscribing EXCEPT ![closing] = <<>>]
          /\ UNCHANGED <<registry, granted, shutDown>>
      BY <1>16, <2>1 DEF CloseConnectionDone, Forget
    <3>2. Len(registry) \in Nat /\ Len(<<>>) = 0
      OBVIOUS
    <3>3. channel \in {NoAttempt, closing}
      BY <1>16 DEF CloseConnectionDone
    <3>4. \A a \in Attempts : subscribing'[a] = <<>>
      BY <3>1, <3>3
    <3>5. QED
      BY <3>1, <3>2, <3>4
  <2>2. CASE phase[closing] # "done"
    <3>1. /\ channel' = NoAttempt
          /\ UNCHANGED <<phase, consuming, subscribing, registry, granted, shutDown>>
      BY <1>16, <2>2 DEF CloseConnectionDone
    <3>2. channel = NoAttempt
      BY <1>16, <2>2 DEF CloseConnectionDone
    <3>3. QED
      BY <3>1, <3>2
  <2>3. QED
    BY <2>1, <2>2
<1>17. CASE UNCHANGED vars
  BY <1>17 DEF vars
<1>18. QED
  BY UndisturbedSteps, <1>1, <1>2, <1>3, <1>4, <1>5, <1>6, <1>7, <1>8, <1>9,
     <1>10, <1>11, <1>12, <1>13, <1>14, <1>15, <1>16, <1>17
     DEF CoreNext

(* The caller keeps being told the truth.                                   *)
LEMMA CallerStep ==
  ASSUME Undisturbed', TypeInv, TypeOK', SupervisionInv, [Next]_vars
  PROVE  CallerInv'
<1> USE NoAttemptAssumption
    DEF SupervisionInv, TypeOK, Phases, Callers, LoopInv, ConnectionInv, ConsumerInv,
        CallerInv, NobodyInFlight, InFlight, envVars, connVars, loopVars, callVars
<1>1. CASE Outage
  BY <1>1 DEF Outage
<1>2. CASE Recover
  BY <1>2 DEF Recover
<1>3. ASSUME NEW c \in Attempts, DialOk(c) PROVE CallerInv'
  BY <1>3 DEF DialOk
<1>4. ASSUME NEW c \in Attempts, AbortDone(c) PROVE CallerInv'
  BY <1>4 DEF AbortDone, Forget
<1>5. ASSUME NEW c \in Attempts, DialFail(c) PROVE CallerInv'
  BY <1>5 DEF DialFail, ScheduleReconnect, CatchTimers, ThrowIfInitial
<1>6. ASSUME NEW c \in Attempts, StartConsumer(c) PROVE CallerInv'
  BY <1>6 DEF StartConsumer
<1>7. ASSUME NEW c \in Attempts, WiringReply(c) PROVE CallerInv'
  BY <1>7 DEF WiringReply
<1>8. ASSUME NEW c \in Attempts, Assign(c) PROVE CallerInv'
  BY <1>8 DEF Assign
<1>9. ASSUME NEW c \in Attempts, WiringLost(c) PROVE CallerInv'
  BY <1>9 DEF WiringLost, ScheduleReconnect, GoneTimers, CatchTimers, ThrowIfInitial, Forget
<1>10. ASSUME NEW c \in Attempts, ConnectionLost(c) PROVE CallerInv'
  BY <1>10 DEF ConnectionLost, ScheduleReconnect, GoneTimers, Forget
<1>11. ASSUME NEW c \in Attempts, TimerFires(c) PROVE CallerInv'
  BY <1>11 DEF TimerFires
<1>12. ASSUME NEW q \in Queues, Consume(q) PROVE CallerInv'
  BY <1>12 DEF Consume
<1>13. ASSUME NEW c \in Attempts, ConsumeOk(c) PROVE CallerInv'
  <2>1. channel = c /\ channel \in Attempts
    BY <1>13 DEF ConsumeOk
  <2>2. caller \notin {"creating", "failed"}
    BY <2>1
  <2>3. UNCHANGED <<phase, initial, channel, timers, shutDown, status, caller, closing>>
    BY <1>13 DEF ConsumeOk
  <2>4. QED
    BY <2>1, <2>2, <2>3
<1>14. CASE Close
  BY <1>14 DEF Close
<1>15. CASE CloseChannelDone
  BY <1>15 DEF CloseChannelDone
<1>16. CASE CloseConnectionDone
  BY <1>16 DEF CloseConnectionDone, Forget
<1>17. CASE UNCHANGED vars
  BY <1>17 DEF vars
<1>18. QED
  BY UndisturbedSteps, <1>1, <1>2, <1>3, <1>4, <1>5, <1>6, <1>7, <1>8, <1>9,
     <1>10, <1>11, <1>12, <1>13, <1>14, <1>15, <1>16, <1>17
     DEF CoreNext

-----------------------------------------------------------------------------
(* The supervision invariant holds at the start.                           *)
LEMMA SupervisionInit ==
  ASSUME Init
  PROVE  SupervisionInv
<1> USE NoAttemptAssumption DEF Init, NobodyInFlight, InFlight
<1>1. TypeOK
  BY TypeInit DEF TypeInv
<1>2. LoopInv
  BY DEF LoopInv
<1>3. ConnectionInv
  BY DEF ConnectionInv
<1>4. ConsumerInv
  BY DEF ConsumerInv
<1>5. CallerInv
  BY DEF CallerInv
<1>6. QED
  BY <1>1, <1>2, <1>3, <1>4, <1>5 DEF SupervisionInv

(* Where the loop, the sockets and the caller stand, at every moment.      *)
LEMMA SupervisionInvariant == Spec => [](Undisturbed => SupervisionInv)
<1>1. Init => (Undisturbed => SupervisionInv)
  BY SupervisionInit
<1>2. TypeInv /\ TypeInv' /\ (Undisturbed => SupervisionInv) /\ [Next]_vars
        => (Undisturbed => SupervisionInv)'
  <2> SUFFICES ASSUME TypeInv, TypeInv', Undisturbed => SupervisionInv, [Next]_vars, Undisturbed'
               PROVE  SupervisionInv'
    OBVIOUS
  <2>1. TypeOK' /\ SupervisionInv
    BY FaultsGrow DEF TypeInv
  <2>2. QED
    BY <2>1, LoopStep, ConnectionStep, ConsumerStep, CallerStep DEF SupervisionInv
<1>3. QED
  BY <1>1, <1>2, TypeInvariant, PTL DEF Spec

(* A published channel carries the whole registry, in its order.           *)
LEMMA FullReplay ==
  ASSUME SupervisionInv, channel # NoAttempt, ~shutDown
  PROVE  consuming[channel] = registry
<1>1. /\ channel \in Attempts
      /\ consuming[channel] \in Seq(Queues) /\ registry \in Seq(Queues)
      /\ Len(consuming[channel]) = Len(registry)
      /\ \A i \in 1..Len(consuming[channel]) : consuming[channel][i] = registry[i]
  BY DEF SupervisionInv, TypeOK, ConsumerInv
<1>2. QED
  BY <1>1, SeqEqual

(* There is one reconnect loop, for any number of outages and consumers    *)
(* (broker.ts:91-94, 246).                                                 *)
THEOREM OneLoop == Spec => []SingleLoop
<1>1. (Undisturbed => SupervisionInv) => SingleLoop
  <2> SUFFICES ASSUME Undisturbed, SupervisionInv PROVE SingleLoop
    BY DEF SingleLoop
  <2>1. InFlightAttempts = {} <=> NobodyInFlight
    BY DEF InFlightAttempts, NobodyInFlight
  <2>2. QED
    BY <2>1 DEF SupervisionInv, LoopInv, SingleLoop, InFlightAttempts
<1>2. QED
  BY <1>1, SupervisionInvariant, PTL

(* The owner of a broker always has a channel, an attempt or a timer       *)
(* (broker.ts:24-29).                                                      *)
THEOREM OwnerNotStranded == Spec => []NeverStranded
<1>1. (Undisturbed => SupervisionInv) => NeverStranded
  <2> SUFFICES ASSUME Undisturbed, SupervisionInv PROVE NeverStranded
    BY DEF NeverStranded
  <2>1. CASE caller = "creating"
    <3>1. initial \in Attempts /\ InFlight(initial)
      BY <2>1 DEF SupervisionInv, CallerInv, TypeOK, InFlight
    <3>2. QED
      BY <3>1 DEF NeverStranded, InFlightAttempts
  <2>2. CASE caller = "owned"
    BY <2>2 DEF SupervisionInv, CallerInv, NeverStranded, InFlightAttempts, NobodyInFlight
  <2>3. QED
    BY <2>1, <2>2 DEF NeverStranded
<1>2. QED
  BY <1>1, SupervisionInvariant, PTL

(* "connected" means an open connection on which every registered consumer *)
(* runs (broker.ts:212-224, 244).                                          *)
THEOREM ConnectedCorrect == Spec => []ConnectedIsTrue
<1>1. (Undisturbed => SupervisionInv) => ConnectedIsTrue
  <2> SUFFICES ASSUME Undisturbed, SupervisionInv, ~shutDown
               PROVE  /\ status = "connected" <=> channel # NoAttempt
                      /\ channel # NoAttempt =>
                           /\ channel \in open
                           /\ Range(registry) \subseteq Range(consuming[channel])
    BY DEF ConnectedIsTrue
  <2>1. status = "connected" <=> channel # NoAttempt
    BY DEF SupervisionInv, CallerInv
  <2>2. ASSUME channel # NoAttempt
        PROVE  channel \in open /\ consuming[channel] = registry
    BY <2>2, FullReplay DEF SupervisionInv, TypeOK, ConnectionInv
  <2>3. QED
    BY <2>1, <2>2
<1>2. QED
  BY <1>1, SupervisionInvariant, PTL

(* A published channel runs one consumer for each call of consume() that   *)
(* returned and no other, whatever was lost in between and however often   *)
(* the registry was replayed (broker.ts:90, 208-210, 312-325).             *)
THEOREM ConsumersFollowGrants == Spec => []ConsumersAsGranted
<1>1. (Undisturbed => SupervisionInv) => ConsumersAsGranted
  <2> SUFFICES ASSUME Undisturbed, SupervisionInv PROVE ConsumersAsGranted
    BY DEF ConsumersAsGranted
  <2>1. \A a \in Attempts :
          /\ Len(consuming[a]) <= Len(granted)
          /\ \A i \in 1..Len(consuming[a]) : consuming[a][i] = granted[i]
    BY DEF SupervisionInv, ConsumerInv
  <2>2. channel # NoAttempt /\ ~shutDown => consuming[channel] = granted
    BY FullReplay DEF SupervisionInv, ConsumerInv
  <2>3. ASSUME NEW a \in Attempts, NEW b \in Attempts,
               consuming[a] # <<>>, consuming[b] # <<>>
        PROVE  a = b
    <3>1. \A c \in {a, b} : InFlight(c) \/ channel = c
      BY <2>3 DEF SupervisionInv, ConnectionInv, ConsumerInv, InFlight
    <3>2. QED
      BY <3>1, NoAttemptAssumption DEF SupervisionInv, LoopInv, NobodyInFlight
  <2>4. QED
    BY <2>1, <2>2, <2>3 DEF ConsumersAsGranted
<1>2. QED
  BY <1>1, SupervisionInvariant, PTL

(* The two flags that silence the close handler are never left behind,     *)
(* whatever RabbitMQ does and however many loops run (broker.ts:246).      *)
THEOREM SilencersCorrect == Spec => []SilencersAreBacked
<1>1. Init => SilencersAreBacked
  BY DEF Init, SilencersAreBacked
<1>2. TypeInv /\ TypeInv' /\ SilencersAreBacked /\ [Next]_vars => SilencersAreBacked'
  <2> SUFFICES ASSUME TypeInv, TypeInv', SilencersAreBacked, [Next]_vars
               PROVE  SilencersAreBacked'
    OBVIOUS
  <2> DEFINE Busy(a) == phase[a] \in {"dialing", "wiring", "wired", "aborting"}
             Backed == establishing => \E a \in Attempts : Busy(a)
  <2>1. (timerRef => timers > 0)'
    BY DEF TypeInv, CountsOK
  <2>2. ~establishing' => Backed'
    OBVIOUS
  <2>3. Backed'
    <3> USE DEF TypeInv, TypeOK, SilencersAreBacked, Phases,
                envVars, connVars, loopVars, callVars
    <3>1. ASSUME NEW a \in Attempts,
                 DialOk(a) \/ WiringReply(a) \/ TimerFires(a)
          PROVE  Backed'
      BY <3>1 DEF DialOk, WiringReply, TimerFires
    <3>2. ASSUME NEW a \in Attempts,
                 AbortDone(a) \/ DialFail(a) \/ Assign(a) \/ WiringLost(a)
                   \/ WiringChannelFault(a)
          PROVE  ~establishing'
      BY <3>2 DEF AbortDone, DialFail, Assign, WiringLost, WiringChannelFault
    <3>3. ASSUME NEW a \in Attempts, FailingClosed(a) \/ ConnectionLost(a)
          PROVE  Backed'
      BY <3>3 DEF FailingClosed, ConnectionLost
    <3>4. CASE CloseConnectionDone
      BY <3>4 DEF CloseConnectionDone
    <3>5. ASSUME phase' = phase, establishing' = establishing
          PROVE  Backed'
      BY <3>5
    <3>6. QED
      BY <2>2, <3>1, <3>2, <3>3, <3>4, <3>5
         DEF Next, Establish, CloseStep, vars, Outage, Recover, StartConsumer, WiredLost,
             ChannelFault, Consume, ConsumeOk, Close, CloseChannelDone
  <2>4. QED
    BY <2>1, <2>3 DEF SilencersAreBacked
<1>3. QED
  BY <1>1, <1>2, TypeInvariant, PTL DEF Spec

-----------------------------------------------------------------------------
(***************************************************************************)
(* The refinement: BrokerAdapter implements ServiceLink.                   *)
(***************************************************************************)

(* What the mapping amounts to while the caller owns the broker.           *)

(* A queue is live when some attempt consumes it.                          *)
LEMMA LiveMembers ==
  ASSUME caller = "owned"
  PROVE  \A q : q \in LinkLive <=> \E a \in Attempts : q \in Range(consuming[a])
BY DEF LinkLive

(* One more entry of a list is one more member.                            *)
LEMMA RangeAppend ==
  ASSUME NEW S, NEW s \in Seq(S), NEW e \in S
  PROVE  Range(Append(s, e)) = Range(s) \cup {e}
<1>1. /\ DOMAIN s = 1..Len(s) /\ Len(s) \in Nat
      /\ DOMAIN Append(s, e) = 1..(Len(s) + 1)
      /\ \A i \in 1..Len(s) : Append(s, e)[i] = s[i]
      /\ Append(s, e)[Len(s) + 1] = e
  BY AppendProperties
<1>2. \A i : i \in 1..(Len(s) + 1) <=> i \in 1..Len(s) \/ i = Len(s) + 1
  BY <1>1
<1>3. QED
  BY <1>1, <1>2 DEF Range

(* An empty list has no members.                                           *)
LEMMA RangeEmpty == Range(<<>>) = {}
BY DEF Range

(* What a connection consumes is registered.                               *)
LEMMA LiveWithin ==
  ASSUME SupervisionInv
  PROVE  \A a \in Attempts : Range(consuming[a]) \subseteq Range(registry)
<1> SUFFICES ASSUME NEW a \in Attempts
             PROVE  Range(consuming[a]) \subseteq Range(registry)
  OBVIOUS
<1>1. /\ consuming[a] \in Seq(Queues) /\ registry \in Seq(Queues)
      /\ Len(consuming[a]) <= Len(registry)
      /\ \A i \in 1..Len(consuming[a]) : consuming[a][i] = registry[i]
  BY DEF SupervisionInv, TypeOK, ConsumerInv
<1>2. /\ DOMAIN consuming[a] = 1..Len(consuming[a]) /\ Len(consuming[a]) \in Nat
      /\ DOMAIN registry = 1..Len(registry) /\ Len(registry) \in Nat
  BY <1>1
<1>3. 1..Len(consuming[a]) \subseteq 1..Len(registry)
  BY <1>1, <1>2
<1>4. QED
  BY <1>1, <1>2, <1>3 DEF Range

(* On a published channel exactly the registered consumers are live.       *)
LEMMA LiveOnChannel ==
  ASSUME SupervisionInv, caller = "owned", channel # NoAttempt
  PROVE  LinkLive = Range(registry)
<1>1. channel \in Attempts /\ ~shutDown
  BY DEF SupervisionInv, TypeOK, CallerInv
<1>2. consuming[channel] = registry
  BY <1>1, FullReplay
<1>3. QED
  BY <1>1, <1>2, LiveWithin DEF LinkLive

(* Steps that leave the mapped variables alone.                            *)
LEMMA Invisible ==
  ASSUME caller' = caller, channel' = channel, consuming' = consuming, registry' = registry
  PROVE  UNCHANGED Link!linkVars
BY DEF Link!linkVars, LinkStage, LinkLive, LinkRegistered

(* A step that the caller does not own is seen by its stage alone.         *)
LEMMA InvisibleUnowned ==
  ASSUME caller # "owned", caller' # "owned", LinkStage' = LinkStage
  PROVE  UNCHANGED Link!linkVars
BY DEF Link!linkVars, LinkLive, LinkRegistered

-----------------------------------------------------------------------------
(* Every step of the adapter is a step of the link or leaves it alone.     *)
LEMMA LinkStep ==
  ASSUME Undisturbed', TypeInv, SupervisionInv, SupervisionInv', [Next]_vars
  PROVE  [Link!LinkNext]_(Link!linkVars)
<1> USE NoAttemptAssumption
<1>1. CASE Outage \/ Recover
  BY <1>1, Invisible DEF Outage, Recover, connVars, loopVars, callVars
<1>2. ASSUME NEW a \in Attempts, DialOk(a) \/ WiringReply(a) \/ TimerFires(a)
      PROVE  UNCHANGED Link!linkVars
  BY <1>2, Invisible DEF DialOk, WiringReply, TimerFires, loopVars, callVars
<1>3. ASSUME NEW a \in Attempts, AbortDone(a)
      PROVE  UNCHANGED Link!linkVars
  <2>1. caller # "owned" /\ caller' = caller /\ channel' = channel
    BY <1>3 DEF AbortDone, SupervisionInv, ConnectionInv, CallerInv
  <2>2. QED
    BY <2>1, InvisibleUnowned DEF LinkStage
<1>4. ASSUME NEW a \in Attempts, DialFail(a)
      PROVE  [Link!LinkNext]_(Link!linkVars)
  <2>1. CASE a = initial
    <3>1. caller = "creating" /\ caller' = "failed"
      BY <1>4, <2>1 DEF DialFail, ThrowIfInitial, SupervisionInv, CallerInv
    <3>2. Link!CreateFailed
      BY <3>1 DEF Link!CreateFailed, LinkStage, LinkLive, LinkRegistered
    <3>3. QED
      BY <3>2 DEF Link!LinkNext
  <2>2. CASE a # initial
    BY <1>4, <2>2, Invisible DEF DialFail, ThrowIfInitial
  <2>3. QED
    BY <2>1, <2>2
<1>5. ASSUME NEW a \in Attempts, StartConsumer(a)
      PROVE  [Link!LinkNext]_(Link!linkVars)
  <2>0. PICK q \in Queues : q = registry[Len(consuming[a]) + 1]
    BY <1>5 DEF StartConsumer, SupervisionInv, TypeOK
  <2>1. caller' = caller /\ channel' = channel /\ registry' = registry
        /\ consuming' = [consuming EXCEPT ![a] = Append(@, q)]
    BY <1>5, <2>0 DEF StartConsumer, loopVars, callVars
  <2>2. CASE caller # "owned"
    BY <2>1, <2>2, InvisibleUnowned DEF LinkStage
  <2>3. CASE caller = "owned"
    <3>1. channel = NoAttempt /\ q \in Range(registry)
      <4>1. /\ channel = NoAttempt /\ registry \in Seq(Queues)
            /\ Len(consuming[a]) \in Nat /\ Len(consuming[a]) < Len(registry)
        BY <1>5 DEF StartConsumer, SupervisionInv, TypeOK, LoopInv, NobodyInFlight, InFlight
      <4>2. Len(consuming[a]) + 1 \in DOMAIN registry
        BY <4>1
      <4>3. QED
        BY <2>0, <4>1, <4>2 DEF Range
    <3>2. \A b \in Attempts \ {a} : consuming[b] = <<>>
      BY <1>5, <3>1
         DEF StartConsumer, SupervisionInv, ConnectionInv, ConsumerInv, LoopInv, InFlight
    <3>3. consuming'[a] = Append(consuming[a], q) /\ consuming[a] \in Seq(Queues)
          /\ \A b \in Attempts \ {a} : consuming'[b] = <<>>
      BY <2>1, <3>2 DEF SupervisionInv, TypeOK
    <3>4. LinkLive = Range(consuming[a]) /\ LinkLive' = Range(consuming[a]) \cup {q}
      <4>1. Range(consuming'[a]) = Range(consuming[a]) \cup {q}
        BY <3>3, RangeAppend
      <4>2. LinkLive = Range(consuming[a])
        BY <2>3, <3>2, RangeEmpty DEF LinkLive
      <4>3. LinkLive' = Range(consuming'[a])
        BY <2>1, <2>3, <3>3, RangeEmpty DEF LinkLive
      <4>4. QED
        BY <4>1, <4>2, <4>3
    <3>5. CASE q \in LinkLive
      BY <2>1, <2>3, <3>4, <3>5 DEF Link!linkVars, LinkStage, LinkRegistered
    <3>6. CASE q \notin LinkLive
      <4>1. Link!Replay(q)
        BY <2>1, <2>3, <3>1, <3>4, <3>6 DEF Link!Replay, LinkStage, LinkRegistered
      <4>2. QED
        BY <4>1 DEF Link!LinkNext
    <3>7. QED
      BY <3>5, <3>6
  <2>4. QED
    BY <2>2, <2>3
<1>6. ASSUME NEW a \in Attempts, Assign(a)
      PROVE  [Link!LinkNext]_(Link!linkVars)
  <2>1. channel = NoAttempt /\ channel' = a /\ registry' = registry
        /\ caller' = IF a = initial THEN "owned" ELSE caller
    BY <1>6 DEF Assign, SupervisionInv, LoopInv, NobodyInFlight, InFlight, TypeOK
  <2>2. CASE a = initial
    <3>1. caller = "creating" /\ caller' = "owned" /\ registry = <<>>
      BY <2>1, <2>2 DEF SupervisionInv, CallerInv
    <3>2. LinkLive' = {} /\ LinkLive = {}
      <4>1. \A b \in Attempts : Range(consuming[b]) = {}
        BY <3>1, LiveWithin, RangeEmpty
      <4>2. consuming' = consuming
        BY <1>6 DEF Assign
      <4>3. QED
        BY <4>1, <4>2 DEF LinkLive
    <3>3. Link!Opened
      BY <1>6, <2>1, <3>1, <3>2, RangeEmpty DEF Assign, Link!Opened, LinkStage, LinkRegistered
    <3>4. QED
      BY <3>3 DEF Link!LinkNext
  <2>3. CASE a # initial /\ caller # "owned"
    BY <2>1, <2>3, InvisibleUnowned DEF LinkStage
  <2>4. CASE a # initial /\ caller = "owned"
    <3>1. LinkLive = Range(registry)
      <4>1. consuming[a] \in Seq(Queues) /\ registry \in Seq(Queues)
            /\ Len(consuming[a]) = Len(registry)
            /\ \A i \in 1..Len(consuming[a]) : consuming[a][i] = registry[i]
        BY <1>6 DEF Assign, SupervisionInv, TypeOK, ConsumerInv
      <4>2. consuming[a] = registry
        BY <4>1, SeqEqual
      <4>3. QED
        BY <2>4, <4>2, LiveWithin DEF LinkLive
    <3>2. LinkLive' = LinkLive
      <4>1. caller' = caller /\ consuming' = consuming
        BY <1>6, <2>1, <2>4 DEF Assign
      <4>2. QED
        BY <4>1 DEF LinkLive
    <3>3. Link!Resumed
      BY <2>1, <2>4, <3>1, <3>2 DEF Link!Resumed, LinkStage, LinkRegistered
    <3>4. QED
      BY <3>3 DEF Link!LinkNext
  <2>5. QED
    BY <2>2, <2>3, <2>4
<1>7. ASSUME NEW a \in Attempts, WiringLost(a)
      PROVE  [Link!LinkNext]_(Link!linkVars)
  <2>1. channel' = NoAttempt /\ channel = NoAttempt /\ registry' = registry
    BY <1>7 DEF WiringLost, SupervisionInv, LoopInv, NobodyInFlight, InFlight
  <2>2. CASE a = initial
    <3>1. caller = "creating" /\ caller' = "failed"
      BY <1>7, <2>2 DEF WiringLost, ThrowIfInitial, SupervisionInv, CallerInv
    <3>2. Link!CreateFailed
      BY <3>1 DEF Link!CreateFailed, LinkStage, LinkLive, LinkRegistered
    <3>3. QED
      BY <3>2 DEF Link!LinkNext
  <2>3. CASE a # initial
    <3>1. caller' = caller
      BY <1>7, <2>3 DEF WiringLost, ThrowIfInitial
    <3>2. CASE caller # "owned"
      BY <2>1, <3>1, <3>2, InvisibleUnowned DEF LinkStage
    <3>3. CASE caller = "owned"
      <4>1. \A b \in Attempts \ {a} : consuming[b] = <<>>
        BY <1>7, <2>1
           DEF WiringLost, SupervisionInv, ConnectionInv, ConsumerInv, LoopInv, InFlight
      <4>2. \A b \in Attempts : consuming'[b] = <<>>
        BY <1>7, <4>1 DEF WiringLost, Forget, SupervisionInv, TypeOK
      <4>3. LinkLive' = {}
        BY <4>2, RangeEmpty DEF LinkLive
      <4>4. Link!ReplayLost
        BY <2>1, <3>1, <3>3, <4>3 DEF Link!ReplayLost, LinkStage, LinkRegistered
      <4>5. QED
        BY <4>4 DEF Link!LinkNext
    <3>4. QED
      BY <3>2, <3>3
  <2>4. QED
    BY <2>2, <2>3
<1>8. ASSUME NEW a \in Attempts, ConnectionLost(a)
      PROVE  [Link!LinkNext]_(Link!linkVars)
  <2>1. channel = a /\ channel' = NoAttempt /\ caller' = caller /\ registry' = registry
    BY <1>8 DEF ConnectionLost, SupervisionInv, ConnectionInv
  <2>2. CASE caller # "owned"
    BY <2>1, <2>2, InvisibleUnowned DEF LinkStage
  <2>3. CASE caller = "owned"
    <3>1. \A b \in Attempts \ {a} : consuming[b] = <<>>
      BY <2>1 DEF SupervisionInv, ConnectionInv, ConsumerInv, LoopInv, NobodyInFlight, InFlight
    <3>2. \A b \in Attempts : consuming'[b] = <<>>
      BY <1>8, <3>1 DEF ConnectionLost, Forget, SupervisionInv, TypeOK
    <3>3. LinkLive' = {}
      BY <3>2, RangeEmpty DEF LinkLive
    <3>4. Link!Lost
      BY <2>1, <2>3, <3>3 DEF Link!Lost, LinkStage, LinkRegistered
    <3>5. QED
      BY <3>4 DEF Link!LinkNext
  <2>4. QED
    BY <2>2, <2>3
<1>9. ASSUME NEW q \in Queues, Consume(q)
      PROVE  UNCHANGED Link!linkVars
  BY <1>9, Invisible DEF Consume, connVars, loopVars
<1>10. ASSUME NEW a \in Attempts, ConsumeOk(a)
       PROVE  [Link!LinkNext]_(Link!linkVars)
  <2>0. PICK q \in Queues : q = Head(subscribing[a])
    BY <1>10, HeadTailProperties DEF ConsumeOk, SupervisionInv, TypeOK
  <2>1. channel = a /\ channel # NoAttempt
    BY <1>10, NoAttemptAssumption DEF ConsumeOk, SupervisionInv, ConsumerInv
  <2>2. /\ caller' = caller /\ channel' = channel /\ registry' = Append(registry, q)
        /\ consuming' = [consuming EXCEPT ![a] = Append(@, q)]
    BY <1>10, <2>0 DEF ConsumeOk, loopVars
  <2>3. CASE caller # "owned"
    BY <2>2, <2>3, InvisibleUnowned DEF LinkStage
  <2>4. CASE caller = "owned"
    <3>1. LinkLive = Range(registry) /\ consuming[a] = registry /\ registry \in Seq(Queues)
      BY <2>1, <2>4, LiveOnChannel, FullReplay DEF SupervisionInv, TypeOK, CallerInv
    <3>2. Range(registry') = Range(registry) \cup {q}
      BY <2>2, <3>1, RangeAppend
    <3>3. LinkLive' = Range(registry')
      <4>1. consuming'[a] = registry'
        BY <2>2, <3>1 DEF SupervisionInv, TypeOK
      <4>2. \A b \in Attempts \ {a} : consuming'[b] = <<>>
        BY <2>1, <2>2
           DEF SupervisionInv, TypeOK, ConnectionInv, ConsumerInv, LoopInv, NobodyInFlight,
               InFlight
      <4>3. QED
        BY <2>2, <2>4, <4>1, <4>2, RangeEmpty DEF LinkLive
    <3>4. CASE q \in Range(registry)
      BY <2>2, <2>4, <3>1, <3>2, <3>3, <3>4 DEF Link!linkVars, LinkStage, LinkRegistered
    <3>5. CASE q \notin Range(registry)
      <4>1. Link!Register(q)
        BY <2>1, <2>2, <2>4, <3>1, <3>2, <3>3, <3>5
           DEF Link!Register, LinkStage, LinkRegistered
      <4>2. QED
        BY <4>1 DEF Link!LinkNext
    <3>6. QED
      BY <3>4, <3>5
  <2>5. QED
    BY <2>3, <2>4
<1>11. CASE Close
  <2>1. caller = "owned" /\ caller' \in {"closingChannel", "closed"}
    BY <1>11 DEF Close
  <2>2. Link!Closed
    BY <2>1 DEF Link!Closed, LinkStage, LinkLive, LinkRegistered
  <2>3. QED
    BY <2>2 DEF Link!LinkNext
<1>12. CASE CloseChannelDone \/ CloseConnectionDone
  <2>1. /\ caller \in {"closingChannel", "closingConnection"}
        /\ caller' \in {"closingConnection", "closed"}
    BY <1>12 DEF CloseChannelDone, CloseConnectionDone
  <2>2. LinkStage = "closed" /\ LinkStage' = "closed"
    BY <2>1 DEF LinkStage
  <2>3. QED
    BY <2>1, <2>2, InvisibleUnowned
<1>13. CASE UNCHANGED vars
  BY <1>13, Invisible DEF vars, connVars, loopVars, callVars
<1>14. QED
  BY UndisturbedSteps, <1>1, <1>2, <1>3, <1>4, <1>5, <1>6, <1>7, <1>8, <1>9,
     <1>10, <1>11, <1>12, <1>13
     DEF CoreNext

(* The adapter keeps the contract of ServiceLink as long as connections    *)
(* are lost as a whole (broker.ts:268-340).                                *)
THEOREM AdapterImplementsLink == Spec /\ []Undisturbed => ImplementsLink
<1>1. Init => Link!LinkInit
  BY RangeEmpty DEF Init, Link!LinkInit, LinkStage, LinkLive, LinkRegistered
<1>2. TypeInv /\ Undisturbed /\ Undisturbed' /\ (Undisturbed => SupervisionInv)
        /\ (Undisturbed => SupervisionInv)' /\ [Next]_vars
          => [Link!LinkNext]_(Link!linkVars)
  BY LinkStep
<1>3. QED
  BY <1>1, <1>2, TypeInvariant, SupervisionInvariant, PTL
     DEF Spec, ImplementsLink, Link!LinkSpec
=============================================================================
