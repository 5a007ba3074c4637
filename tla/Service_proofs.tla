----------------------------- MODULE Service_proofs -----------------------------
(***************************************************************************)
(* Proofs about Service, for every value of its constants.                 *)
(***************************************************************************)
EXTENDS Service, TLAPS

InSession == SetupStages \cup {"select", "handle", "cleanup", "close"}

\* Where control is says what there is to work on: a session, and at its end the
\* error it ended with; and in the forwarder, a delivery.
Control ==
    /\ pc \in InSession => session \in Sessions
    /\ pc \in {"cleanup", "close"} => sessErr # "none"

Holding == \A s \in Sessions : fwd[s] = "send" => taken[s] # 0

TypeInv == TypeOK /\ Control /\ Holding

\* What the steps of Firehose that are not Run's leave alone.
Rest == UNCHANGED <<main, delay, loop, late>>

--------------------------------------------------------------------------------
(* Type correctness *)

LEMMA InitType == Init => TypeInv
<1> SUFFICES ASSUME Init PROVE TypeInv
    OBVIOUS
<1> USE BoundsAssumption, ServiceAssumption DEF Init, HoseInit, Sessions
<1>1. HoseTypeOK
  <2>1. session \in 0..MaxSessions
      OBVIOUS
  <2>0. cancelled \in BOOLEAN
      BY Zenon
  <2>2. /\ sent \in [Sessions -> 0..MaxDeliveries]
        /\ taken \in [Sessions -> 0..MaxDeliveries]
      OBVIOUS
  <2>3. /\ conn \in [Sessions -> ConnStates]
        /\ chan \in [Sessions -> ChanStates]
        /\ fwd \in [Sessions -> FwdStates]
      BY DEF ConnStates, ChanStates, FwdStates
  <2> QED
      BY <2>0, <2>1, <2>2, <2>3 DEF HoseTypeOK
<1>2. cur \in Delivery /\ handled \in [Sessions -> 0..MaxDeliveries]
    BY DEF Delivery
<1>3. rendered \in Seq(Delivery)
    OBVIOUS
<1>4. RunTypeOK
    BY <1>2, <1>3 DEF RunTypeOK
<1> QED
    BY <1>1, <1>4 DEF TypeInv, TypeOK, Control, Holding, SetupStages, InSession

LEMMA HoseType ==
    ASSUME NEW s \in Sessions, HoseTypeOK, Holding,
           Forward(s) \/ ShutdownChannel(s) \/ Broker(s)
    PROVE  HoseTypeOK' /\ Holding'
<1> USE BoundsAssumption DEF HoseTypeOK, Holding, Sessions, ConnStates, ChanStates,
        FwdStates, main, library, forwarder
<1>1. CASE FwdReceive(s)
  <2>1. taken[s] + 1 \in 0..MaxDeliveries
      BY <1>1 DEF FwdReceive
  <2> QED
      BY <1>1, <2>1 DEF FwdReceive
<1>2. CASE FwdStreamEnds(s)
    BY <1>2 DEF FwdStreamEnds
<1>3. CASE FwdCancelled(s)
    BY <1>3 DEF FwdCancelled
<1>4. CASE FwdCleanup(s)
    BY <1>4 DEF FwdCleanup, Closed
<1>5. CASE ShutdownChannel(s)
    BY <1>5 DEF ShutdownChannel
<1>6. CASE LoseConnection(s)
    BY <1>6 DEF LoseConnection
<1>7. CASE EndConsumer(s)
    BY <1>7 DEF EndConsumer
<1>8. CASE Push(s)
    BY <1>8 DEF Push
<1> QED
    BY <1>1, <1>2, <1>3, <1>4, <1>5, <1>6, <1>7, <1>8 DEF Forward, Broker

\* The two outcomes of rendering a delivery, without their bookkeeping.
LEMMA RenderSteps ==
    ASSUME Render
    PROVE  /\ pc = "handle"
           /\ rendered' = Append(rendered, cur)
           /\ matchedEvents' = matchedEvents + 1
           /\ \/ /\ LimitReached(matchedEvents + 1)
                 /\ pc' = "cleanup" /\ sessErr' = "max"
              \/ /\ ~LimitReached(matchedEvents + 1)
                 /\ pc' = "select" /\ sessErr' = sessErr
           /\ UNCHANGED <<cancelled, session, library, forwarder, delay, cur, renderer,
                          result, handled, late>>
<1>1. CASE LimitReached(matchedEvents + 1)
    BY <1>1 DEF Render, EndSession
<1>2. CASE ~LimitReached(matchedEvents + 1)
    BY <1>2 DEF Render, EndSession
<1> QED
    BY <1>1, <1>2

LEMMA NextType == TypeInv /\ [Next]_vars => TypeInv'
<1> SUFFICES ASSUME TypeInv, [Next]_vars PROVE TypeInv'
    OBVIOUS
<1> USE BoundsAssumption, ServiceAssumption
    DEF TypeInv, TypeOK, RunTypeOK, HoseTypeOK, Control, Holding, Sessions,
        ConnStates, ChanStates, FwdStates, SetupStages, InSession, main, library,
        forwarder, loop
<1>1. CASE StopAtTop
    BY <1>1 DEF StopAtTop
<1>2. CASE Connect
    BY <1>2 DEF Connect, Mgr!ConnectWithRetry
<1>3. CASE DialSucceeds
    BY <1>3 DEF DialSucceeds, Mgr!DialSucceeds
<1>4. CASE DialFails
    BY <1>4 DEF DialFails, Mgr!DialFails
<1>5. CASE TimerFires
    BY <1>5 DEF TimerFires, Mgr!TimerFires, Mgr!nextBackoff, Mgr!Wrap
<1>6. CASE WaitCancelled
    BY <1>6 DEF WaitCancelled, Mgr!WaitCancelled
<1>7. CASE SetupStep /\ UNCHANGED <<delay, loop, late>>
    BY <1>7 DEF SetupStep, SetupNext
<1>8. CASE SetupFails /\ UNCHANGED <<delay, loop, late>>
    BY <1>8 DEF SetupFails, Closed
<1>9. CASE SessionCancelled
    BY <1>9 DEF SessionCancelled, EndSession
<1>10. CASE ConnectionClosed
    BY <1>10 DEF ConnectionClosed, EndSession
<1>11. CASE StreamClosed
    BY <1>11 DEF StreamClosed, EndSession
<1>12. CASE Receive
  <2>1. taken[session] \in 1..MaxDeliveries
      BY <1>12 DEF Receive
  <2> QED
      BY <1>12, <2>1 DEF Receive, Delivery
<1>13. CASE Skip
    BY <1>13 DEF Skip
<1>14. CASE Render
  <2>1. rendered' \in Seq(Delivery)
      BY <1>14 DEF Render
  <2>2. RunTypeOK'
      BY <1>14, <2>1, RenderSteps
  <2>3. HoseTypeOK' /\ Holding'
      BY <1>14, RenderSteps
  <2>4. Control'
      BY <1>14, RenderSteps
  <2> QED
      BY <2>2, <2>3, <2>4
<1>15. CASE RenderFails
    BY <1>15 DEF RenderFails, EndSession
<1>16. CASE Cleanup
    BY <1>16 DEF Cleanup, Closed
<1>17. CASE CloseConnection
    BY <1>17 DEF CloseConnection, Closed, Verdict
<1>18. CASE CloseRenderer
    BY <1>18 DEF CloseRenderer
<1>19. ASSUME NEW s \in Sessions, Hose(Forward(s) \/ ShutdownChannel(s) \/ Broker(s))
       PROVE  TypeInv'
  <2>1. HoseTypeOK' /\ Holding'
      BY <1>19, HoseType DEF Hose
  <2>2. Rest
    <3>1. CASE Hose(Forward(s))
        BY <3>1 DEF Hose, Rest, Forward, FwdReceive, FwdStreamEnds, FwdCancelled,
                    FwdCleanup
    <3>2. CASE Hose(ShutdownChannel(s))
        BY <3>2 DEF Hose, Rest, ShutdownChannel
    <3>3. CASE Hose(Broker(s))
        BY <3>3 DEF Hose, Rest, Broker, LoseConnection, EndConsumer, Push
    <3> QED
        BY <1>19, <3>1, <3>2, <3>3 DEF Hose
  <2>3. RunTypeOK' /\ Control'
      BY <2>2 DEF Rest
  <2> QED
      BY <2>1, <2>3
<1>20. CASE Interrupt
  <2>1. HoseTypeOK' /\ Holding'
      BY <1>20 DEF Interrupt
  <2>2. Rest
      BY <1>20 DEF Interrupt, Rest
  <2>3. RunTypeOK' /\ Control'
      BY <2>2 DEF Rest
  <2> QED
      BY <2>1, <2>3
<1>21. CASE UNCHANGED vars
  <2>1. RunTypeOK'
      BY <1>21 DEF vars, hoseVars
  <2>2. HoseTypeOK' /\ Control' /\ Holding'
      BY <1>21 DEF vars, hoseVars
  <2> QED
      BY <2>1, <2>2
<1> QED
    BY <1>1, <1>2, <1>3, <1>4, <1>5, <1>6, <1>7, <1>8, <1>9, <1>10, <1>11, <1>12,
       <1>13, <1>14, <1>15, <1>16, <1>17, <1>18, <1>19, <1>20, <1>21
    DEF Next, Main, Setup, Terminated

\* Every variable of the inspector stays within its type, whatever the broker and
\* the user do.
THEOREM TypeCorrect == Spec => [](TypeOK /\ Control)
<1>1. TypeInv => TypeOK /\ Control
    BY DEF TypeInv
<1> QED
    BY InitType, NextType, <1>1, PTL DEF Spec

--------------------------------------------------------------------------------
(* One session at a time *)

\* Sessions not begun have nothing, and those that are over have released what
\* they had; the forwarder starts when the set-up is complete.
Resources ==
    /\ \A s \in Sessions :
          /\ s > session => conn[s] = "none" /\ chan[s] = "none" /\ fwd[s] = "none"
          /\ s < session \/ (s = session /\ pc \notin InSession) =>
                conn[s] = "closed" /\ chan[s] \in {"none", "closed"}
    /\ pc \in SetupStages => fwd[session] = "none"
    /\ pc = "connected" => chan[session] = "none"

\* A forwarder that was not started has received nothing; otherwise NoGap.
Flow == NoGap /\ \A s \in Sessions : fwd[s] = "none" => taken[s] = 0

\* The forwarder receives what was pushed, and no more.
Supplied == \A s \in Sessions : taken[s] <= sent[s]

Late ==
    /\ late \in {0, 1}
    /\ late = 1 => cancelled /\ pc \notin {"dial", "wait"}

\* matchedEvents, the error a session ends with and the result of Run.
Limit ==
    /\ LimitRespected
    /\ NilReturnJustified
    /\ pc \in {"cleanup", "close"} =>
          /\ sessErr = "max" => MaxEvents > 0 /\ matchedEvents = MaxEvents
          /\ sessErr = "ctx" => cancelled
    /\ renderer = "open" <=> pc # "exited"

\* What was rendered had been handed over, and precedes what is being handled.
Seen(d) == d[1] <= session /\ d[2] <= handled[d[1]]

Order ==
    /\ RenderedInOrder
    /\ pc = "handle" => cur = <<session, handled[session]>>
    /\ \A i \in 1..Len(rendered) :
          Seen(rendered[i]) /\ (pc = "handle" => Precedes(rendered[i], cur))

IInv == TypeInv /\ Resources /\ Flow /\ Supplied /\ Late /\ Limit /\ Order

LEMMA InitIInv == Init => IInv
<1> SUFFICES ASSUME Init PROVE IInv
    OBVIOUS
<1>1. TypeInv
    BY InitType
<1>2. Resources
    BY DEF Init, HoseInit, Resources, Sessions, SetupStages
<1>3. Flow
    BY DEF Init, HoseInit, Flow, NoGap
<1>7. Supplied
    BY DEF Init, HoseInit, Supplied
<1>4. Late
    BY DEF Init, HoseInit, Late
<1>5. Limit
    BY ServiceAssumption
    DEF Init, HoseInit, Limit, LimitRespected, NilReturnJustified
<1>6. Order
    BY DEF Init, Order, RenderedInOrder
<1> QED
    BY <1>1, <1>2, <1>3, <1>4, <1>5, <1>6, <1>7 DEF IInv

LEMMA ResourcesStep ==
    ASSUME TypeInv, Resources, [Next]_vars
    PROVE  Resources'
<1> USE BoundsAssumption
    DEF TypeInv, TypeOK, HoseTypeOK, Control, Resources, Sessions, SetupStages,
        InSession, main, library, forwarder
<1>1. CASE StopAtTop
    BY <1>1 DEF StopAtTop
<1>2. CASE Connect
    BY <1>2 DEF Connect, Mgr!ConnectWithRetry
<1>3. CASE DialSucceeds
    BY <1>3 DEF DialSucceeds, Mgr!DialSucceeds
<1>4. CASE DialFails
    BY <1>4 DEF DialFails, Mgr!DialFails
<1>5. CASE TimerFires
    BY <1>5 DEF TimerFires, Mgr!TimerFires
<1>6. CASE WaitCancelled
    BY <1>6 DEF WaitCancelled, Mgr!WaitCancelled
<1>7. CASE SetupStep
    BY <1>7 DEF SetupStep, SetupNext
<1>8. CASE SetupFails
    BY <1>8 DEF SetupFails, Closed
<1>9. CASE SessionCancelled \/ ConnectionClosed \/ StreamClosed
    BY <1>9 DEF SessionCancelled, ConnectionClosed, StreamClosed, EndSession
<1>10. CASE Receive
    BY <1>10 DEF Receive
<1>11. CASE Skip \/ RenderFails
    BY <1>11 DEF Skip, RenderFails, EndSession
<1>12. CASE Render
    BY <1>12, RenderSteps
<1>13. CASE Cleanup
    BY <1>13 DEF Cleanup, Closed
<1>14. CASE CloseConnection
  <2>1. /\ pc = "close" /\ pc' \in {"top", "stopped"}
        /\ conn' = [conn EXCEPT ![session] = "closed"]
        /\ chan' = Closed(session)
        /\ UNCHANGED <<session, fwd>>
      BY <1>14 DEF CloseConnection
  <2> QED
      BY <2>1 DEF Closed, ChanStates
<1>15. CASE CloseRenderer
    BY <1>15 DEF CloseRenderer
<1>16. ASSUME NEW s \in Sessions, Forward(s)
       PROVE  Resources'
  <2>1. CASE FwdReceive(s)
      BY <2>1 DEF FwdReceive
  <2>2. CASE FwdStreamEnds(s)
      BY <2>2 DEF FwdStreamEnds
  <2>3. CASE FwdCancelled(s)
      BY <2>3 DEF FwdCancelled
  <2>4. CASE FwdCleanup(s)
      BY <2>4 DEF FwdCleanup, Closed, ChanStates
  <2> QED
      BY <1>16, <2>1, <2>2, <2>3, <2>4 DEF Forward
<1>17. ASSUME NEW s \in Sessions, ShutdownChannel(s) \/ Broker(s)
       PROVE  Resources'
  <2>1. CASE ShutdownChannel(s)
      BY <2>1 DEF ShutdownChannel
  <2>2. CASE LoseConnection(s)
      BY <2>2 DEF LoseConnection
  <2>3. CASE EndConsumer(s)
      BY <2>3 DEF EndConsumer
  <2>4. CASE Push(s)
      BY <2>4 DEF Push
  <2> QED
      BY <1>17, <2>1, <2>2, <2>3, <2>4 DEF Broker
<1>18. CASE Interrupt
    BY <1>18 DEF Interrupt
<1>19. CASE UNCHANGED vars
    BY <1>19 DEF vars, hoseVars
<1> QED
    BY <1>1, <1>2, <1>3, <1>4, <1>5, <1>6, <1>7, <1>8, <1>9, <1>10, <1>11, <1>12,
       <1>13, <1>14, <1>15, <1>16, <1>17, <1>18, <1>19
    DEF Next, Main, Setup, Hose, Terminated

LEMMA FlowStep ==
    ASSUME TypeInv, Resources, Flow, [Next]_vars
    PROVE  Flow'
<1> USE BoundsAssumption
    DEF TypeInv, TypeOK, HoseTypeOK, RunTypeOK, Control, Flow, NoGap, Sessions,
        main, library, forwarder, loop
<1> DEFINE Still == UNCHANGED <<fwd, taken, handled>>
<1>1. ASSUME Still PROVE Flow'
    BY <1>1
<1>2. CASE SetupStep /\ UNCHANGED loop
  <2>1. session \in Sessions /\ fwd[session] = "none"
      BY <1>2 DEF SetupStep, Resources, InSession
  <2> QED
      BY <1>2, <2>1 DEF SetupStep
<1>3. CASE Receive
  <2>1. /\ session \in Sessions /\ fwd[session] = "send"
        /\ taken' = taken
        /\ fwd' = [fwd EXCEPT ![session] = "recv"]
        /\ handled' = [handled EXCEPT ![session] = taken[session]]
      BY <1>3 DEF Receive, InSession
  <2>2. ASSUME NEW s \in Sessions, s # session
        PROVE  fwd'[s] = fwd[s] /\ handled'[s] = handled[s]
      BY <2>1, <2>2
  <2>3. fwd'[session] = "recv" /\ handled'[session] = taken[session]
      BY <2>1
  <2>4. taken[session] = handled[session] + 1
      BY <2>1
  <2>5. \A s \in Sessions : handled[s] \in Nat /\ taken[s] \in Nat
      OBVIOUS
  <2> QED
      BY <2>1, <2>2, <2>3, <2>4, <2>5
<1>4. ASSUME NEW s \in Sessions, Forward(s), UNCHANGED loop
      PROVE  Flow'
  <2>1. CASE FwdReceive(s)
      BY <1>4, <2>1 DEF FwdReceive
  <2>2. CASE FwdStreamEnds(s)
      BY <1>4, <2>2 DEF FwdStreamEnds
  <2>3. CASE FwdCancelled(s)
      BY <1>4, <2>3 DEF FwdCancelled
  <2>4. CASE FwdCleanup(s)
      BY <1>4, <2>4 DEF FwdCleanup
  <2> QED
      BY <1>4, <2>1, <2>2, <2>3, <2>4 DEF Forward
<1>5. CASE StopAtTop \/ Connect \/ DialSucceeds \/ DialFails \/ TimerFires
           \/ WaitCancelled
    BY <1>1, <1>5 DEF StopAtTop, Connect, DialSucceeds, DialFails, TimerFires,
                      WaitCancelled
<1>6. CASE SetupFails /\ UNCHANGED loop
    BY <1>1, <1>6 DEF SetupFails
<1>7. CASE SessionCancelled \/ ConnectionClosed \/ StreamClosed \/ RenderFails
    BY <1>1, <1>7 DEF SessionCancelled, ConnectionClosed, StreamClosed, RenderFails,
                      EndSession
<1>8. CASE Skip \/ Render
    BY <1>1, <1>8, RenderSteps DEF Skip
<1>9. CASE Cleanup \/ CloseConnection \/ CloseRenderer
    BY <1>1, <1>9 DEF Cleanup, CloseConnection, CloseRenderer
<1>10. ASSUME NEW s \in Sessions, ShutdownChannel(s) \/ Broker(s), UNCHANGED loop
       PROVE  Flow'
    BY <1>1, <1>10 DEF ShutdownChannel, Broker, LoseConnection, EndConsumer, Push
<1>11. CASE Interrupt \/ UNCHANGED vars
    BY <1>1, <1>11 DEF Interrupt, vars, hoseVars
<1> QED
    BY <1>2, <1>3, <1>4, <1>5, <1>6, <1>7, <1>8, <1>9, <1>10, <1>11
    DEF Next, Main, Setup, Hose, Terminated

LEMMA SuppliedStep ==
    ASSUME TypeInv, Supplied, [Next]_vars
    PROVE  Supplied'
<1> USE DEF Supplied, library, forwarder
<1>0. taken \in [Sessions -> Int] /\ sent \in [Sessions -> Int]
    BY BoundsAssumption DEF TypeInv, TypeOK, HoseTypeOK
<1>1. ASSUME UNCHANGED <<taken, sent>> PROVE Supplied'
    BY <1>1
<1>2. CASE StopAtTop \/ Connect \/ DialSucceeds \/ DialFails \/ TimerFires
           \/ WaitCancelled
    BY <1>1, <1>2 DEF StopAtTop, Connect, DialSucceeds, DialFails, TimerFires, WaitCancelled
<1>3. CASE Setup
    BY <1>1, <1>3 DEF Setup, SetupStep, SetupFails
<1>4. CASE SessionCancelled \/ ConnectionClosed \/ StreamClosed \/ RenderFails
    BY <1>1, <1>4 DEF SessionCancelled, ConnectionClosed, StreamClosed, RenderFails,
                EndSession
<1>5. CASE Receive \/ Skip
    BY <1>1, <1>5 DEF Receive, Skip
<1>6. CASE Render
    BY <1>1, <1>6, RenderSteps
<1>7. CASE Cleanup \/ CloseConnection \/ CloseRenderer
    BY <1>1, <1>7 DEF Cleanup, CloseConnection, CloseRenderer
<1>8. ASSUME NEW s \in Sessions, Forward(s)
      PROVE  Supplied'
  <2>1. CASE FwdReceive(s)
      BY <1>0, <2>1 DEF FwdReceive
  <2>2. CASE FwdStreamEnds(s) \/ FwdCancelled(s) \/ FwdCleanup(s)
      BY <1>1, <2>2 DEF FwdStreamEnds, FwdCancelled, FwdCleanup
  <2> QED
      BY <1>8, <2>1, <2>2 DEF Forward
<1>9. ASSUME NEW s \in Sessions, ShutdownChannel(s) \/ Broker(s)
      PROVE  Supplied'
  <2>1. CASE Push(s)
      BY <1>0, <2>1 DEF Push
  <2>2. CASE ShutdownChannel(s) \/ LoseConnection(s) \/ EndConsumer(s)
      BY <1>1, <2>2 DEF ShutdownChannel, LoseConnection, EndConsumer
  <2> QED
      BY <1>9, <2>1, <2>2 DEF Broker
<1>10. CASE Interrupt \/ UNCHANGED vars
    BY <1>1, <1>10 DEF Interrupt, vars, hoseVars
<1> QED
    BY <1>2, <1>3, <1>4, <1>5, <1>6, <1>7, <1>8, <1>9, <1>10
    DEF Next, Main, Hose, Terminated

LEMMA LateStep ==
    ASSUME TypeInv, Late, [Next]_vars
    PROVE  Late'
<1> USE DEF Late, main, library, forwarder, loop, SetupStages
<1>1. CASE StopAtTop
    BY <1>1 DEF StopAtTop
<1>2. CASE Connect
    BY <1>2 DEF Connect, Mgr!ConnectWithRetry
<1>3. CASE DialSucceeds
    BY <1>3 DEF DialSucceeds, Mgr!DialSucceeds
<1>4. CASE DialFails
    BY <1>4 DEF DialFails, Mgr!DialFails
<1>5. CASE TimerFires
    BY <1>5 DEF TimerFires, Mgr!TimerFires
<1>6. CASE WaitCancelled
    BY <1>6 DEF WaitCancelled, Mgr!WaitCancelled
<1>7. CASE Setup
    BY <1>7 DEF Setup, SetupStep, SetupFails, SetupNext
<1>8. CASE SessionCancelled \/ ConnectionClosed \/ StreamClosed \/ RenderFails
    BY <1>8 DEF SessionCancelled, ConnectionClosed, StreamClosed, RenderFails,
                EndSession
<1>9. CASE Receive \/ Skip
    BY <1>9 DEF Receive, Skip
<1>10. CASE Render
    BY <1>10, RenderSteps
<1>11. CASE Cleanup \/ CloseConnection \/ CloseRenderer
    BY <1>11 DEF Cleanup, CloseConnection, CloseRenderer
<1>12. ASSUME NEW s \in Sessions, Hose(Forward(s) \/ ShutdownChannel(s) \/ Broker(s))
       PROVE  Late'
    BY <1>12 DEF Hose, Forward, FwdReceive, FwdStreamEnds, FwdCancelled, FwdCleanup,
                 ShutdownChannel, Broker, LoseConnection, EndConsumer, Push
<1>13. CASE Interrupt
    BY <1>13 DEF Interrupt
<1>14. CASE UNCHANGED vars
    BY <1>14 DEF vars, hoseVars
<1> QED
    BY <1>1, <1>2, <1>3, <1>4, <1>5, <1>6, <1>7, <1>8, <1>9, <1>10, <1>11, <1>12,
       <1>13, <1>14
    DEF Next, Main, Terminated

LEMMA LimitStep ==
    ASSUME TypeInv, Limit, [Next]_vars
    PROVE  Limit'
<1> USE ServiceAssumption
    DEF Limit, LimitRespected, NilReturnJustified, TypeInv, TypeOK, RunTypeOK,
        Control, main, library, forwarder, loop
<1>1. CASE StopAtTop
    BY <1>1 DEF StopAtTop
<1>2. CASE Connect
    BY <1>2 DEF Connect, Mgr!ConnectWithRetry
<1>3. CASE DialSucceeds
    BY <1>3 DEF DialSucceeds, Mgr!DialSucceeds
<1>4. CASE DialFails
    BY <1>4 DEF DialFails, Mgr!DialFails
<1>5. CASE TimerFires
    BY <1>5 DEF TimerFires, Mgr!TimerFires
<1>6. CASE WaitCancelled
    BY <1>6 DEF WaitCancelled, Mgr!WaitCancelled
<1>7. CASE SetupStep /\ UNCHANGED <<delay, loop, late>>
    BY <1>7 DEF SetupStep, SetupNext, SetupStages
<1>8. CASE SetupFails /\ UNCHANGED <<delay, loop, late>>
    BY <1>8 DEF SetupFails, SetupStages
<1>9. CASE SessionCancelled \/ ConnectionClosed \/ StreamClosed \/ RenderFails
    BY <1>9 DEF SessionCancelled, ConnectionClosed, StreamClosed, RenderFails,
                EndSession
<1>10. CASE Receive \/ Skip
    BY <1>10 DEF Receive, Skip
<1>11. CASE Render
  <2>1. /\ Len(rendered') = Len(rendered) + 1
        /\ renderer' = renderer
      BY <1>11, RenderSteps
  <2> QED
      BY <1>11, <2>1, RenderSteps DEF LimitReached
<1>12. CASE Cleanup
    BY <1>12 DEF Cleanup
<1>13. CASE CloseConnection
    BY <1>13 DEF CloseConnection, Verdict
<1>14. CASE CloseRenderer
    BY <1>14 DEF CloseRenderer
<1>15. ASSUME NEW s \in Sessions, Hose(Forward(s) \/ ShutdownChannel(s) \/ Broker(s))
       PROVE  Limit'
  <2>1. UNCHANGED <<main, cancelled, loop>>
      BY <1>15 DEF Hose, Forward, FwdReceive, FwdStreamEnds, FwdCancelled, FwdCleanup,
                   ShutdownChannel, Broker, LoseConnection, EndConsumer, Push
  <2> QED
      BY <2>1
<1>16. CASE Interrupt
    BY <1>16 DEF Interrupt
<1>17. CASE UNCHANGED vars
    BY <1>17 DEF vars, hoseVars
<1> QED
    BY <1>1, <1>2, <1>3, <1>4, <1>5, <1>6, <1>7, <1>8, <1>9, <1>10, <1>11, <1>12,
       <1>13, <1>14, <1>15, <1>16, <1>17
    DEF Next, Main, Setup, Terminated

\* All steps but three leave alone what Order speaks of.
Quiet ==
    /\ UNCHANGED <<rendered, handled, cur, session>>
    /\ pc' = "handle" => pc = "handle"

LEMMA QuietSteps ==
    ASSUME TypeInv, [Next]_vars, ~DialSucceeds, ~Receive, ~Render
    PROVE  Quiet
<1> USE DEF Quiet, main, library, forwarder, loop
<1>1. CASE StopAtTop \/ Connect \/ DialFails \/ TimerFires \/ WaitCancelled
    BY <1>1 DEF StopAtTop, Connect, DialFails, TimerFires, WaitCancelled,
                Mgr!ConnectWithRetry, Mgr!DialFails, Mgr!TimerFires,
                Mgr!WaitCancelled
<1>2. CASE Setup
    BY <1>2 DEF Setup, SetupStep, SetupFails, SetupNext, SetupStages
<1>3. CASE SessionCancelled \/ ConnectionClosed \/ StreamClosed \/ RenderFails
    BY <1>3 DEF SessionCancelled, ConnectionClosed, StreamClosed, RenderFails,
                EndSession
<1>4. CASE Skip \/ Cleanup \/ CloseConnection \/ CloseRenderer
    BY <1>4 DEF Skip, Cleanup, CloseConnection, CloseRenderer
<1>5. ASSUME NEW s \in Sessions, Hose(Forward(s) \/ ShutdownChannel(s) \/ Broker(s))
      PROVE  Quiet
    BY <1>5 DEF Hose, Forward, FwdReceive, FwdStreamEnds, FwdCancelled, FwdCleanup,
                ShutdownChannel, Broker, LoseConnection, EndConsumer, Push
<1>6. CASE Interrupt \/ UNCHANGED vars
    BY <1>6 DEF Interrupt, vars, hoseVars
<1> QED
    BY <1>1, <1>2, <1>3, <1>4, <1>5, <1>6 DEF Next, Main, Terminated

LEMMA OrderStep ==
    ASSUME TypeInv, Flow, Order, [Next]_vars
    PROVE  Order'
<1> USE DEF Order, RenderedInOrder, Seen, Precedes
<1>0. /\ rendered \in Seq(Delivery)
      /\ cur \in Delivery
      /\ session \in Int
      /\ handled \in [Sessions -> Int]
      /\ taken \in [Sessions -> Int]
      /\ pc = "handle" \/ pc = "select" => session \in Sessions
      /\ \A i \in 1..Len(rendered) :
            rendered[i][1] \in Sessions /\ rendered[i][2] \in Int
  <2>1. rendered \in Seq(Delivery) /\ cur \in Delivery
      BY DEF TypeInv, TypeOK, RunTypeOK
  <2>2. \A i \in 1..Len(rendered) : rendered[i] \in Delivery
      BY <2>1
  <2>3. \A d \in Delivery : d[1] \in Sessions /\ d[2] \in Int
      BY BoundsAssumption DEF Delivery, Sessions
  <2>4. handled \in [Sessions -> Int] /\ taken \in [Sessions -> Int]
      BY BoundsAssumption DEF TypeInv, TypeOK, RunTypeOK, HoseTypeOK
  <2>5. session \in Int /\ (pc = "handle" \/ pc = "select" => session \in Sessions)
      BY BoundsAssumption DEF TypeInv, TypeOK, HoseTypeOK, Control, InSession
  <2> QED
      BY <2>1, <2>2, <2>3, <2>4, <2>5
<1>1. CASE DialSucceeds
  <2>1. /\ session' = session + 1 /\ pc' = "connected"
        /\ UNCHANGED <<rendered, handled>>
      BY <1>1 DEF DialSucceeds, Mgr!DialSucceeds, loop
  <2> QED
      BY <1>0, <2>1 DEF Sessions
<1>2. CASE Receive
  <2>1. /\ session \in Sessions
        /\ taken[session] = handled[session] + 1
        /\ cur' = <<session, taken[session]>>
        /\ handled' = [handled EXCEPT ![session] = taken[session]]
        /\ UNCHANGED <<rendered, session>>
      BY <1>0, <1>2 DEF Receive, Flow, NoGap
  <2>2. \A i \in 1..Len(rendered) : Seen(rendered[i])' /\ Precedes(rendered[i], cur')
      BY <1>0, <2>1 DEF Sessions
  <2>3. cur' = <<session', handled'[session']>>
      BY <1>0, <2>1
  <2> QED
      BY <1>0, <2>1, <2>2, <2>3
<1>3. CASE Render
  <2>1. /\ pc = "handle" /\ pc' # "handle"
        /\ rendered' = Append(rendered, cur)
        /\ UNCHANGED <<session, handled>>
      BY <1>3, RenderSteps
  <2>2. /\ Len(rendered') = Len(rendered) + 1
        /\ \A i \in 1..Len(rendered) : rendered'[i] = rendered[i]
        /\ rendered'[Len(rendered) + 1] = cur
        /\ Len(rendered) \in Nat
      BY <1>0, <2>1
  <2>3. Seen(cur)
      BY <1>0, <2>1 DEF Sessions
  <2> QED
      BY <1>0, <2>1, <2>2, <2>3 DEF Sessions
<1>4. CASE ~DialSucceeds /\ ~Receive /\ ~Render
    BY <1>4, QuietSteps DEF Quiet
<1> QED
    BY <1>1, <1>2, <1>3, <1>4

--------------------------------------------------------------------------------
(* The theorems *)

LEMMA NextIInv == IInv /\ [Next]_vars => IInv'
BY NextType, ResourcesStep, FlowStep, SuppliedStep, LateStep, LimitStep, OrderStep DEF IInv

LEMMA Inductive == Spec => []IInv
BY InitIInv, NextIInv, PTL DEF Spec

\* Traces come out in the order of the firehose, none twice, across any number of
\* reconnections.
THEOREM InOrder == Spec => []RenderedInOrder
<1>1. IInv => RenderedInOrder
    BY DEF IInv, Order
<1> QED
    BY Inductive, <1>1, PTL

\* A session hands over its deliveries without a gap, one at a time.
THEOREM Gapless == Spec => []NoGap
<1>1. IInv => NoGap
    BY DEF IInv, Flow
<1> QED
    BY Inductive, <1>1, PTL

\* --max-events is never exceeded, and reaching it ends the run successfully, however
\* many sessions the traces come from.
THEOREM Limited == Spec => []LimitRespected
<1>1. IInv => LimitRespected
    BY DEF IInv, Limit
<1> QED
    BY Inductive, <1>1, PTL

\* Run returns nil because it was interrupted or because it reached --max-events, on
\* no other path through the loop.
THEOREM JustifiedResult == Spec => []NilReturnJustified
<1>1. IInv => NilReturnJustified
    BY DEF IInv, Limit
<1> QED
    BY Inductive, <1>1, PTL

\* Only the current session has a connection or a channel, and none is left when
\* Run dials again or returns.
THEOREM SingleSession == Spec => []OneLiveSession
<1>1. IInv => OneLiveSession
  <2> SUFFICES ASSUME IInv, NEW s \in Sessions,
                      \/ conn[s] \in {"open", "lost"}
                      \/ chan[s] \in {"open", "consuming", "ended"}
               PROVE  s = session /\ pc \in InSession
      BY DEF OneLiveSession, InSession, SetupStages
  <2>1. ~(s > session) /\ ~(s < session)
      BY DEF IInv, Resources
  <2>2. s = session
      BY <2>1, BoundsAssumption DEF IInv, TypeInv, TypeOK, HoseTypeOK, Sessions
  <2> QED
      BY <2>2 DEF IInv, Resources
<1> QED
    BY Inductive, <1>1, PTL

\* A cancelled run opens at most one more session, the one whose dial it could not
\* interrupt.
THEOREM OneLateSession == Spec => []AtMostOneLateSession
<1>1. IInv => AtMostOneLateSession
    BY DEF IInv, Late, AtMostOneLateSession
<1> QED
    BY Inductive, <1>1, PTL

--------------------------------------------------------------------------------
(* A lost session runs down *)

StageAt(p) ==
    CASE p \in SetupStages \cup {"handle"} -> 4
      [] p = "select"                      -> 3
      [] p = "cleanup"                     -> 2
      [] p = "close"                       -> 1
      [] OTHER                             -> 0

LEMMA StageIs ==
    ASSUME NEW p
    PROVE  /\ p \in SetupStages \cup {"handle"} => StageAt(p) = 4
           /\ p = "select" => StageAt(p) = 3
           /\ p = "cleanup" => StageAt(p) = 2
           /\ p = "close" => StageAt(p) = 1
           /\ p \notin InSession => StageAt(p) = 0
BY DEF StageAt, SetupStages, InSession

\* What a step does to a session that is lost or has no more deliveries: Run comes
\* closer to the session's end, or it takes a delivery, or it does nothing.
Over == conn[session] # "open" \/ chan[session] \in {"ended", "closed"}

Ending == StageAt(pc') < StageAt(pc) /\ UNCHANGED <<session, sent, handled>>

Taking ==
    /\ pc = "select" /\ pc' = "handle"
    /\ UNCHANGED <<session, sent>>
    /\ handled'[session] = handled[session] + 1

Waiting ==
    /\ UNCHANGED <<pc, session, handled>>
    /\ sent'[session] = sent[session]

LEMMA OverSteps ==
    ASSUME IInv, [Next]_vars, pc \in InSession, Over
    PROVE  Ending \/ Taking \/ Waiting
<1> USE DEF main, library, forwarder, loop
<1>0. /\ session \in Sessions
      /\ sent \in [Sessions -> Int] /\ handled \in [Sessions -> Int]
    BY BoundsAssumption DEF IInv, TypeInv, TypeOK, HoseTypeOK, RunTypeOK, Control
<1>1. ASSUME NEW p, NEW q, pc = p, pc' = q, UNCHANGED <<session, sent, handled>>,
             \/ p \in SetupStages /\ q = "close"
             \/ p = "handle" /\ q \in {"select", "cleanup"}
             \/ p = "select" /\ q = "cleanup"
             \/ p = "cleanup" /\ q = "close"
             \/ p = "close" /\ q \in {"top", "stopped"}
      PROVE  Ending
  <2>1. /\ q = "close" => StageAt(q) = 1
        /\ q = "select" => StageAt(q) = 3
        /\ q = "cleanup" => StageAt(q) = 2
        /\ q \in {"top", "stopped"} => StageAt(q) = 0
    <3>1. "top" \notin InSession /\ "stopped" \notin InSession
        BY DEF InSession, SetupStages
    <3> QED
        BY <3>1, StageIs
  <2>2. /\ p \in SetupStages \/ p = "handle" => StageAt(p) = 4
        /\ p = "select" => StageAt(p) = 3
        /\ p = "cleanup" => StageAt(p) = 2
        /\ p = "close" => StageAt(p) = 1
      BY StageIs
  <2>3. StageAt(q) < StageAt(p)
      BY <1>1, <2>1, <2>2
  <2> QED
      BY <1>1, <2>3 DEF Ending
<1>2. CASE SetupStep
  <2>1. chan[session] \in {"none", "open"} /\ conn[session] = "open"
      BY <1>2 DEF SetupStep, IInv, Resources
  <2> QED
      BY <2>1 DEF Over
<1>3. CASE SetupFails /\ UNCHANGED loop
    BY <1>1, <1>3 DEF SetupFails
<1>4. CASE SessionCancelled \/ ConnectionClosed \/ StreamClosed
    BY <1>1, <1>4 DEF SessionCancelled, ConnectionClosed, StreamClosed, EndSession
<1>5. CASE RenderFails \/ Skip
    BY <1>1, <1>5 DEF RenderFails, Skip, EndSession
<1>6. CASE Render
    BY <1>1, <1>6, RenderSteps
<1>7. CASE Cleanup
    BY <1>1, <1>7 DEF Cleanup
<1>8. CASE CloseConnection
  <2>1. /\ pc = "close" /\ pc' \in {"top", "stopped"}
        /\ UNCHANGED <<session, sent, handled>>
      BY <1>8 DEF CloseConnection
  <2> QED
      BY <1>1, <2>1
<1>9. CASE Receive
  <2>1. taken[session] = handled[session] + 1
      BY <1>0, <1>9 DEF Receive, IInv, Flow, NoGap
  <2> QED
      BY <1>0, <1>9, <2>1 DEF Receive, Taking
<1>10. ASSUME StopAtTop \/ Connect \/ DialSucceeds \/ DialFails \/ TimerFires
              \/ WaitCancelled \/ CloseRenderer
       PROVE  FALSE
  <2>1. pc \in {"top", "dial", "wait", "stopped"}
      BY <1>10 DEF StopAtTop, Connect, DialSucceeds, DialFails, TimerFires, WaitCancelled,
                   CloseRenderer, Mgr!ConnectWithRetry, Mgr!DialSucceeds, Mgr!DialFails,
                   Mgr!TimerFires, Mgr!WaitCancelled
  <2> QED
      BY <2>1 DEF InSession, SetupStages
<1>11. ASSUME NEW s \in Sessions, Hose(Forward(s))
       PROVE  Waiting
    BY <1>11 DEF Hose, Forward, FwdReceive, FwdStreamEnds, FwdCancelled, FwdCleanup, Waiting
<1>12. ASSUME NEW s \in Sessions, Hose(ShutdownChannel(s) \/ Broker(s))
       PROVE  Waiting
  <2>1. CASE Push(s)
    <3>1. s # session
        BY <2>1 DEF Push, Over
    <3> QED
        BY <1>0, <1>12, <2>1, <3>1 DEF Push, Hose, Waiting
  <2>2. CASE ShutdownChannel(s) \/ LoseConnection(s) \/ EndConsumer(s)
      BY <1>12, <2>2 DEF Hose, ShutdownChannel, LoseConnection, EndConsumer, Waiting
  <2> QED
      BY <1>12, <2>1, <2>2 DEF Hose, Broker
<1>13. CASE Interrupt \/ UNCHANGED vars
    BY <1>13 DEF Interrupt, vars, hoseVars, Waiting
<1> QED
    BY <1>2, <1>3, <1>4, <1>5, <1>6, <1>7, <1>8, <1>9, <1>10, <1>11, <1>12, <1>13
    DEF Next, Main, Setup, Hose, Terminated

LEMMA RunsDown ==
    ASSUME IInv, IInv', [Next]_vars, Stage > 0, Over
    PROVE  /\ SessionWork' \in 0..SessionWork
           /\ pc' # pc => SessionWork' < SessionWork
<1> DEFINE b == sent[session] - handled[session]
<1>1. Stage = StageAt(pc) /\ Stage' = StageAt(pc')
    BY DEF Stage, StageAt
<1>2. pc \in InSession
    BY <1>1, StageIs
<1>3. /\ session \in Sessions
      /\ \A s \in Sessions : /\ sent[s] \in Nat /\ handled[s] \in Nat
                            /\ handled[s] <= taken[s] /\ taken[s] <= sent[s] /\ taken[s] \in Nat
    BY <1>2, BoundsAssumption
    DEF IInv, TypeInv, TypeOK, HoseTypeOK, RunTypeOK, Control, Flow, NoGap, Supplied
<1>4. /\ \A s \in Sessions : /\ sent'[s] \in Nat /\ handled'[s] \in Nat
                            /\ handled'[s] <= taken'[s] /\ taken'[s] <= sent'[s] /\ taken'[s] \in Nat
    BY BoundsAssumption
    DEF IInv, TypeInv, TypeOK, HoseTypeOK, RunTypeOK, Control, Flow, NoGap, Supplied
<1>5. session' = session
    BY <1>2, OverSteps DEF Ending, Taking, Waiting
<1>6. b \in Nat /\ b' \in Nat
    BY <1>3, <1>4, <1>5
<1>7. SessionWork = 2 * b + StageAt(pc) /\ SessionWork' = 2 * b' + StageAt(pc')
    BY <1>1 DEF SessionWork
<1>8. StageAt(pc) \in Nat /\ StageAt(pc') \in Nat
  <2>1. ASSUME NEW p PROVE StageAt(p) \in Nat
      BY StageIs DEF InSession
  <2> QED
      BY <2>1
<1>9. CASE Ending
  <2>1. b' = b
      BY <1>9 DEF Ending
  <2> QED
      BY <1>6, <1>7, <1>8, <1>9, <2>1 DEF Ending
<1>10. CASE Taking
  <2>1. b' = b - 1
      BY <1>3, <1>10 DEF Taking
  <2>2. StageAt(pc) = 3 /\ StageAt(pc') = 4
      BY <1>10, StageIs DEF Taking
  <2> QED
      BY <1>6, <1>7, <2>1, <2>2
<1>11. CASE Waiting
  <2>1. b' = b /\ pc' = pc
      BY <1>11 DEF Waiting
  <2> QED
      BY <1>6, <1>7, <1>8, <2>1
<1> QED
    BY <1>2, <1>9, <1>10, <1>11, OverSteps

\* A session that is lost, or has no more deliveries, is over after at most SessionWork
\* further steps of Run, however many the deliveries in the library's buffer.
THEOREM RunsDownWhenLost == Spec => LostSessionRunsDown
<1>1. IInv /\ IInv' /\ [Next]_vars =>
        [Stage > 0 /\ (conn[session] # "open" \/ chan[session] \in {"ended", "closed"}) =>
          /\ SessionWork' \in 0..SessionWork
          /\ pc' # pc => SessionWork' < SessionWork]_vars
    BY RunsDown DEF Over
<1> QED
    BY Inductive, <1>1, PTL DEF Spec, LostSessionRunsDown

--------------------------------------------------------------------------------
(* Refinement: Render is TraceStream's Emit, Interrupt is its Interrupt, and    *)
(* CloseRenderer its Stop; every other step stutters.                          *)

LEMMA TracesInit == Init => TS!Init
BY DEF Init, HoseInit, TS!Init, outcome

\* What the steps of Run other than those do to TraceStream's variables.
Silent == UNCHANGED <<rendered, cancelled, renderer>> /\ (pc = "exited" => UNCHANGED result)

LEMMA SilentSteps ==
    ASSUME [Next]_vars, ~Render, ~Interrupt, ~CloseRenderer
    PROVE  Silent
<1> USE DEF Silent, main, library, forwarder, loop
<1>1. CASE StopAtTop \/ Connect \/ DialSucceeds \/ DialFails \/ TimerFires
           \/ WaitCancelled
    BY <1>1 DEF StopAtTop, Connect, DialSucceeds, DialFails, TimerFires,
                WaitCancelled, Mgr!ConnectWithRetry, Mgr!DialSucceeds,
                Mgr!DialFails, Mgr!TimerFires, Mgr!WaitCancelled
<1>2. CASE Setup
    BY <1>2 DEF Setup, SetupStep, SetupFails
<1>3. CASE SessionCancelled \/ ConnectionClosed \/ StreamClosed \/ RenderFails
    BY <1>3 DEF SessionCancelled, ConnectionClosed, StreamClosed, RenderFails,
                EndSession
<1>4. CASE Receive \/ Skip \/ Cleanup \/ CloseConnection
    BY <1>4 DEF Receive, Skip, Cleanup, CloseConnection
<1>5. ASSUME NEW s \in Sessions, Hose(Forward(s) \/ ShutdownChannel(s) \/ Broker(s))
      PROVE  Silent
    BY <1>5 DEF Hose, Forward, FwdReceive, FwdStreamEnds, FwdCancelled, FwdCleanup,
                ShutdownChannel, Broker, LoseConnection, EndConsumer, Push
<1>6. CASE UNCHANGED vars
    BY <1>6 DEF vars, hoseVars
<1> QED
    BY <1>1, <1>2, <1>3, <1>4, <1>5, <1>6 DEF Next, Main, Terminated

LEMMA TracesStep == IInv /\ [Next]_vars => [TS!Next]_(TS!vars)
<1> SUFFICES ASSUME IInv, [Next]_vars PROVE TS!Next \/ UNCHANGED TS!vars
    BY DEF TS!vars
<1> USE DEF IInv
<1>0. renderer = "open" <=> pc # "exited"
    BY DEF Limit
<1>1. CASE Render
  <2>1. /\ pc = "handle"
        /\ rendered' = Append(rendered, cur)
        /\ UNCHANGED <<cancelled, renderer>>
      BY <1>1, RenderSteps
  <2>2. outcome = "running" /\ UNCHANGED outcome
      BY <1>0, <2>1 DEF outcome
  <2>3. ~TS!LimitReached
      BY <2>1, ServiceAssumption
      DEF Limit, LimitRespected, TS!LimitReached, TypeInv, TypeOK, RunTypeOK
  <2>4. cur \in TS!Event
      BY DEF TypeInv, TypeOK, RunTypeOK, Delivery, Sessions, TS!Event
  <2>5. rendered = <<>> \/ TS!Precedes(rendered[Len(rendered)], cur)
    <3>1. rendered \in Seq(Delivery)
        BY DEF TypeInv, TypeOK, RunTypeOK
    <3>2. rendered # <<>> => Len(rendered) \in 1..Len(rendered)
        BY <3>1
    <3> QED
        BY <2>1, <3>2 DEF Order, Precedes, TS!Precedes
  <2>6. TS!Emit
      BY <2>1, <2>2, <2>3, <2>4, <2>5 DEF TS!Emit
  <2> QED
      BY <2>6 DEF TS!Next
<1>2. CASE Interrupt
  <2>1. TS!Interrupt
      BY <1>2 DEF Interrupt, TS!Interrupt, outcome, loop
  <2> QED
      BY <2>1 DEF TS!Next
<1>3. CASE CloseRenderer
  <2>1. /\ outcome = "running"
        /\ outcome' \in {"ok", "error"}
        /\ outcome' = "ok" => result = "nil"
        /\ pc = "stopped"
        /\ UNCHANGED <<rendered, cancelled>>
      BY <1>0, <1>3 DEF CloseRenderer, outcome
  <2>2. result = "nil" => cancelled \/ TS!LimitReached
      BY <2>1 DEF Limit, LimitRespected, NilReturnJustified, TS!LimitReached, TypeInv,
                  TypeOK, RunTypeOK
  <2>3. TS!Stop(outcome')
      BY <2>1, <2>2 DEF TS!Stop
  <2> QED
      BY <2>1, <2>3 DEF TS!Next
<1>4. CASE ~Render /\ ~Interrupt /\ ~CloseRenderer
  <2>1. Silent
      BY <1>4, SilentSteps
  <2>2. UNCHANGED outcome
      BY <1>0, <2>1 DEF Silent, outcome
  <2> QED
      BY <2>1, <2>2 DEF Silent, TS!vars
<1> QED
    BY <1>1, <1>2, <1>3, <1>4

\* Service.Run implements TraceStream: through any number of lost connections,
\* failed dials and forwarders left behind, its output is one ordered stream
\* within the limit, and its success is justified.
THEOREM Refinement == Spec => ImplementsTraceStream
<1>1. Init /\ [][Next]_vars /\ []IInv => TS!Spec
    BY TracesInit, TracesStep, PTL DEF TS!Spec
<1> QED
    BY <1>1, Inductive, PTL DEF Spec, ImplementsTraceStream

================================================================================
