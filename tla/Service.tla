--------------------------------- MODULE Service ---------------------------------
(***************************************************************************)
(* internal/app/service.go: Service.Run, the loop that connects, consumes  *)
(* one session, and reconnects, composed with the connection manager and   *)
(* with the consumer, its forwarder goroutines and the client library.     *)
(*                                                                         *)
(* Labels of pc, beside those of ConnectionManager and of Firehose:        *)
(*   "top"      the head of Run's loop                                     *)
(*   "select"   the select of runSession                                   *)
(*   "handle"   handleDelivery, with the delivery <<session, n>> in cur    *)
(*   "cleanup"  runSession's deferred cleanup()                            *)
(*   "close"    conn.Close() and the switch on the session's error         *)
(*   "stopped"  Run is returning result; its deferred renderer.Close() is  *)
(*              next                                                       *)
(*   "exited"   Run has returned                                           *)
(***************************************************************************)
EXTENDS Firehose, Sequences

CONSTANTS
    MaxEvents,         \* --max-events, 0 for no limit
    MaxDuration,       \* the largest time.Duration
    ReconnectInitial,  \* the Manager's fields, as NewManager leaves them
    ReconnectMax

ASSUME ServiceAssumption ==
    /\ MaxEvents \in Nat
    /\ MaxDuration \in Nat
    /\ ReconnectInitial \in 1..MaxDuration
    /\ ReconnectMax \in ReconnectInitial..MaxDuration

VARIABLES
    delay,          \* the wait before the next attempt to dial
    cur,            \* the delivery that handleDelivery works on
    matchedEvents,  \* field of Service
    renderer,       \* "open" or "closed"
    result,         \* what Run returns: "nil" or the error it wraps
    handled,        \* history: how many deliveries session s has handed over
    rendered,       \* history: the deliveries rendered, in order
    late            \* history: sessions begun after the context was done

loop == <<cur, matchedEvents, renderer, result, handled, rendered>>
vars == <<hoseVars, delay, loop, late>>

Mgr == INSTANCE ConnectionManager
         WITH reconnectInitial <- ReconnectInitial,
              reconnectMax <- ReconnectMax,
              DefaultInitial <- ReconnectInitial,
              DefaultMax <- ReconnectMax

Delivery == Sessions \X (1..MaxDeliveries)

RunTypeOK ==
    /\ pc \in {"top", "dial", "wait", "select", "handle", "cleanup", "close",
               "stopped", "exited"} \cup SetupStages
    /\ sessErr \in {"none", "setup", "ctx", "reconnect", "max", "render"}
    /\ delay \in Int
    /\ cur \in Delivery
    /\ matchedEvents \in Nat
    /\ renderer \in {"open", "closed"}
    /\ result \in {"none", "nil", "setup", "render", "close"}
    /\ handled \in [Sessions -> 0..MaxDeliveries]
    /\ rendered \in Seq(Delivery)
    /\ late \in Nat

TypeOK == HoseTypeOK /\ RunTypeOK

Init ==
    /\ HoseInit
    /\ pc = "top"
    /\ delay = 0
    /\ cur = <<1, 1>>
    /\ matchedEvents = 0
    /\ renderer = "open"
    /\ result = "none"
    /\ handled = [s \in Sessions |-> 0]
    /\ rendered = <<>>
    /\ late = 0

--------------------------------------------------------------------------------
(* Run: the loop's head, and the connection. *)

StopAtTop ==
    /\ pc = "top"
    /\ cancelled
    /\ pc' = "stopped"
    /\ result' = "nil"
    /\ UNCHANGED <<cancelled, session, sessErr, library, forwarder, delay, cur,
                   matchedEvents, renderer, handled, rendered, late>>

\* Seeded fault: the loop's head does not look at the context.
Connect_Unchecked ==
    /\ Mgr!ConnectWithRetry
    /\ UNCHANGED <<session, sessErr, library, forwarder, loop, late>>

Connect ==
    /\ ~cancelled
    /\ Mgr!ConnectWithRetry
    /\ UNCHANGED <<session, sessErr, library, forwarder, loop, late>>

\* Whether or not the context is done by now, a connection that was dialled is
\* used. runSession starts with no error of its own.
DialSucceeds ==
    /\ session < MaxSessions
    /\ Mgr!DialSucceeds
    /\ session' = session + 1
    /\ sessErr' = "none"
    /\ conn' = [conn EXCEPT ![session + 1] = "open"]
    /\ late' = IF cancelled THEN late + 1 ELSE late
    /\ UNCHANGED <<chan, sent, forwarder, loop>>

DialFails ==
    /\ Mgr!DialFails
    /\ UNCHANGED <<session, sessErr, library, forwarder, loop, late>>

TimerFires ==
    /\ Mgr!TimerFires
    /\ UNCHANGED <<session, sessErr, library, forwarder, loop, late>>

WaitCancelled ==
    /\ Mgr!WaitCancelled
    /\ result' = "nil"
    /\ UNCHANGED <<session, sessErr, library, forwarder, cur, matchedEvents,
                   renderer, handled, rendered, late>>

Setup == (SetupStep \/ SetupFails) /\ UNCHANGED <<delay, loop, late>>

--------------------------------------------------------------------------------
(* runSession: the select and its branches. *)

EndSession(err) ==
    /\ pc' = "cleanup"
    /\ sessErr' = err
    /\ UNCHANGED <<cancelled, session, library, forwarder, delay, late>>

SessionCancelled ==
    /\ pc = "select"
    /\ cancelled
    /\ EndSession("ctx")
    /\ UNCHANGED loop

\* NotifyClose delivers an error or closes its channel; on a connection that is
\* lost already it closes the channel at once.
ConnectionClosed ==
    /\ pc = "select"
    /\ conn[session] # "open"
    /\ EndSession("reconnect")
    /\ UNCHANGED loop

\* Seeded fault: the ok of the receive is ignored, and a closed channel yields
\* zero deliveries.
StreamClosed_IgnoresOk ==
    /\ pc = "select"
    /\ fwd[session] = "done"
    /\ pc' = "handle"
    /\ UNCHANGED <<cancelled, session, sessErr, library, forwarder, delay, loop,
                   late>>

StreamClosed ==
    /\ pc = "select"
    /\ fwd[session] = "done"
    /\ EndSession("reconnect")
    /\ UNCHANGED loop

\* Seeded fault: all sessions share one channel.
Receive_SharedOut ==
    /\ pc = "select"
    /\ pc' = "handle"
    /\ \E s \in Sessions :
          /\ fwd[s] = "send"
          /\ cur' = <<s, taken[s]>>
          /\ fwd' = [fwd EXCEPT ![s] = "recv"]
          /\ handled' = [handled EXCEPT ![s] = taken[s]]
    /\ UNCHANGED <<cancelled, session, sessErr, library, taken, delay,
                   matchedEvents, renderer, result, rendered, late>>

\* The rendezvous on the unbuffered channel of this session's forwarder.
Receive ==
    /\ pc = "select"
    /\ fwd[session] = "send"
    /\ pc' = "handle"
    /\ cur' = <<session, taken[session]>>
    /\ fwd' = [fwd EXCEPT ![session] = "recv"]
    /\ handled' = [handled EXCEPT ![session] = taken[session]]
    /\ UNCHANGED <<cancelled, session, sessErr, library, taken, delay,
                   matchedEvents, renderer, result, rendered, late>>

--------------------------------------------------------------------------------
(* handleDelivery *)

\* The delivery does not parse, or the matcher turns its trace down.
Skip ==
    /\ pc = "handle"
    /\ pc' = "select"
    /\ UNCHANGED <<cancelled, session, sessErr, library, forwarder, delay, loop,
                   late>>

\* Seeded fault: the limit is compared with > instead of >=.
LimitReached_OffByOne(n) == MaxEvents > 0 /\ n > MaxEvents

LimitReached(n) == MaxEvents > 0 /\ n >= MaxEvents

Render ==
    /\ pc = "handle"
    /\ rendered' = Append(rendered, cur)
    /\ matchedEvents' = matchedEvents + 1
    /\ IF LimitReached(matchedEvents + 1)
       THEN EndSession("max")
       ELSE /\ pc' = "select"
            /\ UNCHANGED <<cancelled, session, sessErr, library, forwarder, delay,
                           late>>
    /\ UNCHANGED <<cur, renderer, result, handled>>

RenderFails ==
    /\ pc = "handle"
    /\ EndSession("render")
    /\ UNCHANGED loop

--------------------------------------------------------------------------------
(* The end of a session and of Run. *)

\* runSession's deferred cleanup(): ch.Close(), unless the forwarder has done it.
Cleanup ==
    /\ pc = "cleanup"
    /\ pc' = "close"
    /\ chan' = Closed(session)
    /\ UNCHANGED <<cancelled, session, sessErr, conn, sent, forwarder, delay, loop,
                   late>>

\* Seeded fault: a lost session ends Run as a cancelled one does.
Verdict_LossIsNil(err) ==
    IF err \in {"max", "ctx", "reconnect"} THEN "nil" ELSE err

\* What Run does with the session's error: the value it returns, or "retry".
Verdict(err) ==
    IF err \in {"max", "ctx"} THEN "nil"
    ELSE IF err = "reconnect" THEN "retry"
    ELSE err

\* Seeded fault: the connection is closed only when Run returns.
CloseConnection_OnReturn ==
    /\ pc = "close"
    /\ IF Verdict(sessErr) = "retry"
       THEN pc' = "top" /\ result' = result /\ UNCHANGED <<conn, chan>>
       ELSE /\ pc' = "stopped"
            /\ result' = Verdict(sessErr)
            /\ conn' = [conn EXCEPT ![session] = "closed"]
            /\ chan' = Closed(session)
    /\ UNCHANGED <<cancelled, session, sessErr, sent, forwarder, delay, cur,
                   matchedEvents, renderer, handled, rendered, late>>

\* Seeded fault: the renderer is closed at the end of each session.
CloseConnection_ClosesRenderer ==
    /\ pc = "close"
    /\ conn' = [conn EXCEPT ![session] = "closed"]
    /\ chan' = Closed(session)
    /\ renderer' = "closed"
    /\ IF Verdict(sessErr) = "retry"
       THEN pc' = "top" /\ result' = result
       ELSE pc' = "stopped" /\ result' = Verdict(sessErr)
    /\ UNCHANGED <<cancelled, session, sessErr, sent, forwarder, delay, cur,
                   matchedEvents, handled, rendered, late>>

\* conn.Close() shuts down the connection's channels too.
CloseConnection ==
    /\ pc = "close"
    /\ conn' = [conn EXCEPT ![session] = "closed"]
    /\ chan' = Closed(session)
    /\ IF Verdict(sessErr) = "retry"
       THEN pc' = "top" /\ result' = result
       ELSE pc' = "stopped" /\ result' = Verdict(sessErr)
    /\ UNCHANGED <<cancelled, session, sessErr, sent, forwarder, delay, cur,
                   matchedEvents, renderer, handled, rendered, late>>

\* Run's deferred renderer.Close(); its error counts only if there is no other.
CloseRenderer ==
    /\ pc = "stopped"
    /\ pc' = "exited"
    /\ renderer' = "closed"
    /\ result' \in IF result = "nil" THEN {"nil", "close"} ELSE {result}
    /\ UNCHANGED <<cancelled, session, sessErr, library, forwarder, delay, cur,
                   matchedEvents, handled, rendered, late>>

--------------------------------------------------------------------------------
\* SIGINT or SIGTERM (cmd/amqp-routing-inspector/main.go).
Interrupt ==
    /\ ~cancelled
    /\ cancelled' = TRUE
    /\ UNCHANGED <<main, library, forwarder, delay, loop, late>>

\* A caller that has cancelled the context after Run returned has nothing left.
Terminated ==
    /\ pc = "exited"
    /\ cancelled
    /\ \A s \in Sessions : fwd[s] \in {"none", "done"}
    /\ UNCHANGED vars

Hose(A) == A /\ UNCHANGED <<delay, loop, late>>

\* The goroutine that runs Service.Run.
Main ==
    \/ StopAtTop \/ Connect \/ DialSucceeds \/ DialFails \/ TimerFires
    \/ WaitCancelled \/ Setup
    \/ SessionCancelled \/ ConnectionClosed \/ StreamClosed \/ Receive
    \/ Skip \/ Render \/ RenderFails
    \/ Cleanup \/ CloseConnection \/ CloseRenderer

Next ==
    \/ Main
    \/ \E s \in Sessions : Hose(Forward(s) \/ ShutdownChannel(s) \/ Broker(s))
    \/ Interrupt
    \/ Terminated

(***************************************************************************)
(* Every goroutine that can run does, a dial and a call to the broker      *)
(* return, a timer fires, and the library shuts the channels of a lost     *)
(* connection down: WF. A branch of a select that is ready again and again *)
(* is chosen in the end, since Go chooses uniformly: SF on the branches of *)
(* the context. The broker, the network and the user owe nothing.          *)
(***************************************************************************)
Fairness ==
    /\ WF_vars(Main)
    /\ SF_vars(WaitCancelled)
    /\ SF_vars(SessionCancelled)
    /\ \A s \in Sessions : /\ WF_vars(Hose(Forward(s)))
                           /\ SF_vars(Hose(FwdCancelled(s)))
                           /\ WF_vars(Hose(ShutdownChannel(s)))

Spec == Init /\ [][Next]_vars /\ Fairness

--------------------------------------------------------------------------------
(* Safety *)

Precedes(d, e) == d[1] < e[1] \/ (d[1] = e[1] /\ d[2] < e[2])

\* Traces come out in the order of the firehose and none comes out twice, across
\* reconnections too: a forwarder of an earlier session that still holds a
\* delivery never gets it into a later session.
RenderedInOrder ==
    \A i, j \in 1..Len(rendered) : i < j => Precedes(rendered[i], rendered[j])

\* Between the library and the loop of session s at most one delivery is on its
\* way, in the hand of the forwarder; a forwarder waiting for the library holds
\* none. So what a session handles has no gap, and what its end loses is what
\* the library had buffered and this one.
NoGap ==
    \A s \in Sessions :
        /\ handled[s] <= taken[s] /\ taken[s] <= handled[s] + 1
        /\ fwd[s] = "recv" => taken[s] = handled[s]
        /\ fwd[s] = "send" => taken[s] = handled[s] + 1

\* matchedEvents counts what was rendered in all sessions, and --max-events is
\* never exceeded, not even when a delivery waits as the limit is reached; the
\* session that reaches it is the last, and the limit is a success.
LimitRespected ==
    /\ matchedEvents = Len(rendered)
    /\ MaxEvents > 0 => matchedEvents <= MaxEvents
    /\ MaxEvents > 0 /\ matchedEvents = MaxEvents =>
          \/ pc \in {"cleanup", "close"} /\ sessErr = "max"
          \/ pc \in {"stopped", "exited"} /\ result \in {"nil", "close"}

\* Run returns nil, so that the process exits with status 0, only because it was
\* interrupted or reached --max-events: never because the broker went away.
NilReturnJustified ==
    pc \in {"stopped", "exited"} /\ result = "nil" =>
        cancelled \/ (MaxEvents > 0 /\ matchedEvents = MaxEvents)

\* At any time at most the current session has a connection or a channel, and
\* none has one when Run is on its way out, or dials: no path through the loop
\* forgets to release what an earlier turn acquired.
OneLiveSession ==
    \A s \in Sessions :
        conn[s] \in {"open", "lost"} \/ chan[s] \in {"open", "consuming", "ended"} =>
            /\ s = session
            /\ pc \notin {"top", "dial", "wait", "stopped", "exited"}

\* How many steps runSession and its caller still take in the current session if
\* no further delivery is pushed: two for each that was and has not been handled,
\* and those at the end, from where control stands.
Stage ==
    CASE pc \in SetupStages \cup {"handle"} -> 4
      [] pc = "select"                      -> 3
      [] pc = "cleanup"                     -> 2
      [] pc = "close"                       -> 1
      [] OTHER                              -> 0

SessionWork == 2 * (sent[session] - handled[session]) + Stage

\* Once its connection is lost or its deliveries have ended, a session cannot go on
\* for ever, whatever is still buffered and however the forwarder, the library and
\* the loop take turns: each step of Run in it is one step less to its end, and no
\* step of anybody else adds one.
LostSessionRunsDown ==
    [][Stage > 0 /\ (conn[session] # "open" \/ chan[session] \in {"ended", "closed"}) =>
          /\ SessionWork' \in 0..SessionWork
          /\ pc' # pc => SessionWork' < SessionWork]_vars

\* A dial in flight when the user interrupts may still succeed and be used for a
\* session; there is never a second one.
AtMostOneLateSession == late <= 1

(***************************************************************************)
(* docs/architecture.md:24: the service "Treats channel closure and        *)
(* connection closure as reconnect signals." Said of a connection lost     *)
(* while Consume is still setting the session up.                          *)
(***************************************************************************)
LossIsReconnect ==
    [][(pc \in SetupStages /\ conn[session] = "lost" /\ pc' # pc) =>
          sessErr' = "reconnect"]_vars

--------------------------------------------------------------------------------
(* Liveness *)

Drained ==
    /\ pc = "exited"
    /\ \A s \in Sessions : fwd[s] \in {"none", "done"}

\* An interrupt ends Run and every forwarder that was ever started, those left
\* behind by earlier sessions with a delivery in hand included.
InterruptDrains == cancelled ~> []Drained

\* A session whose connection is lost, or whose deliveries have ended, is given
\* up and its connection released, though deliveries may still be on their way.
LostSessionReleased ==
    \A s \in Sessions :
        (conn[s] = "lost" \/ chan[s] \in {"ended", "closed"}) ~> conn[s] = "closed"

--------------------------------------------------------------------------------
(* Refinement *)

\* The run is over when its renderer is closed: closing it is Run's last step.
outcome == IF renderer = "open" THEN "running"
           ELSE IF result = "nil" THEN "ok" ELSE "error"

TS == INSTANCE TraceStream
        WITH Streams <- MaxSessions, Events <- MaxDeliveries,
             output <- rendered, interrupted <- cancelled, outcome <- outcome

\* However sessions come and go, what the renderer gets is what TraceStream
\* promises: one ordered stream without repetition, within the limit, while the
\* renderer is open, and a success only after an interrupt or at the limit.
ImplementsTraceStream == TS!Spec

================================================================================
