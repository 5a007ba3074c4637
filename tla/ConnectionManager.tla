--------------------------- MODULE ConnectionManager ---------------------------
(***************************************************************************)
(* internal/connection/manager.go: the dial loop that establishes an AMQP  *)
(* connection, with exponential backoff between failed attempts.           *)
(*                                                                         *)
(* A time.Duration is a signed machine integer of the range                *)
(* -(MaxDuration + 1) .. MaxDuration (int64 in the code, so that           *)
(* MaxDuration = 2^63 - 1 nanoseconds); doubling it wraps around.          *)
(*                                                                         *)
(* pc is the program counter of the goroutine that runs Service.Run, of    *)
(* which this module knows the labels of ConnectWithRetry: "dial" (inside  *)
(* m.dial), "wait" (the select on ctx.Done and the timer), and the labels  *)
(* where it starts ("top") and ends ("connected", or "stopped" when it     *)
(* returned ctx.Err()).                                                    *)
(***************************************************************************)
EXTENDS Integers

CONSTANTS
    MaxDuration,     \* the largest time.Duration
    DefaultInitial,  \* 1 * time.Second
    DefaultMax       \* 30 * time.Second

ASSUME DurationAssumption ==
    /\ MaxDuration \in Nat
    /\ DefaultInitial \in 1..MaxDuration
    /\ DefaultMax \in DefaultInitial..MaxDuration

VARIABLES
    pc,                \* control of the goroutine that runs Service.Run
    cancelled,         \* the context is done
    delay,             \* local variable of ConnectWithRetry
    reconnectInitial,  \* fields of Manager, never assigned after NewManager
    reconnectMax

config == <<reconnectInitial, reconnectMax>>
vars == <<pc, cancelled, delay, config>>

Durations == (-MaxDuration - 1)..MaxDuration

TypeOK ==
    /\ pc \in {"top", "dial", "wait", "connected", "stopped"}
    /\ cancelled \in BOOLEAN
    /\ delay \in Durations
    /\ reconnectInitial \in 1..MaxDuration
    /\ reconnectMax \in reconnectInitial..MaxDuration

--------------------------------------------------------------------------------
\* The value a machine integer holds after an operation on two of them whose
\* exact result is d.
Wrap(d) ==
    IF d > MaxDuration THEN d - 2 * (MaxDuration + 1)
    ELSE IF d < -MaxDuration - 1 THEN d + 2 * (MaxDuration + 1)
    ELSE d

\* Seeded fault: the cap is compared with the old delay.
nextBackoff_CapsLate(current, max) ==
    IF current > max THEN max ELSE Wrap(current * 2)

nextBackoff(current, max) ==
    LET next == Wrap(current * 2)
    IN  IF next > max THEN max ELSE next

\* NewManager's normalisation of the two configured durations.
NormalInitial(initial) == IF initial <= 0 THEN DefaultInitial ELSE initial

\* Seeded fault: reconnect_max may stay below reconnect_initial.
NormalMax_Unordered(initial, max) == IF max <= 0 THEN DefaultMax ELSE max

NormalMax(initial, max) ==
    LET given == IF max <= 0 THEN DefaultMax ELSE max
    IN  IF given < NormalInitial(initial) THEN NormalInitial(initial) ELSE given

Init ==
    /\ pc = "top"
    /\ cancelled \in BOOLEAN
    /\ delay = 0
    /\ \E initial, max \in Durations :
          /\ reconnectInitial = NormalInitial(initial)
          /\ reconnectMax = NormalMax(initial, max)

--------------------------------------------------------------------------------
\* The call of ConnectWithRetry: every call starts from the initial delay. The
\* first dial is made without looking at the context.
ConnectWithRetry ==
    /\ pc = "top"
    /\ pc' = "dial"
    /\ delay' = reconnectInitial
    /\ UNCHANGED cancelled

DialSucceeds ==
    /\ pc = "dial"
    /\ pc' = "connected"
    /\ UNCHANGED <<cancelled, delay>>

DialFails ==
    /\ pc = "dial"
    /\ pc' = "wait"
    /\ UNCHANGED <<cancelled, delay>>

\* Seeded fault: the delay is declared inside the loop.
TimerFires_ForgetsDelay ==
    /\ pc = "wait"
    /\ pc' = "dial"
    /\ delay' = reconnectInitial
    /\ UNCHANGED cancelled

\* The timer of the select fires; the next attempt gets the next delay.
TimerFires ==
    /\ pc = "wait"
    /\ pc' = "dial"
    /\ delay' = nextBackoff(delay, reconnectMax)
    /\ UNCHANGED cancelled

\* Seeded fault: a break that leaves the select and not the loop.
WaitCancelled_Redials ==
    /\ pc = "wait"
    /\ cancelled
    /\ pc' = "dial"
    /\ UNCHANGED <<cancelled, delay>>

\* The other branch of the select: ConnectWithRetry returns ctx.Err().
WaitCancelled ==
    /\ pc = "wait"
    /\ cancelled
    /\ pc' = "stopped"
    /\ UNCHANGED <<cancelled, delay>>

\* The caller's session ended and it asks for a connection again; like
\* Service.Run it does not ask when the context is done.
CallerReturns ==
    /\ pc = "connected"
    /\ pc' = IF cancelled THEN "stopped" ELSE "top"
    /\ UNCHANGED <<cancelled, delay>>

Cancel ==
    /\ ~cancelled
    /\ cancelled' = TRUE
    /\ UNCHANGED <<pc, delay>>

Stopped ==
    /\ pc = "stopped"
    /\ UNCHANGED <<pc, cancelled, delay>>

Step ==
    \/ ConnectWithRetry
    \/ DialSucceeds
    \/ DialFails
    \/ TimerFires
    \/ WaitCancelled
    \/ CallerReturns

\* The manager's fields are set once and for all.
Fixed(A) == A /\ UNCHANGED config

Next == Fixed(Step \/ Cancel \/ Stopped)

(***************************************************************************)
(* A dial always returns (amqp.Dial sets a 30 second deadline) and a timer *)
(* always fires, which WF on the whole goroutine says. When both branches  *)
(* of the select are ready again and again, Go's uniform choice takes the  *)
(* context's at some point: SF on that branch. Nothing obliges a dial to   *)
(* succeed, and nobody has to cancel.                                      *)
(***************************************************************************)
Spec ==
    /\ Init
    /\ [][Next]_vars
    /\ WF_vars(Fixed(Step))
    /\ SF_vars(Fixed(WaitCancelled))

--------------------------------------------------------------------------------
\* Doubling a delay of at most reconnectMax stays within the machine integers.
NoOverflow == 2 * reconnectMax <= MaxDuration

\* While a connection is being established, the delay is at least the initial
\* one and never beyond reconnect_max, as long as doubling cannot overflow: a
\* delay of 0 or less would make the loop dial without any pause.
BackoffBounded ==
    NoOverflow /\ pc \in {"dial", "wait"} =>
        reconnectInitial <= delay /\ delay <= reconnectMax

\* Within one call every wait is longer than the one before it, at most twice as
\* long, until the wait is reconnect_max: a broker that is down is never dialled
\* at a growing rate, nor left alone sooner than the doubling says.
BackoffGrows ==
    [][NoOverflow /\ pc = "wait" /\ pc' = "dial" =>
          \/ delay < delay' /\ delay' <= 2 * delay
          \/ delay = reconnectMax /\ delay' = delay]_vars

\* A cancelled context ends the loop, whatever the broker does: retries go on
\* forever only for a caller that never cancels. The delay plays no part, so
\* this holds with overflowing durations too.
CancelStopsRetries == cancelled ~> pc = "stopped"

================================================================================
