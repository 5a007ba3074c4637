------------------------ MODULE ConnectionManager_proofs ------------------------
(***************************************************************************)
(* Proofs about ConnectionManager, for every width of a duration and every *)
(* configured pair of durations.                                           *)
(***************************************************************************)
EXTENDS ConnectionManager, TLAPS

LEMMA WrapRange ==
    ASSUME NEW d \in Durations
    PROVE  Wrap(2 * d) \in Durations /\ Wrap(d * 2) \in Durations
BY DurationAssumption DEF Wrap, Durations

\* The next delay is a duration; and when doubling cannot overflow it is the
\* doubled delay, up to the cap.
LEMMA BackoffRange ==
    ASSUME NEW max \in 1..MaxDuration, NEW d \in Durations
    PROVE  /\ nextBackoff(d, max) \in Durations
           /\ 2 * max <= MaxDuration /\ d \in 1..max =>
                 nextBackoff(d, max) = IF 2 * d > max THEN max ELSE 2 * d
<1>1. max \in Durations
    BY DurationAssumption DEF Durations
<1>2. nextBackoff(d, max) \in Durations
    BY <1>1, WrapRange DEF nextBackoff
<1>3. ASSUME 2 * max <= MaxDuration, d \in 1..max
      PROVE  Wrap(d * 2) = 2 * d
    BY <1>3, DurationAssumption DEF Wrap
<1> QED
    BY <1>2, <1>3 DEF nextBackoff

Inv == TypeOK /\ BackoffBounded

LEMMA InitInv == Init => Inv
<1> SUFFICES ASSUME Init PROVE Inv
    OBVIOUS
<1>1. PICK initial, max \in Durations :
         /\ reconnectInitial = NormalInitial(initial)
         /\ reconnectMax = NormalMax(initial, max)
    BY DEF Init
<1>2. reconnectInitial \in 1..MaxDuration
    BY <1>1, DurationAssumption DEF NormalInitial, Durations
<1>3. reconnectMax \in reconnectInitial..MaxDuration
    BY <1>1, <1>2, DurationAssumption DEF NormalInitial, NormalMax, Durations
<1> QED
    BY <1>2, <1>3, DurationAssumption DEF Init, Inv, TypeOK, BackoffBounded, Durations

LEMMA NextInv == Inv /\ [Next]_vars => Inv'
<1> SUFFICES ASSUME Inv, [Next]_vars PROVE Inv'
    OBVIOUS
<1> USE DurationAssumption DEF Inv, TypeOK, BackoffBounded, NoOverflow, config
<1>0. CASE UNCHANGED vars
    BY <1>0 DEF vars
<1>1. CASE ConnectWithRetry /\ UNCHANGED config
    BY <1>1 DEF ConnectWithRetry, Durations
<1>2. CASE DialSucceeds /\ UNCHANGED config
    BY <1>2 DEF DialSucceeds
<1>3. CASE DialFails /\ UNCHANGED config
    BY <1>3 DEF DialFails
<1>4. CASE TimerFires /\ UNCHANGED config
  <2>1. reconnectMax \in 1..MaxDuration
      OBVIOUS
  <2>2. delay' \in Durations
      BY <1>4, <2>1, BackoffRange DEF TimerFires
  <2>3. ASSUME NoOverflow
        PROVE  reconnectInitial <= delay' /\ delay' <= reconnectMax
    <3>1. delay \in 1..reconnectMax /\ reconnectInitial <= delay
        BY <1>4, <2>3 DEF TimerFires, Durations
    <3>2. delay' = IF 2 * delay > reconnectMax THEN reconnectMax ELSE 2 * delay
        BY <1>4, <2>1, <2>3, <3>1, BackoffRange DEF TimerFires
    <3> QED
        BY <3>1, <3>2
  <2> QED
      BY <1>4, <2>2, <2>3 DEF TimerFires
<1>5. CASE WaitCancelled /\ UNCHANGED config
    BY <1>5 DEF WaitCancelled
<1>6. CASE CallerReturns /\ UNCHANGED config
    BY <1>6 DEF CallerReturns
<1>7. CASE Cancel /\ UNCHANGED config
    BY <1>7 DEF Cancel
<1>8. CASE Stopped /\ UNCHANGED config
    BY <1>8 DEF Stopped
<1> QED
    BY <1>0, <1>1, <1>2, <1>3, <1>4, <1>5, <1>6, <1>7, <1>8 DEF Next, Fixed, Step

LEMMA Inductive == Spec => []Inv
BY InitInv, NextInv, PTL DEF Spec

\* Every delay is a duration, of whatever sign, also where doubling overflows.
THEOREM TypeCorrect == Spec => []TypeOK
<1>1. Inv => TypeOK
    BY DEF Inv
<1> QED
    BY Inductive, <1>1, PTL

\* If twice reconnect_max is a duration, no delay is ever below reconnect_initial
\* or beyond reconnect_max: NewManager's normalisation is all that it takes, with
\* whatever durations were configured.
THEOREM Bounded == Spec => []BackoffBounded
<1>1. Inv => BackoffBounded
    BY DEF Inv
<1> QED
    BY Inductive, <1>1, PTL

\* The delays of one call grow, at most by a factor of two, until they reach
\* reconnect_max.
THEOREM Growing == Spec => BackoffGrows
<1>1. ASSUME Inv, Next, NoOverflow, pc = "wait", pc' = "dial"
      PROVE  \/ delay < delay' /\ delay' <= 2 * delay
             \/ delay = reconnectMax /\ delay' = delay
  <2>1. TimerFires
      BY <1>1 DEF Next, Fixed, Step, ConnectWithRetry, DialSucceeds, DialFails,
                  WaitCancelled, CallerReturns, Cancel, Stopped
  <2>2. reconnectMax \in 1..MaxDuration /\ delay \in 1..reconnectMax
      BY <1>1, DurationAssumption DEF Inv, TypeOK, BackoffBounded, Durations
  <2>3. delay' = IF 2 * delay > reconnectMax THEN reconnectMax ELSE 2 * delay
      BY <1>1, <2>1, <2>2, BackoffRange DEF TimerFires, NoOverflow, Inv, TypeOK
  <2> QED
      BY <2>2, <2>3, DurationAssumption
<1>2. Inv /\ [Next]_vars =>
         [NoOverflow /\ pc = "wait" /\ pc' = "dial" =>
             \/ delay < delay' /\ delay' <= 2 * delay
             \/ delay = reconnectMax /\ delay' = delay]_vars
    BY <1>1
<1> QED
    BY Inductive, <1>2, PTL DEF Spec, BackoffGrows

================================================================================
