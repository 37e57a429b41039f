-------------------------- MODULE HeartbeatTaskProofs --------------------------
(***************************************************************************)
(* The spacing of the heartbeats, for every tick rate, every maximum        *)
(* interval that fits the machine word, and every sequence of settings.     *)
(***************************************************************************)
EXTENDS HeartbeatTask, TLAPS

\* A product of naturals is a natural, and grows with its first factor.
LEMMA ProductGrows ==
    ASSUME NEW a \in Nat, NEW b \in Nat, NEW c \in Nat, a <= b
    PROVE  a * c \in Nat /\ b * c \in Nat /\ a * c <= b * c
  BY SMT

\* A number below the word is what the word holds.
LEMMA Fits ==
    ASSUME NEW a \in Nat, NEW w \in Nat, a < w
    PROVE  a % w = a
  BY SMT

\* Division undoes the multiplication.
LEMMA Undone ==
    ASSUME NEW a \in Nat, NEW b \in Nat, NEW m \in Nat, m > 0
    PROVE  ((a * m) * b) \div m = a * b
  <1>1. (a * m) * b = (a * b) * m
    BY SMT
  <1>2. a * b \in Nat
    BY SMT
  <1> DEFINE p == a * b
  <1> HIDE DEF p
  <1>3. ASSUME NEW q \in Nat PROVE (q * m) \div m = q
    BY SMT
  <1> QED
    BY <1>1, <1>2, <1>3

(***************************************************************************)
(* The delay the code computes is the interval in ticks: nothing wraps.     *)
(***************************************************************************)
LEMMA TicksExact ==
    ASSUME NEW s \in 1..MaxInterval
    PROVE  Ticks(s) = s * TickRate
  <1>1. /\ s \in Nat /\ MaxInterval \in Nat /\ s <= MaxInterval
        /\ Milli \in Nat /\ TickRate \in Nat /\ Word \in Nat /\ PushWait \in Nat
        /\ Milli > 0 /\ TickRate > 0
        /\ (MaxInterval * Milli) * TickRate < Word
    BY HeartbeatAssumption
  <1>2. /\ s * Milli \in Nat /\ MaxInterval * Milli \in Nat
        /\ s * Milli <= MaxInterval * Milli
    BY <1>1, ProductGrows
  <1>3. /\ (s * Milli) * TickRate \in Nat
        /\ (s * Milli) * TickRate <= (MaxInterval * Milli) * TickRate
        /\ (MaxInterval * Milli) * TickRate \in Nat
    BY <1>1, <1>2, ProductGrows
  <1>4. (s * Milli) * TickRate < Word
    BY <1>1, <1>3
  <1>5. s * Milli <= (s * Milli) * TickRate
    <2> DEFINE p == s * Milli
    <2>1. p \in Nat /\ 1 \in Nat /\ 1 <= TickRate
      BY <1>1, <1>2
    <2> HIDE DEF p
    <2>2. 1 * p <= TickRate * p
      BY <1>1, <2>1, ProductGrows
    <2>3. 1 * p = p /\ TickRate * p = p * TickRate
      BY <1>1, <2>1
    <2> QED
      BY <2>2, <2>3 DEF p
  <1>6. s * Milli < Word
    BY <1>1, <1>2, <1>3, <1>4, <1>5
  <1>7. (s * Milli) % Word = s * Milli
    BY <1>1, <1>2, <1>6, Fits
  <1>8. ((s * Milli) * TickRate) % Word = (s * Milli) * TickRate
    BY <1>1, <1>3, <1>4, Fits
  <1>9. Ticks(s) = ((s * Milli) * TickRate) \div Milli
    BY <1>7, <1>8 DEF Ticks
  <1>10. ((s * Milli) * TickRate) \div Milli = s * TickRate
    BY ONLY <1>1, Undone
  <1> QED
    BY <1>9, <1>10
-----------------------------------------------------------------------------
(***************************************************************************)
(* What holds between two steps.  While a push may still wait, its time     *)
(* gone and its time left add up to PushWait.                               *)
(***************************************************************************)
PushAddsUp == pc = "publish" => elapsed + left = PushWait

Invariant == TypeOK /\ DelayAddsUp /\ PushAddsUp

\* heartbeat_task: the delay and the push in progress always add up.
THEOREM IntervalsHold == Spec => []Invariant
<1>1. Init => Invariant
  BY HeartbeatAssumption DEF Init, Invariant, TypeOK, DelayAddsUp, PushAddsUp
<1>2. Invariant /\ [Next]_vars => Invariant'
  <2> SUFFICES ASSUME Invariant, [Next]_vars PROVE Invariant'
    OBVIOUS
  <2> USE DEF Invariant
  <2>0. PushWait \in Nat /\ MaxInterval \in Nat /\ TickRate \in Nat
    BY HeartbeatAssumption
  <2>1. CASE SetInterval
    <3>1. s_interval_s' \in 1..MaxInterval
      BY <2>0, <2>1, HeartbeatAssumption DEF SetInterval, Valid
    <3> QED
      BY <2>1, <3>1 DEF SetInterval, TypeOK, DelayAddsUp, PushAddsUp
  <2>2. CASE Start
    BY <2>0, <2>2 DEF Start, Round, TypeOK, DelayAddsUp, PushAddsUp
  <2>3. CASE Published
    <3> DEFINE t == s_interval_s * TickRate
    <3>1. s_interval_s \in 1..MaxInterval /\ t \in Nat
      BY <2>0, ProductGrows DEF TypeOK
    <3>2. left' = t /\ period' * TickRate = t /\ period' \in 1..MaxInterval
      BY <2>3, <3>1, TicksExact DEF Published
    <3>3. elapsed' \in 0..PushWait
      BY <2>0, <2>3 DEF Published, TypeOK, PushAddsUp
    <3> HIDE DEF t
    <3>4. elapsed' + left' \in t..(t + PushWait)
      <4>1. ASSUME NEW d \in Nat, NEW w \in Nat, NEW e \in 0..w
            PROVE  e + d \in d..(d + w)
        OBVIOUS
      <4>2. elapsed' + t \in t..(t + PushWait)
        BY <2>0, <3>1, <3>3, <4>1
      <4> QED
        BY <3>2, <4>2
    <3>5. DelayAddsUp'
      BY <3>2, <3>4 DEF DelayAddsUp
    <3>6. TypeOK'
      BY <2>0, <2>3, <3>1, <3>2, <3>3 DEF Published, TypeOK
    <3> QED
      BY <2>3, <3>5, <3>6 DEF Published, PushAddsUp
  <2>4. CASE DelayOver
    BY <2>0, <2>4 DEF DelayOver, Round, TypeOK, DelayAddsUp, PushAddsUp
  <2>5. CASE Tick
    <3>1. left' \in Nat /\ elapsed' \in Nat /\ elapsed' + left' = elapsed + left
      BY <2>5 DEF Tick, TypeOK
    <3> QED
      BY <2>5, <3>1 DEF Tick, TypeOK, DelayAddsUp, PushAddsUp
  <2>6. CASE UNCHANGED vars
    BY <2>6 DEF vars, TypeOK, DelayAddsUp, PushAddsUp
  <2> QED
    BY <2>1, <2>2, <2>3, <2>4, <2>5, <2>6 DEF Next, Task
<1> QED
  BY <1>1, <1>2, PTL DEF Spec

(***************************************************************************)
(* heartbeat_task: two heartbeats are as far apart as the interval in force *)
(* when the first was out, and at most the wait of a push further.          *)
(***************************************************************************)
THEOREM HeartbeatsAreSpaced == Spec => GapIsTheInterval
<1>1. Invariant /\ [Next]_vars =>
        [DelayOver => elapsed \in (period * TickRate)..(period * TickRate + PushWait)]_vars
  <2> SUFFICES ASSUME Invariant, DelayOver
               PROVE  elapsed \in (period * TickRate)..(period * TickRate + PushWait)
    OBVIOUS
  <2>1. elapsed + left = elapsed
    BY DEF DelayOver, Invariant, TypeOK
  <2> QED
    BY <2>1 DEF DelayOver, Invariant, DelayAddsUp
<1> QED
  BY <1>1, IntervalsHold, PTL DEF Spec, GapIsTheInterval
=============================================================================
