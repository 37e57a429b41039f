----------------------------- MODULE HeartbeatTask -----------------------------
(***************************************************************************)
(* heartbeat_task.c: rounds of one publication and one delay, and the       *)
(* setter app_main and cmd/config call while the task sleeps.  Time is      *)
(* counted in FreeRTOS ticks; the delay is computed in machine words, as    *)
(* pdMS_TO_TICKS(s_interval_s * 1000) does.                                 *)
(***************************************************************************)
EXTENDS Naturals

CONSTANTS
    Default,      \* the interval app_main restores, in seconds
    MaxInterval,  \* 3600
    Requested,    \* the intervals callers ask for
    Milli,        \* milliseconds in a second
    TickRate,     \* configTICK_RATE_HZ
    Word,         \* 2^32
    PushWait      \* the longest a push takes

ASSUME HeartbeatAssumption ==
    /\ {Default, MaxInterval, Milli, TickRate, Word, PushWait} \subseteq Nat
    /\ Requested \subseteq Nat
    /\ Default \in 1..MaxInterval /\ Milli > 0 /\ TickRate > 0
    /\ MaxInterval * Milli * TickRate < Word

VARIABLES
    pc,            \* where heartbeat_task is: not started, publish, delay
    s_interval_s,  \* the period the next delay will take
    left,          \* ticks the current push or delay may still take
    elapsed,       \* history: ticks since the round began
    period         \* history: the interval in force when the delay began

vars == <<pc, s_interval_s, left, elapsed, period>>

Init == pc = "init" /\ s_interval_s = Default /\ left = 0 /\ elapsed = 0 /\ period = 0
-----------------------------------------------------------------------------
\* Mutants of definitions below.
bug_Valid(s) == s # 0 /\ s <= MaxInterval + 1
bug_Published == /\ pc = "publish" /\ pc' = "delay"
                 /\ period' = IF period = 0 THEN s_interval_s ELSE period
                 /\ left' = period' * TickRate
                 /\ UNCHANGED <<s_interval_s, elapsed>>
-----------------------------------------------------------------------------
Ticks(s) == ((((s * Milli) % Word) * TickRate) % Word) \div Milli

Valid(s) == s # 0 /\ s <= MaxInterval

\* heartbeat_task_set_interval_s
SetInterval ==
    /\ \E s \in Requested : Valid(s) /\ s_interval_s' = s
    /\ UNCHANGED <<pc, left, elapsed, period>>

Round == pc' = "publish" /\ left' = PushWait /\ elapsed' = 0

\* heartbeat_task_start
Start ==
    /\ pc = "init"
    /\ Round
    /\ UNCHANGED <<s_interval_s, period>>

\* The push has returned, in time or not; the result is not looked at.
Published ==
    /\ pc = "publish"
    /\ pc' = "delay"
    /\ left' = Ticks(s_interval_s)
    /\ period' = s_interval_s
    /\ UNCHANGED <<s_interval_s, elapsed>>

DelayOver ==
    /\ pc = "delay" /\ left = 0
    /\ Round
    /\ UNCHANGED <<s_interval_s, period>>

Tick ==
    /\ left > 0
    /\ left' = left - 1 /\ elapsed' = elapsed + 1
    /\ UNCHANGED <<pc, s_interval_s, period>>

Task == Start \/ Published \/ DelayOver

Next == SetInterval \/ Task \/ Tick

Spec == Init /\ [][Next]_vars

FairSpec == Spec /\ WF_vars(Task) /\ WF_vars(Tick)
-----------------------------------------------------------------------------
TypeOK ==
    /\ pc \in {"init", "publish", "delay"}
    /\ s_interval_s \in 1..MaxInterval
    /\ left \in Nat /\ elapsed \in Nat
    /\ period \in 0..MaxInterval

(***************************************************************************)
(* Two heartbeats are as far apart as the interval in force when the first  *)
(* was out, and at most the wait of a push further: neither a change during *)
(* the delay nor the arithmetic of the longest interval moves the second.   *)
(***************************************************************************)
GapIsTheInterval ==
    [][DelayOver => elapsed \in (period * TickRate)..(period * TickRate + PushWait)]_vars

(***************************************************************************)
(* The same seen within the delay: what is gone and what is left of it make *)
(* up the interval.                                                         *)
(***************************************************************************)
DelayAddsUp ==
    pc = "delay" =>
        /\ elapsed + left \in (period * TickRate)..(period * TickRate + PushWait)
        /\ period > 0

(***************************************************************************)
(* An interval that is set and stays is the one the delays take from some   *)
(* point on; whatever is set meanwhile, heartbeats go on.                   *)
(***************************************************************************)
IntervalTakesOver ==
    /\ \A s \in 1..MaxInterval :
          <>[](s_interval_s = s) => <>[](pc = "delay" => period = s)
    /\ []<>(pc = "publish")
=============================================================================
