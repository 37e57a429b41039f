--------------------------- MODULE MotionDetection ---------------------------
(***************************************************************************)
(* The PIR detector (motion_detection.c) in a build that has one: the GPIO  *)
(* interrupt, the worker task that filters its edges, and the two tasks     *)
(* that apply settings to it, app_main at the end of the boot and the       *)
(* esp-mqtt task for every cmd/config, which nothing keeps from coming      *)
(* before that (main.c:93, :99).  Nothing locks s_state: two cores run      *)
(* these tasks, and every access below is a step of its own.                *)
(*                                                                          *)
(* The CPU is a 32-bit one: warmup_until_us and last_trigger_us are two     *)
(* words each, stored one after the other in an order the compiler chooses; *)
(* a read between the two stores sees a mix.                                *)
(* A word holds 0..WordSize-1.  Milliseconds and microseconds are both      *)
(* counted in ticks of the clock.                                           *)
(***************************************************************************)
EXTENDS Integers, Sequences

CONSTANTS
    Settings,     \* what may be applied: [enabled, warmup_ms, cooldown_ms]
    WordSize,     \* values of a machine word of a 64-bit time
    MaxTime,      \* bound: the last value of the clock
    MaxUpdates,   \* bound: cmd/config updates the esp-mqtt task applies
    EventQueue    \* bound: events the default event loop holds

ASSUME MotionAssumption ==
    /\ Settings # {}
    /\ \A s \in Settings : /\ s.enabled \in BOOLEAN
                           /\ s.warmup_ms \in Nat /\ s.cooldown_ms \in Nat
    /\ WordSize \in Nat \ {0}
    /\ MaxTime \in Nat \ {0}
    /\ MaxUpdates \in Nat
    /\ EventQueue \in Nat

Appliers == {"main", "mqtt"}
Words == {"started", "warmup_ms", "cooldown_ms",
          "until_hi", "until_lo", "last_hi", "last_lo"}

VARIABLES
    now,       \* esp_timer_get_time()
    notified,  \* the notification value of the worker task
    s_state,   \* the component's state, word by word
    apply,     \* per applier: where it is in apply_settings_internal
    updates,   \* how often the esp-mqtt task has entered it
    plan,      \* per task: the stores it still has to do, in groups
    pc,        \* where motion_detection_task is
    now_us,    \* its local now_us
    cooldown,  \* its local cooldown_us
    events,    \* accepted triggers waiting in the default event loop
    window,    \* history: warmup_until_us as the last start computed it,
               \* 0 while muddled
    muddled,   \* history: have two applications overlapped, and none found the
               \* detector off and itself alone since?
    fell,      \* history: what the detector was when now_us was read
    revoked,   \* history: has it been started or disabled since?
    prev       \* history: the trigger accepted before, 0 if none since then

vars == <<now, notified, s_state, apply, updates, plan, pc, now_us, cooldown, events,
          window, muddled, fell, revoked, prev>>
applying == <<apply, updates, window, muddled, revoked>>
locals == <<now_us, cooldown, fell, revoked>>
worker == <<pc, now_us, cooldown, fell, prev>>

Until == s_state["until_hi"] * WordSize + s_state["until_lo"]
Last == s_state["last_hi"] * WordSize + s_state["last_lo"]

\* The store of one word, and of a 64-bit time.
Store(w, v) == {[word |-> w, value |-> v]}
StoreTime(hi, lo, t) == Store(hi, t \div WordSize) \cup Store(lo, t % WordSize)
StoreUntil(t) == StoreTime("until_hi", "until_lo", t)
StoreLast(t) == StoreTime("last_hi", "last_lo", t)

Ready == [at |-> "ready", was_started |-> FALSE, s |-> CHOOSE s \in Settings : TRUE]

Init ==
    /\ now = 1
    /\ notified = FALSE
    /\ \E s \in Settings :
          s_state = [w \in Words |-> CASE w = "warmup_ms" -> s.warmup_ms
                                       [] w = "cooldown_ms" -> s.cooldown_ms
                                       [] OTHER -> 0]
    /\ apply = [a \in Appliers |-> Ready]
    /\ updates = 0
    /\ plan = [t \in Appliers \cup {"worker"} |-> <<>>]
    /\ pc = "take"
    /\ now_us = 0
    /\ cooldown = 0
    /\ events = 0
    /\ window = 0
    /\ muddled = FALSE
    /\ fell = "off"
    /\ revoked = FALSE
    /\ prev = 0
-----------------------------------------------------------------------------
\* Mutants of definitions below.
bug_StartPlan(until) == <<Store("started", 1), StoreUntil(until), StoreLast(0)>>
bug_Warming == now_us < s_state["until_lo"]
bug_Cooling == now_us - s_state["last_lo"] < cooldown
bug_Trigger == now_us + cooldown
bug_PostTimesOut == FALSE
-----------------------------------------------------------------------------
Tick == /\ now < MaxTime
        /\ now' = now + 1
        /\ UNCHANGED <<notified, s_state, applying, plan, worker, events>>

\* motion_detection_isr_handler
Edge == /\ notified' = TRUE
        /\ UNCHANGED <<now, s_state, applying, plan, worker, events>>

\* The plan p once the store w of its first group is done.
After(p, w) == IF p[1] = {w} THEN Tail(p) ELSE [p EXCEPT ![1] = p[1] \ {w}]

\* Task t does one of the stores of the first group of its plan.
DoStore(t) ==
    /\ plan[t] # <<>>
    /\ \E w \in plan[t][1] :
          /\ s_state' = [s_state EXCEPT ![w.word] = w.value]
          /\ plan' = [plan EXCEPT ![t] = After(plan[t], w)]
    /\ UNCHANGED <<now, notified, applying, worker, events>>
-----------------------------------------------------------------------------
(***************************************************************************)
(* motion_detection_apply_settings_internal                                 *)
(***************************************************************************)
Inside(a) == apply[a].at \in {"branch", "leave"}
\* What is left of its locals once it has branched.
Settled(a) == [apply EXCEPT ![a] = [Ready EXCEPT !.at = "leave"]]

\* It reads was_started and stores the timings.
Enter(a, s) ==
    /\ apply[a].at = "ready"
    /\ updates' = IF a = "mqtt" THEN updates + 1 ELSE updates
    /\ updates' <= MaxUpdates
    /\ muddled' = (\/ \E b \in Appliers : Inside(b)
                   \/ muddled /\ s_state["started"] = 1)
    /\ window' = IF muddled' THEN 0 ELSE window
    /\ apply' = [apply EXCEPT ![a] = [at |-> "branch", s |-> s,
                                      was_started |-> s_state["started"] = 1]]
    /\ plan' = [plan EXCEPT ![a] = <<Store("warmup_ms", s.warmup_ms),
                                     Store("cooldown_ms", s.cooldown_ms)>>]
    /\ UNCHANGED <<now, notified, s_state, worker, events, revoked>>

Judging == pc \in {"warmup", "cooldown", "last", "since"}

DisablePlan == <<Store("started", 0), StoreUntil(0), StoreLast(0)>>
StartPlan(until) == <<StoreUntil(until), StoreLast(0), Store("started", 1)>>

Disable(a) ==
    /\ apply[a].at = "branch" /\ plan[a] = <<>>
    /\ ~apply[a].s.enabled
    /\ plan' = [plan EXCEPT ![a] = DisablePlan]
    /\ apply' = Settled(a)
    /\ revoked' = Judging /\ prev' = 0
    /\ UNCHANGED <<now, notified, s_state, updates, pc, now_us, cooldown, events,
                   window, muddled, fell>>

\* Re-arming starts a fresh warm-up window.
Start(a) ==
    /\ apply[a].at = "branch" /\ plan[a] = <<>>
    /\ apply[a].s.enabled /\ ~apply[a].was_started
    /\ LET until == now + s_state["warmup_ms"]
       IN  /\ window' = IF muddled THEN 0 ELSE until
           /\ plan' = [plan EXCEPT ![a] = StartPlan(until)]
    /\ apply' = Settled(a)
    /\ revoked' = Judging /\ prev' = 0
    /\ UNCHANGED <<now, notified, s_state, updates, pc, now_us, cooldown, events,
                   muddled, fell>>

\* Already running: only the timings change.
KeepRunning(a) ==
    /\ apply[a].at = "branch" /\ plan[a] = <<>>
    /\ apply[a].s.enabled /\ apply[a].was_started
    /\ apply' = Settled(a)
    /\ UNCHANGED <<now, notified, s_state, updates, plan, worker, events, window,
                   muddled, revoked>>

\* app_main applies once, the esp-mqtt task again and again.
Leave(a) ==
    /\ apply[a].at = "leave" /\ plan[a] = <<>>
    /\ apply' = [apply EXCEPT ![a] =
                    IF a = "main" THEN [Ready EXCEPT !.at = "done"] ELSE Ready]
    /\ UNCHANGED <<now, notified, s_state, updates, plan, worker, events, window,
                   muddled, revoked>>

Apply(a) == \/ \E s \in Settings : Enter(a, s)
            \/ Disable(a) \/ Start(a) \/ KeepRunning(a) \/ Leave(a)
-----------------------------------------------------------------------------
(***************************************************************************)
(* motion_detection_task                                                    *)
(***************************************************************************)
Goto(l) == pc' = l /\ UNCHANGED <<now, s_state, apply, updates, window, muddled>>

\* The trigger is judged.
Judged == cooldown' = 0 /\ fell' = "off" /\ revoked' = FALSE

\* The end of a round.
Again == Goto("take") /\ now_us' = 0 /\ Judged

\* ulTaskNotifyTake(pdTRUE): edges that came in the meantime count as one.
Take == /\ pc = "take" /\ notified
        /\ notified' = FALSE
        /\ Goto("started")
        /\ UNCHANGED <<plan, events, prev, locals>>

TestStarted ==
    /\ pc = "started"
    /\ IF s_state["started"] = 1
       THEN Goto("sample") /\ UNCHANGED locals
       ELSE Again
    /\ UNCHANGED <<notified, plan, events, prev>>

Sample ==
    /\ pc = "sample"
    /\ now_us' = now
    /\ fell' = IF s_state["started"] = 0 THEN "off"
               ELSE IF now < Until THEN "warming" ELSE "armed"
    /\ revoked' = \E a \in Appliers : apply[a].at = "leave" /\ plan[a] # <<>>
    /\ Goto("warmup")
    /\ UNCHANGED <<notified, plan, cooldown, events, prev>>

Warming == now_us < Until

TestWarmup ==
    /\ pc = "warmup"
    /\ IF Warming
       THEN Again
       ELSE Goto("cooldown") /\ UNCHANGED locals
    /\ UNCHANGED <<notified, plan, events, prev>>

ReadCooldown ==
    /\ pc = "cooldown"
    /\ cooldown' = s_state["cooldown_ms"]
    /\ Goto("last")
    /\ UNCHANGED <<notified, plan, now_us, events, fell, revoked, prev>>

\* last_trigger_us is read twice, for the test and for the difference.
Triggered == cooldown > 0 /\ Last > 0
Cooling == now_us - Last < cooldown

TestTriggered ==
    /\ pc = "last" /\ Triggered
    /\ Goto("since")
    /\ UNCHANGED <<notified, plan, events, prev, locals>>

Ignore ==
    /\ pc = "since" /\ Cooling
    /\ Again
    /\ UNCHANGED <<notified, plan, events, prev>>

Trigger == now_us

Accept ==
    /\ \/ pc = "last" /\ ~Triggered
       \/ pc = "since" /\ ~Cooling
    /\ plan' = [plan EXCEPT !["worker"] = <<StoreLast(Trigger)>>]
    /\ prev' = IF revoked THEN 0 ELSE now_us
    /\ Goto("post") /\ Judged
    /\ UNCHANGED <<notified, now_us, events>>

Room == events < EventQueue

Post ==
    /\ pc = "post" /\ plan["worker"] = <<>>
    /\ Room
    /\ events' = events + 1
    /\ Again
    /\ UNCHANGED <<notified, plan, prev>>

\* esp_event_post gives up after 100 ms; the cooldown has started all the same.
PostTimesOut ==
    /\ pc = "post" /\ plan["worker"] = <<>>
    /\ ~Room
    /\ Again
    /\ UNCHANGED <<notified, plan, events, prev>>

Worker == \/ Take \/ TestStarted \/ Sample \/ TestWarmup \/ ReadCooldown
          \/ TestTriggered \/ Ignore \/ Accept \/ Post \/ PostTimesOut \/ DoStore("worker")

\* The default event loop runs motion_detection_event_handler (main.c).
HandleEvent ==
    /\ events > 0
    /\ events' = events - 1
    /\ UNCHANGED <<now, notified, s_state, applying, plan, worker>>
-----------------------------------------------------------------------------
Next == \/ Tick \/ Edge \/ HandleEvent \/ Worker
        \/ \E a \in Appliers : Apply(a) \/ DoStore(a)

Spec == Init /\ [][Next]_vars

\* FreeRTOS schedules the worker; the other tasks owe it nothing.
FairSpec == Spec /\ WF_vars(Worker)
-----------------------------------------------------------------------------
TypeOK ==
    /\ now \in 1..MaxTime
    /\ notified \in BOOLEAN
    /\ s_state \in [Words -> Nat]
    /\ apply \in [Appliers -> [at: {"ready", "branch", "leave", "done"},
                               was_started: BOOLEAN, s: Settings]]
    /\ updates \in 0..MaxUpdates
    /\ plan \in [Appliers \cup {"worker"} ->
                    Seq(SUBSET [word: Words, value: Nat])]
    /\ pc \in {"take", "started", "sample", "warmup", "cooldown", "last", "since",
              "post"}
    /\ now_us \in 0..MaxTime
    /\ cooldown \in Nat
    /\ events \in 0..EventQueue
    /\ window \in Nat
    /\ muddled \in BOOLEAN
    /\ fell \in {"off", "warming", "armed"}
    /\ revoked \in BOOLEAN
    /\ prev \in 0..MaxTime

(***************************************************************************)
(* A detector that can be seen started has the warm-up window of its last   *)
(* start, whole: not an older one, and not half of the two words.  Only     *)
(* what a command and the end of the boot may do to it when they apply at   *)
(* the same time is excepted, and that lasts no longer than until a later   *)
(* application finds the detector off.                                      *)
(***************************************************************************)
StartedHasItsWindow == ~muddled /\ s_state["started"] = 1 => Until = window

(***************************************************************************)
(* A trigger that falls in the warm-up window is not accepted, unless an    *)
(* update disables or starts the detector before the trigger is judged.     *)
(***************************************************************************)
WarmupRespected == [][Accept => fell # "warming" \/ revoked]_vars

(***************************************************************************)
(* Two accepted triggers are the cooldown apart, the one in force when the  *)
(* second is judged, unless the detector was disabled or started between.   *)
(***************************************************************************)
CooldownRespected ==
    [][Accept /\ prev > 0 /\ ~revoked => now_us - prev >= cooldown]_vars

(***************************************************************************)
(* The cooldown is never measured from a moment still to come, which would  *)
(* make the detector deaf until then: not from a time whose words come from *)
(* a trigger and from the reset of an update that overlapped it.            *)
(***************************************************************************)
LastTriggerIsPast == pc \in {"last", "since"} => Last <= now_us

(***************************************************************************)
(* The worker gets back to waiting for edges whatever the event loop does.  *)
(***************************************************************************)
WorkerComesBack == pc # "take" ~> pc = "take"
=============================================================================
