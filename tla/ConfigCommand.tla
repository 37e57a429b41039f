---------------------------- MODULE ConfigCommand ----------------------------
(***************************************************************************)
(* One cmd/config update from its arrival to its reply, run by the esp-mqtt *)
(* task (handle_config_command in command_router.c), together with what can *)
(* run at the same time: the end of app_main, which still reads the runtime *)
(* configuration and starts services after MQTT is up; the PIR warm-up      *)
(* timer; the flash driver; and a restart at any step.                      *)
(***************************************************************************)
EXTENDS RuntimeConfig

CONSTANTS
    Requests,      \* the cmd/config payloads that may arrive
    InitialFlash,  \* what NVS may hold when the node is first powered
    WriteThrough,  \* may a set entry reach the flash before nvs_commit?
    GpioFaults,    \* may gpio_set_level fail?
    EraseAtBoot    \* may nvs_flash_init ask for an erase (main.c:61)?

IsStored(f) == DOMAIN f \subseteq Keys /\ f \in [DOMAIN f -> Nat]

ASSUME ConfigCommandAssumption ==
    /\ \A r \in Requests : IsRequest(r)
    /\ \A f \in InitialFlash : IsStored(f)
    /\ WriteThrough \in BOOLEAN
    /\ GpioFaults \in BOOLEAN
    /\ EraseAtBoot \in BOOLEAN

VARIABLES
    flash,     \* the entries of NVS namespace runtime_cfg that survive a restart
    pending,   \* entries set through the open handle and not yet in flash
    s_state,   \* runtime_config.c: the in-RAM source of truth
    live,      \* what the heartbeat task, PIR detector and illuminator run with
    boot,      \* where app_main is
    args,      \* values app_main has read with getters and not used yet
    was,       \* was_started of each caller inside the detector's apply function
    pc,        \* where handle_config_command is
    phase,     \* is it applying the new configuration or rolling back?
    patch,     \* its validated patch
    previous,  \* its snapshot of the settings before the update
    todo,      \* patch keys still to be written, or still to be mirrored
    err,       \* its esp_err_t
    reply,     \* the last reply it handed to the publish queue
    acked,     \* history: settings answered ok and not named by a later command
    before     \* history: live and app_main's position when the command arrived

nvs == <<flash, pending>>
main == <<boot, args>>
handler == <<pc, phase, patch, previous, todo, err, reply, acked, before>>
vars == <<flash, pending, s_state, live, boot, args, was,
          pc, phase, patch, previous, todo, err, reply, acked, before>>

Detector == {"off", "warming", "armed"}  \* started, and past warmup_until_us?
Live == [interval_s: Nat, detector: Detector,
         warmup_ms: Nat, cooldown_ms: Nat, output_on: BOOLEAN]

\* The services' static initial values.
ColdLive == [interval_s |-> Defaults[HB], detector |-> "off",
             warmup_ms |-> 0, cooldown_ms |-> 0, output_on |-> FALSE]

NoReply == [sent |-> FALSE, ok |-> FALSE, error |-> "none",
            updated |-> FALSE, config |-> Defaults]

\* Mutants of definitions below: what a plausible bug would make of them.
bug_EnterDetector(caller, c) ==
    IF HasMotion
    THEN /\ was' = [was EXCEPT ![caller] = live.detector # "off"]
         /\ live' = [live EXCEPT !.warmup_ms = c[WU]]
    ELSE UNCHANGED <<was, live>>
bug_Rearmed(started, c) ==
    IF c[EN] = 0 THEN "off"
    ELSE IF live.warmup_ms = 0 THEN "armed" ELSE "warming"
bug_Accepted(r) == r
bug_Target == Overlay(previous, patch)
bug_StepFails_result_overwritten ==
    /\ UNCHANGED err
    /\ phase' = "rollback"
    /\ pc' = IF phase = "apply" THEN "motion" ELSE "reply"
bug_StepFails_retried ==
    /\ err' = "FAIL"
    /\ phase' = "rollback"
    /\ pc' = "motion"
bug_Entry(k) == [j \in {IF k = WU THEN CD ELSE k} |-> patch[k]]
bug_heartbeat_task_accepts(v) == v # 0 /\ v < 3600
-----------------------------------------------------------------------------
Init ==
    /\ flash \in InitialFlash
    /\ pending = EmptyPatch
    /\ s_state = Defaults
    /\ live = ColdLive
    /\ boot = "nvs"
    /\ args = EmptyPatch
    /\ was = [c \in {"main", "mqtt"} |-> FALSE]
    /\ pc = "idle"
    /\ phase = "apply"
    /\ patch = EmptyPatch
    /\ previous = Defaults
    /\ todo = {}
    /\ err = "OK"
    /\ reply = NoReply
    /\ acked = EmptyPatch
    /\ before = [live |-> ColdLive, boot |-> "nvs"]
-----------------------------------------------------------------------------
(***************************************************************************)
(* What the services do with the settings handed to them.                   *)
(***************************************************************************)

\* The range check of heartbeat_task_set_interval_s, with literals of its own.
heartbeat_task_accepts(v) == v # 0 /\ v <= 3600

\* ir_illuminator_should_be_on_for_mode; nothing ever sets capture_active.
ShouldBeOn(mode) == mode = MODE_ON

\* motion_detection_apply_settings_internal up to its first branch: it
\* remembers was_started and stores the timings.
EnterDetector(caller, c) ==
    IF HasMotion
    THEN /\ was' = [was EXCEPT ![caller] = live.detector # "off"]
         /\ live' = [live EXCEPT !.warmup_ms = c[WU], !.cooldown_ms = c[CD]]
    ELSE UNCHANGED <<was, live>>

\* Its branches: disable, arm with a fresh warm-up window, or leave running.
Rearmed(started, c) ==
    IF c[EN] = 0 THEN "off"
    ELSE IF started THEN live.detector
    ELSE IF live.warmup_ms = 0 THEN "armed" ELSE "warming"

LeaveDetector(caller, c) ==
    IF HasMotion
    THEN live' = [live EXCEPT !.detector = Rearmed(was[caller], c)]
    ELSE UNCHANGED live

\* The warm-up window ends: esp_timer_get_time() reaches warmup_until_us.
WarmupElapses ==
    /\ live.detector = "warming"
    /\ live' = [live EXCEPT !.detector = "armed"]
    /\ UNCHANGED <<nvs, s_state, main, was, handler>>
-----------------------------------------------------------------------------
(***************************************************************************)
(* app_main.  Every call is under ESP_ERROR_CHECK: a failure aborts, which  *)
(* is the Restart action below.                                             *)
(***************************************************************************)

\* The NVS partition is full or of another version: it is erased.
NvsErase ==
    /\ boot = "nvs"
    /\ EraseAtBoot
    /\ flash' = EmptyPatch
    /\ UNCHANGED <<pending, s_state, live, main, was, handler>>

RuntimeConfigInit ==
    /\ boot = "nvs"
    /\ s_state' = Restore(flash)
    /\ boot' = "ir"
    /\ UNCHANGED <<nvs, live, args, was, handler>>

IrBoot ==
    /\ boot = "ir"
    /\ live' = [live EXCEPT !.output_on =
                    HasIr /\ ShouldBeOn(Getters(s_state)[IR])]
    /\ boot' = "network"
    /\ UNCHANGED <<nvs, s_state, args, was, handler>>

\* motion_detection_init, then Ethernet and MQTT: from here on commands come in.
Connect ==
    /\ boot = "network"
    /\ live' = IF HasMotion
               THEN [live EXCEPT !.warmup_ms = Defaults[WU],
                                 !.cooldown_ms = Defaults[CD]]
               ELSE live
    /\ boot' = "read_interval"
    /\ UNCHANGED <<nvs, s_state, args, was, handler>>

ReadHeartbeat ==
    /\ boot = "read_interval"
    /\ args' = [k \in {HB} |-> Getters(s_state)[HB]]
    /\ boot' = "set_interval"
    /\ UNCHANGED <<nvs, s_state, live, was, handler>>

SetHeartbeat ==
    /\ boot = "set_interval"
    /\ heartbeat_task_accepts(args[HB])
    /\ live' = [live EXCEPT !.interval_s = args[HB]]
    /\ args' = EmptyPatch
    /\ boot' = "read_motion"
    /\ UNCHANGED <<nvs, s_state, was, handler>>

\* The three getter calls of motion_detection_start, in any order: C leaves
\* the evaluation order of arguments unspecified.
ReadMotion(k) ==
    /\ boot = "read_motion"
    /\ k \in MotionKeys \ DOMAIN args
    /\ args' = WriteEntries(args, [j \in {k} |-> Getters(s_state)[k]])
    /\ UNCHANGED <<nvs, s_state, live, boot, was, handler>>

EnterStart ==
    /\ boot = "read_motion"
    /\ DOMAIN args = MotionKeys
    /\ EnterDetector("main", args)
    /\ boot' = "start_motion"
    /\ UNCHANGED <<nvs, s_state, args, handler>>

FinishStart ==
    /\ boot = "start_motion"
    /\ LeaveDetector("main", args)
    /\ args' = EmptyPatch
    /\ boot' = "running"
    /\ UNCHANGED <<nvs, s_state, was, handler>>

Main == \/ NvsErase \/ RuntimeConfigInit \/ IrBoot \/ Connect
        \/ ReadHeartbeat \/ SetHeartbeat
        \/ \E k \in MotionKeys : ReadMotion(k)
        \/ EnterStart \/ FinishStart

MqttUp == boot \notin {"nvs", "ir", "network"}
-----------------------------------------------------------------------------
(***************************************************************************)
(* handle_config_command, as the esp-mqtt task runs it.                     *)
(***************************************************************************)

\* After an error the patch is never looked at again.
Accepted(r) == IF ParseAndValidate(r) = "OK" THEN r ELSE EmptyPatch

\* The snapshot, the parsing and the validation; no other state is touched.
Receive(r) ==
    /\ MqttUp
    /\ pc = "idle"
    /\ previous' = Getters(s_state)
    /\ err' = ParseAndValidate(r)
    /\ patch' = Accepted(r)
    /\ pc' = IF ParseAndValidate(r) = "OK" /\ DOMAIN r # {}
             THEN "motion" ELSE "reply"
    /\ reply' = NoReply
    /\ acked' = [k \in DOMAIN acked \ DOMAIN Accepted(r) |-> acked[k]]
    /\ before' = [live |-> live, boot |-> boot]
    /\ UNCHANGED <<nvs, s_state, live, main, was, phase, todo>>

\* next_config or previous_config, whichever is being applied.
Target == IF phase = "apply" THEN Overlay(previous, patch) ELSE previous

\* A failed step of the update starts the rollback; a failed step of the
\* rollback abandons it.
StepFails ==
    /\ err' = "FAIL"
    /\ phase' = "rollback"
    /\ pc' = IF phase = "apply" THEN "motion" ELSE "reply"

EnterMotion ==
    /\ pc = "motion"
    /\ EnterDetector("mqtt", Target)
    /\ pc' = "detector"
    /\ UNCHANGED <<nvs, s_state, main, phase, patch, previous, todo, err,
                   reply, acked, before>>

FinishMotion ==
    /\ pc = "detector"
    /\ LeaveDetector("mqtt", Target)
    /\ pc' = "ir"
    /\ UNCHANGED <<nvs, s_state, main, was, phase, patch, previous, todo, err,
                   reply, acked, before>>

ApplyIr ==
    /\ pc = "ir"
    /\ live' = [live EXCEPT !.output_on = HasIr /\ ShouldBeOn(Target[IR])]
    /\ pc' = "heartbeat"
    /\ UNCHANGED <<nvs, s_state, main, was, phase, patch, previous, todo, err,
                   reply, acked, before>>

IrFails ==
    /\ pc = "ir"
    /\ HasIr /\ GpioFaults
    /\ StepFails
    /\ UNCHANGED <<nvs, s_state, live, main, was, patch, previous, todo,
                   reply, acked, before>>

ApplyHeartbeat ==
    /\ pc = "heartbeat"
    /\ IF heartbeat_task_accepts(Target[HB])
       THEN /\ live' = [live EXCEPT !.interval_s = Target[HB]]
            /\ pc' = IF phase = "apply" THEN "open" ELSE "reply"
            /\ UNCHANGED <<err, phase>>
       ELSE StepFails /\ UNCHANGED live
    /\ UNCHANGED <<nvs, s_state, main, was, patch, previous, todo,
                   reply, acked, before>>

NvsOpen ==
    /\ pc = "open"
    /\ todo' = DOMAIN patch
    /\ pc' = "set"
    /\ UNCHANGED <<nvs, s_state, live, main, was, phase, patch, previous, err,
                   reply, acked, before>>

\* The keys of a patch are walked in the order of the code.
IsNext(k) == k \in todo /\ \A j \in todo : Rank[k] <= Rank[j]
Entry(k) == [j \in {k} |-> patch[k]]

NvsSet(k) ==
    /\ pc = "set"
    /\ IsNext(k)
    /\ pending' = WriteEntries(pending, Entry(k))
    /\ todo' = todo \ {k}
    /\ UNCHANGED <<flash, s_state, live, main, was, pc, phase, patch, previous,
                   err, reply, acked, before>>

NvsCommit ==
    /\ pc = "set"
    /\ todo = {}
    /\ flash' = WriteEntries(flash, pending)
    /\ pending' = EmptyPatch
    /\ todo' = DOMAIN patch
    /\ pc' = "mirror"
    /\ UNCHANGED <<s_state, live, main, was, phase, patch, previous, err,
                   reply, acked, before>>

\* nvs_open, an nvs_set_* or nvs_commit fails; the handle is closed.
NvsFails ==
    /\ pc \in {"open", "set"}
    /\ StepFails
    /\ pending' = EmptyPatch
    /\ todo' = {}
    /\ UNCHANGED <<flash, s_state, live, main, was, patch, previous,
                   reply, acked, before>>

\* The flash driver writes a set entry before the commit.
NvsFlush(k) ==
    /\ WriteThrough
    /\ k \in DOMAIN pending
    /\ flash' = WriteEntries(flash, [j \in {k} |-> pending[k]])
    /\ pending' = [j \in DOMAIN pending \ {k} |-> pending[j]]
    /\ UNCHANGED <<s_state, live, main, was, handler>>

\* runtime_config_apply_patch_to_state, one field at a time.
Mirror(k) ==
    /\ pc = "mirror"
    /\ IsNext(k)
    /\ s_state' = [s_state EXCEPT ![k] = patch[k]]
    /\ todo' = todo \ {k}
    /\ pc' = IF todo = {k} THEN "reply" ELSE "mirror"
    /\ UNCHANGED <<nvs, live, main, was, phase, patch, previous, err,
                   reply, acked, before>>

ErrorCode == CASE err = "OK" -> "none"
               [] err = "INVALID_ARG" -> "invalid_config"
               [] err = "NOT_SUPPORTED" -> "unsupported_feature"
               [] err = "FAIL" -> "apply_failed"

\* The return from the handler: its locals are gone.
Returned ==
    /\ pc' = "idle"
    /\ phase' = "apply"
    /\ patch' = EmptyPatch
    /\ previous' = Defaults
    /\ err' = "OK"
    /\ UNCHANGED <<nvs, s_state, live, main, was, todo, before>>

Reply ==
    /\ pc = "reply"
    /\ reply' = [sent |-> TRUE, ok |-> err = "OK", error |-> ErrorCode,
                 updated |-> err = "OK" /\ DOMAIN patch # {},
                 config |-> Getters(s_state)]
    /\ acked' = IF err = "OK" THEN WriteEntries(acked, patch) ELSE acked
    /\ Returned

\* No heap for the reply object, no request_id to make its topic from, or no
\* room in the publish queue: the client is not told what became of its command.
Unanswered ==
    /\ pc = "reply"
    /\ Returned
    /\ UNCHANGED <<reply, acked>>

Handler == \/ EnterMotion \/ FinishMotion \/ ApplyIr \/ IrFails \/ ApplyHeartbeat
           \/ NvsOpen \/ NvsCommit \/ NvsFails
           \/ Reply \/ Unanswered
           \/ \E k \in Keys : NvsSet(k) \/ Mirror(k)
-----------------------------------------------------------------------------
\* A power cut, an abort or esp_restart: only the flash survives, and what
\* the client was told.
Restart ==
    /\ UNCHANGED <<flash, reply, acked>>
    /\ pending' = EmptyPatch
    /\ s_state' = Defaults
    /\ live' = ColdLive
    /\ boot' = "nvs"
    /\ args' = EmptyPatch
    /\ was' = [c \in {"main", "mqtt"} |-> FALSE]
    /\ pc' = "idle"
    /\ phase' = "apply"
    /\ patch' = EmptyPatch
    /\ previous' = Defaults
    /\ todo' = {}
    /\ err' = "OK"
    /\ before' = [live |-> ColdLive, boot |-> "nvs"]

Next == \/ Main \/ Handler \/ WarmupElapses \/ Restart
        \/ \E r \in Requests : Receive(r)
        \/ \E k \in Keys : NvsFlush(k)

Spec == Init /\ [][Next]_vars

\* FreeRTOS keeps scheduling the esp-mqtt task and every call of the handler
\* returns; nothing obliges a client to send, the network to come up, a flash
\* driver to write early, a GPIO to fail or the power to be cut.
FairSpec == Spec /\ WF_vars(Handler)
-----------------------------------------------------------------------------
Stored == Restore(flash)  \* what the next boot would run with

TypeOK ==
    /\ IsStored(flash)
    /\ IsStored(pending)
    /\ s_state \in [Keys -> Nat]
    /\ live \in Live
    /\ boot \in {"nvs", "ir", "network", "read_interval", "set_interval",
                 "read_motion", "start_motion", "running"}
    /\ IsStored(args)
    /\ was \in [{"main", "mqtt"} -> BOOLEAN]
    /\ pc \in {"idle", "motion", "detector", "ir", "heartbeat", "open", "set",
               "mirror", "reply"}
    /\ phase \in {"apply", "rollback"}
    /\ IsStored(patch)
    /\ previous \in [Keys -> Nat]
    /\ todo \subseteq Keys
    /\ err \in {"OK", "INVALID_ARG", "NOT_SUPPORTED", "FAIL"}
    /\ reply.sent \in BOOLEAN /\ reply.ok \in BOOLEAN
    /\ reply.error \in {"none", "invalid_config", "unsupported_feature",
                        "apply_failed"}
    /\ reply.updated \in BOOLEAN /\ reply.config \in [Keys -> Nat]
    /\ IsStored(acked)
    /\ before.live \in Live

(***************************************************************************)
(* At every moment after the boot read, a restart would bring back exactly  *)
(* the settings the firmware reports; in the middle of mirroring a patch,   *)
(* the settings it is about to report.  This is what "all-or-nothing"       *)
(* (runtime_config.c:137) asks of persist_patch and apply_patch_to_state.   *)
(***************************************************************************)
DurableMatchesRam ==
    boot # "nvs" =>
        IF pc = "mirror" THEN Stored = Overlay(s_state, patch)
                         ELSE Stored = s_state

(***************************************************************************)
(* The heartbeat setter has a range check of its own, with its own literals *)
(* (heartbeat_task.c:73); what runtime_config validates and restores keeps  *)
(* it from ever refusing, neither app_main (where a refusal would abort the *)
(* boot), nor the update, nor its rollback.                                 *)
(***************************************************************************)
HeartbeatSetterNeverRefuses ==
    /\ boot = "set_interval" => heartbeat_task_accepts(args[HB])
    /\ pc = "heartbeat" => heartbeat_task_accepts(Target[HB])

(***************************************************************************)
(* Once a command that arrived after app_main had finished is answered ok,  *)
(* the heartbeat task, the detector and the illuminator run with exactly    *)
(* the settings the reply reports.                                          *)
(***************************************************************************)
LiveMatches(l, c) ==
    /\ l.interval_s = c[HB]
    /\ HasMotion => /\ (l.detector # "off") = (c[EN] = 1)
                    /\ l.warmup_ms = c[WU]
                    /\ l.cooldown_ms = c[CD]
    /\ HasIr => l.output_on = ShouldBeOn(c[IR])

Calm == before.boot = "running"
Answered == pc = "idle" /\ reply.sent

AcceptedUpdateIsLive ==
    Answered /\ Calm /\ reply.updated => LiveMatches(live, reply.config)

(***************************************************************************)
(* A rollback that goes through to its last service has put the settings of *)
(* before the command back into all three, whichever step of the update had *)
(* failed; and a detector that was armed is armed after it, with no fresh   *)
(* warm-up, unless the update had switched it off (RollbackKeepsArmed).     *)
(***************************************************************************)
RollbackDone == ApplyHeartbeat /\ phase = "rollback" /\ Calm
SwitchedOff == EN \in DOMAIN patch /\ patch[EN] = 0
WasArmed == before.live.detector = "armed" /\ LiveMatches(before.live, previous)

FailedUpdateRestoresLive ==
    [][RollbackDone =>
        /\ LiveMatches(live', previous)
        /\ WasArmed /\ ~SwitchedOff => live'.detector = "armed"]_vars

(***************************************************************************)
(* The whole snapshot is applied again for every update, yet a service the  *)
(* patch does not mention is not disturbed, not even in passing: no fresh   *)
(* warm-up window (motion_detection.c:99-102), no flash of the illuminator. *)
(***************************************************************************)
UnmentionedServicesAreUndisturbed ==
    [][(Handler /\ Calm /\ LiveMatches(before.live, previous)) =>
        /\ EN \notin DOMAIN patch => live'.detector = live.detector
        /\ IR \notin DOMAIN patch => live'.output_on = live.output_on
        /\ HB \notin DOMAIN patch => live'.interval_s = live.interval_s]_vars

(***************************************************************************)
(* A setting that an update answered ok has set survives every restart that *)
(* does not erase NVS and every later command that does not name it, however *)
(* that command fails, rolls back or leaks; each boot brings it back to RAM. *)
(***************************************************************************)
AckedSettingsSurvive ==
    \A k \in DOMAIN acked :
        /\ Stored[k] = acked[k]
        /\ boot # "nvs" => s_state[k] = acked[k]

(***************************************************************************)
(* Whatever reaches the flash is an entry of the update in progress, in the *)
(* documented range and of a feature of this build, even when a failing     *)
(* update leaks or an earlier one left its handle half written; and nothing *)
(* leaves the flash but by the erase of a boot.                             *)
(***************************************************************************)
Supported == Keys \ ((IF HasMotion THEN {} ELSE MotionKeys)
                     \cup (IF HasIr THEN {} ELSE {IR}))

ValidWrite ==
    \/ boot = "nvs" /\ flash' = EmptyPatch
    \/ /\ DOMAIN flash \subseteq DOMAIN flash'
       /\ \A k \in DOMAIN flash' :
             \/ k \in DOMAIN flash /\ flash'[k] = flash[k]
             \/ /\ k \in DOMAIN patch /\ flash'[k] = patch[k]
                /\ k \in Supported /\ flash'[k] \in DocumentedRange[k]

WritesAreValid == [][ValidWrite]_flash

(***************************************************************************)
(* The handler returns, with a reply or without one, or the node restarts:  *)
(* no failure, in the update or in its rollback, keeps the esp-mqtt task in *)
(* it; and a command of which anything failed ends without an ok.           *)
(***************************************************************************)
CommandEnds ==
    /\ pc # "idle" ~> pc = "idle"
    /\ err # "OK" ~> (pc = "idle" /\ ~reply.ok)
-----------------------------------------------------------------------------
(***************************************************************************)
(* Statements of the documentation and comments that the code does not      *)
(* keep; each is the property of a run that TLC must find violated.         *)
(***************************************************************************)

\* docs/runtime-config.md:98 and runtime_config.c:137: an update answered
\* apply_failed leaves nothing persisted: a restart would bring back the
\* settings the firmware goes on with.
FailedUpdateLeavesNoPersistedState ==
    Answered /\ boot # "nvs" /\ reply.error = "apply_failed" => Stored = s_state

\* docs/runtime-config.md:95: the values of an update answered ok become both
\* the live and the persisted state.
OkUpdateBecomesLive ==
    Answered /\ boot = "running" /\ reply.updated =>
        LiveMatches(live, reply.config)

\* docs/runtime-config.md:98 and :67: when the update cannot be persisted, the
\* previous live state is restored; an armed detector is armed again.
RollbackKeepsArmed ==
    [][RollbackDone /\ before.live.detector = "armed" =>
        live'.detector = "armed"]_vars
-----------------------------------------------------------------------------
(***************************************************************************)
(* The abstract store this protocol implements: a leaky one when the flash  *)
(* driver may be early, an erasable one when a boot may erase NVS.          *)
(***************************************************************************)
Client == IF pc = "idle" THEN "idle"
          ELSE IF pc = "mirror" \/ (pc = "reply" /\ err = "OK" /\ DOMAIN patch # {})
          THEN "applied" ELSE "pending"

Store == INSTANCE ConfigStore
             WITH durable <- Stored, client <- Client, request <- patch,
                  answer <- IF ~reply.sent THEN "none"
                            ELSE IF reply.ok THEN "ok" ELSE "failed",
                  Durables <- {Restore(f) : f \in InitialFlash},
                  Erasable <- EraseAtBoot, Leaky <- WriteThrough

StoreSpec == Store!Spec
=============================================================================
