---------------------------- MODULE RuntimeConfig ----------------------------
(***************************************************************************)
(* The pure part of components/runtime_config/runtime_config.c: the five    *)
(* persisted settings, their validation, the overlay of a patch and the     *)
(* restore of a configuration from what NVS holds.                          *)
(*                                                                          *)
(* A configuration is a function from keys to numbers.  A C bool is 0 or 1  *)
(* (which is also what nvs_write_bool_value stores) and the illuminator     *)
(* mode is its enum value.  A patch is a function whose DOMAIN is the set   *)
(* of keys whose has_* flag is set; the contents of the NVS namespace is a  *)
(* function whose DOMAIN is the set of keys present.                        *)
(***************************************************************************)
EXTENDS Naturals

CONSTANTS
    HasMotion,   \* APP_HAS_MOTION_DETECTION
    HasIr,       \* APP_HAS_IR_ILLUMINATOR
    Defaults,    \* the APP_* defaults compiled into this build
    Malformed    \* a JSON field that is present but fails its extract_json_*

HB == "heartbeat_interval_s"
EN == "motion_detection_enabled"
WU == "motion_warmup_ms"
CD == "motion_cooldown_ms"
IR == "ir_illuminator_mode"

MotionKeys == {EN, WU, CD}
Keys == {HB, EN, WU, CD, IR}

\* The order in which runtime_config.c walks the has_* flags of a patch.
Rank == [k \in Keys |-> CASE k = HB -> 1 [] k = EN -> 2 [] k = WU -> 3
                          [] k = CD -> 4 [] k = IR -> 5]

MODE_OFF == 0
MODE_ON == 1
MODE_CAPTURE == 2

EmptyPatch == [k \in {} |-> 0]

(***************************************************************************)
(* The documented range of each setting (docs/runtime-config.md, table      *)
(* "Validation Rules"); it is what the code is checked against, and is not  *)
(* used by the definitions that model the code.                             *)
(***************************************************************************)
WarmupMax == 120000
CooldownMax == 60000

DocumentedRange ==
    [k \in Keys |-> CASE k = HB -> 1..3600       [] k = EN -> 0..1
                      [] k = WU -> 0..WarmupMax [] k = CD -> 0..CooldownMax
                      [] k = IR -> 0..2]

Config == {c \in [Keys -> Nat] : \A k \in Keys : c[k] \in DocumentedRange[k]}

\* Kconfig bounds every default; without a feature its defaults are 0 / off.
ASSUME RuntimeConfigAssumption ==
    /\ HasMotion \in BOOLEAN
    /\ HasIr \in BOOLEAN
    /\ Defaults \in Config
    /\ ~HasMotion => \A k \in MotionKeys : Defaults[k] = 0
    /\ ~HasIr => Defaults[IR] = MODE_OFF
    /\ Malformed \notin Nat
-----------------------------------------------------------------------------
\* Mutants of the definitions below.
bug_ValidatePatch(p) ==
    IF \E k \in DOMAIN p \cap {HB, WU, CD} :
           p[k] > (CASE k = HB -> 3600 [] k = WU -> 120000 [] k = CD -> 60000)
    THEN "INVALID_ARG" ELSE "OK"
bug_RestoreKey(stored, k) ==
    IF k \notin DOMAIN stored THEN Defaults[k]
    ELSE IF k = EN \/ k = IR THEN 0 ELSE stored[k]

heartbeat_interval_is_valid(v) == v >= 1 /\ v <= 3600
motion_warmup_is_valid(v) == v <= 120000
motion_cooldown_is_valid(v) == v <= 60000
ir_illuminator_mode_is_valid(v) == v \in {MODE_OFF, MODE_ON, MODE_CAPTURE}

IsValid(k, v) ==
    CASE k = HB -> heartbeat_interval_is_valid(v)
      [] k = EN -> v <= 1
      [] k = WU -> motion_warmup_is_valid(v)
      [] k = CD -> motion_cooldown_is_valid(v)
      [] k = IR -> ir_illuminator_mode_is_valid(v)

(***************************************************************************)
(* runtime_config_validate_patch_internal, in the order of its checks.      *)
(***************************************************************************)
ValidatePatch(p) ==
    LET Bad(S) == \E k \in S \cap DOMAIN p : ~IsValid(k, p[k])
        Touches(S) == S \cap DOMAIN p # {}
    IN  IF Bad({HB})                                 THEN "INVALID_ARG"
        ELSE IF ~HasMotion /\ Touches(MotionKeys)    THEN "NOT_SUPPORTED"
        ELSE IF Bad({WU, CD})                        THEN "INVALID_ARG"
        ELSE IF ~HasIr /\ Touches({IR})              THEN "NOT_SUPPORTED"
        ELSE IF Bad({IR})                            THEN "INVALID_ARG"
        ELSE "OK"

(***************************************************************************)
(* A cmd/config payload, reduced to its supported keys: each is absent,     *)
(* Malformed (wrong JSON type, not integral, outside uint32, unknown mode   *)
(* name) or a number.  Booleans and mode names parse to valid values only.  *)
(***************************************************************************)
IsRequest(r) ==
    /\ DOMAIN r \subseteq Keys
    /\ r \in [DOMAIN r -> Nat \cup {Malformed}]
    /\ \A k \in {EN, IR} \cap DOMAIN r :
          r[k] # Malformed => r[k] \in DocumentedRange[k]

\* The parsing half of handle_config_command followed by validation.
ParseAndValidate(r) ==
    IF \E k \in DOMAIN r : r[k] = Malformed THEN "INVALID_ARG"
                                            ELSE ValidatePatch(r)

\* runtime_config_apply_patch_to_state; also apply_patch_to_live_runtime_config.
Overlay(c, p) == [k \in Keys |-> IF k \in DOMAIN p THEN p[k] ELSE c[k]]

\* One setting as runtime_config_init leaves it, given the NVS contents.
RestoreKey(stored, k) ==
    IF k \notin DOMAIN stored \/ ~IsValid(k, stored[k]) THEN Defaults[k]
    ELSE IF (k = EN /\ ~HasMotion) \/ (k = IR /\ ~HasIr) THEN 0
    ELSE stored[k]

Restore(stored) == [k \in Keys |-> RestoreKey(stored, k)]

\* What the runtime_config_get_* getters return for the in-RAM settings c.
Getters(c) == [k \in Keys |-> IF (k = EN /\ ~HasMotion) \/ (k = IR /\ ~HasIr)
                              THEN 0 ELSE c[k]]

\* NVS contents after the entries of p have been written over stored.
WriteEntries(stored, p) ==
    [k \in DOMAIN stored \cup DOMAIN p |->
        IF k \in DOMAIN p THEN p[k] ELSE stored[k]]
=============================================================================
