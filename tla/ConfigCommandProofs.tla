------------------------- MODULE ConfigCommandProofs -------------------------
(***************************************************************************)
(* What cmd/config guarantees: types, the settings a restart brings back,   *)
(* the services an update changes, and that its handler comes to an end;    *)
(* for every build (features and defaults), every set of payloads, every    *)
(* initial content of the flash, every fault and every restart.             *)
(***************************************************************************)
EXTENDS ConfigCommand, FiniteSetTheorems, TLAPS

-----------------------------------------------------------------------------
(***************************************************************************)
(* The operators of RuntimeConfig: what they return.                        *)
(***************************************************************************)

\* The compiled-in defaults are a configuration.
LEMMA DefaultsType == Defaults \in [Keys -> Nat]
BY RuntimeConfigAssumption DEF Config

\* Writing entries over NVS contents gives NVS contents.
LEMMA WriteEntriesType ==
    ASSUME NEW f, NEW g, IsStored(f), IsStored(g)
    PROVE  /\ IsStored(WriteEntries(f, g))
           /\ DOMAIN WriteEntries(f, g) = DOMAIN f \cup DOMAIN g
BY DEF IsStored, WriteEntries

\* Entries taken away from NVS contents leave NVS contents.
LEMMA WithoutType ==
    ASSUME NEW f, IsStored(f), NEW S
    PROVE  /\ IsStored([k \in DOMAIN f \ S |-> f[k]])
           /\ DOMAIN [k \in DOMAIN f \ S |-> f[k]] = DOMAIN f \ S
BY DEF IsStored

\* The empty patch and a single entry are NVS contents.
LEMMA SmallStored ==
    /\ IsStored(EmptyPatch)
    /\ DOMAIN EmptyPatch = {}
    /\ \A k \in Keys, v \in Nat : IsStored([j \in {k} |-> v])
BY DEF IsStored, EmptyPatch

\* runtime_config_init leaves a number in every setting.
LEMMA RestoreType ==
    ASSUME NEW f, IsStored(f)
    PROVE  Restore(f) \in [Keys -> Nat]
BY DefaultsType DEF IsStored, Restore, RestoreKey

\* So do the getters and the overlay of a patch.
LEMMA GettersType ==
    ASSUME NEW c \in [Keys -> Nat]
    PROVE  Getters(c) \in [Keys -> Nat]
BY DEF Getters

LEMMA OverlayType ==
    ASSUME NEW c \in [Keys -> Nat], NEW p, IsStored(p)
    PROVE  Overlay(c, p) \in [Keys -> Nat]
BY DEF IsStored, Overlay

\* A payload that passes parsing holds numbers only.
LEMMA AcceptedType ==
    ASSUME NEW r \in Requests
    PROVE  /\ IsStored(Accepted(r))
           /\ ParseAndValidate(r) \in {"OK", "INVALID_ARG", "NOT_SUPPORTED"}
<1>1. IsRequest(r)
  BY ConfigCommandAssumption
<1>2. ParseAndValidate(r) \in {"OK", "INVALID_ARG", "NOT_SUPPORTED"}
  BY DEF ParseAndValidate, ValidatePatch
<1>3. CASE ParseAndValidate(r) = "OK"
  <2>1. \A k \in DOMAIN r : r[k] # Malformed
    BY <1>3 DEF ParseAndValidate
  <2> QED
    BY <1>1, <1>2, <1>3, <2>1 DEF IsRequest, IsStored, Accepted
<1>4. CASE ParseAndValidate(r) # "OK"
  BY <1>2, <1>4, SmallStored DEF Accepted
<1> QED
  BY <1>3, <1>4
-----------------------------------------------------------------------------
(***************************************************************************)
(* Type correctness.  TypeOK is not inductive by itself: the values that    *)
(* app_main carries and the keys the handler walks must be there when they  *)
(* are used.                                                                *)
(***************************************************************************)
Shape ==
    /\ boot = "set_interval" => DOMAIN args = {HB}
    /\ boot = "read_motion" => DOMAIN args \subseteq MotionKeys
    /\ boot = "start_motion" => DOMAIN args = MotionKeys
    /\ todo \subseteq DOMAIN patch
    /\ pc \notin {"set", "mirror"} => todo = {}

TypeInv == TypeOK /\ Shape

\* The configuration being applied is a total configuration.
LEMMA TargetType ==
    ASSUME TypeOK
    PROVE  Target \in [Keys -> Nat]
BY OverlayType DEF TypeOK, Target

\* Updating one service leaves a well-typed live state.
LEMMA LiveUpdate ==
    ASSUME NEW l \in Live
    PROVE  /\ \A v \in Nat : [l EXCEPT !.interval_s = v] \in Live
           /\ \A v \in Detector : [l EXCEPT !.detector = v] \in Live
           /\ \A v, w \in Nat :
                 [l EXCEPT !.warmup_ms = v, !.cooldown_ms = w] \in Live
           /\ \A v \in BOOLEAN : [l EXCEPT !.output_on = v] \in Live
BY DEF Live

\* What the detector is left with is well typed, whatever it was called with.
LEMMA DetectorType ==
    ASSUME NEW caller \in {"main", "mqtt"}, NEW c, TypeOK
    PROVE  /\ (EnterDetector(caller, c) /\ c[WU] \in Nat /\ c[CD] \in Nat) =>
                 live' \in Live /\ was' \in [{"main", "mqtt"} -> BOOLEAN]
           /\ LeaveDetector(caller, c) => live' \in Live
<1>1. Rearmed(was[caller], c) \in Detector
  BY DEF TypeOK, Live, Rearmed, Detector
<1>2. LeaveDetector(caller, c) => live' \in Live
  BY <1>1, LiveUpdate DEF TypeOK, LeaveDetector
<1>3. ASSUME EnterDetector(caller, c), c[WU] \in Nat, c[CD] \in Nat
      PROVE  live' \in Live
  <2>1. live \in Live
    BY DEF TypeOK
  <2>2. [live EXCEPT !.warmup_ms = c[WU], !.cooldown_ms = c[CD]] \in Live
    BY <1>3, <2>1, LiveUpdate, Zenon
  <2> QED
    BY <1>3, <2>1, <2>2, Zenon DEF EnterDetector
<1>4. (live.detector # "off") \in BOOLEAN
  OBVIOUS
<1>5. ASSUME EnterDetector(caller, c)
      PROVE  was' \in [{"main", "mqtt"} -> BOOLEAN]
  BY <1>4, <1>5, Zenon DEF TypeOK, EnterDetector
<1> QED
  BY <1>2, <1>3, <1>5

\* app_main keeps the types.
LEMMA MainTypeInv == TypeInv /\ Main => TypeInv'
<1> SUFFICES ASSUME TypeInv, Main PROVE TypeInv'
  OBVIOUS
<1> USE DEF TypeInv, Shape, nvs, handler, main
<1>0. CASE NvsErase
  BY <1>0, SmallStored DEF NvsErase, TypeOK
<1>1. CASE RuntimeConfigInit
  BY <1>1, RestoreType DEF RuntimeConfigInit, TypeOK
<1>2. CASE IrBoot
  <2>1. (HasIr /\ ShouldBeOn(Getters(s_state)[IR])) \in BOOLEAN
    BY DEF ShouldBeOn
  <2>2. live' \in Live
    BY <1>2, <2>1, LiveUpdate, Zenon DEF IrBoot, TypeOK
  <2> QED
    BY <1>2, <2>2 DEF IrBoot, TypeOK
<1>3. CASE Connect
  <2>1. Defaults[WU] \in Nat /\ Defaults[CD] \in Nat
    BY DefaultsType DEF Keys
  <2>2. live' \in Live
    BY <1>3, <2>1, LiveUpdate DEF Connect, TypeOK
  <2> QED
    BY <1>3, <2>2 DEF Connect, TypeOK
<1>4. CASE ReadHeartbeat
  <2>1. HB \in Keys /\ Getters(s_state)[HB] \in Nat
    BY GettersType DEF TypeOK, Keys
  <2>2. IsStored(args') /\ DOMAIN args' = {HB}
    BY <1>4, <2>1, SmallStored DEF ReadHeartbeat
  <2> QED
    BY <1>4, <2>2 DEF ReadHeartbeat, TypeOK
<1>5. CASE SetHeartbeat
  <2>1. args[HB] \in Nat
    BY <1>5 DEF SetHeartbeat, TypeOK, IsStored
  <2>2. live' \in Live
    BY <1>5, <2>1, LiveUpdate DEF SetHeartbeat, TypeOK
  <2> QED
    BY <1>5, <2>2, SmallStored DEF SetHeartbeat, TypeOK
<1>6. ASSUME NEW k \in MotionKeys, ReadMotion(k) PROVE TypeInv'
  <2>1. k \in Keys /\ Getters(s_state)[k] \in Nat
    BY GettersType DEF TypeOK, Keys, MotionKeys
  <2> DEFINE read == [j \in {k} |-> Getters(s_state)[k]]
  <2>2. IsStored(read) /\ DOMAIN read = {k}
    BY <2>1, SmallStored
  <2>3. args' = WriteEntries(args, read) /\ IsStored(args)
    BY <1>6 DEF ReadMotion, TypeOK
  <2> HIDE DEF read
  <2>4. IsStored(args') /\ DOMAIN args' = DOMAIN args \cup {k}
    BY <2>2, <2>3, WriteEntriesType
  <2> QED
    BY <1>6, <2>4 DEF ReadMotion, TypeOK
<1>7. CASE EnterStart
  <2>1. args[WU] \in Nat /\ args[CD] \in Nat
    BY <1>7 DEF EnterStart, TypeOK, IsStored, MotionKeys
  <2>2. live' \in Live /\ was' \in [{"main", "mqtt"} -> BOOLEAN]
    BY <1>7, <2>1, DetectorType DEF EnterStart
  <2> QED
    BY <1>7, <2>2 DEF EnterStart, TypeOK
<1>8. CASE FinishStart
  <2>1. live' \in Live
    BY <1>8, DetectorType DEF FinishStart
  <2> QED
    BY <1>8, <2>1, SmallStored DEF FinishStart, TypeOK
<1> QED
  BY <1>0, <1>1, <1>2, <1>3, <1>4, <1>5, <1>6, <1>7, <1>8 DEF Main

\* The steps of the handler that touch neither the services nor NVS contents,
\* and those that do, keep the types.
LEMMA HandlerTypeInv == TypeInv /\ Handler => TypeInv'
<1> SUFFICES ASSUME TypeInv, Handler PROVE TypeInv'
  OBVIOUS
<1> USE DEF TypeInv, Shape, nvs, main
<1>0. Target \in [Keys -> Nat] /\ Target[WU] \in Nat /\ Target[CD] \in Nat
      /\ Target[HB] \in Nat
  BY TargetType DEF Keys
<1>1. CASE EnterMotion
  <2>1. live' \in Live /\ was' \in [{"main", "mqtt"} -> BOOLEAN]
    BY <1>0, <1>1, DetectorType DEF EnterMotion
  <2> QED
    BY <1>1, <2>1 DEF EnterMotion, TypeOK
<1>2. CASE FinishMotion
  <2>1. live' \in Live
    BY <1>2, DetectorType DEF FinishMotion
  <2> QED
    BY <1>2, <2>1 DEF FinishMotion, TypeOK
<1>3. CASE ApplyIr
  <2>1. (HasIr /\ ShouldBeOn(Target[IR])) \in BOOLEAN
    BY DEF ShouldBeOn
  <2>2. live' \in Live
    BY <1>3, <2>1, LiveUpdate, Zenon DEF ApplyIr, TypeOK
  <2> QED
    BY <1>3, <2>2 DEF ApplyIr, TypeOK
<1>4. CASE IrFails
  BY <1>4 DEF IrFails, StepFails, TypeOK
<1>5. CASE ApplyHeartbeat
  <2>1. live' = live \/ live' = [live EXCEPT !.interval_s = Target[HB]]
    BY <1>5 DEF ApplyHeartbeat
  <2>2. live \in Live
    BY DEF TypeOK
  <2>3. live' \in Live
    BY <1>0, <2>1, <2>2, LiveUpdate, Zenon
  <2> QED
    BY <1>5, <2>3 DEF ApplyHeartbeat, StepFails, TypeOK
<1>6. CASE NvsOpen
  BY <1>6 DEF NvsOpen, TypeOK, IsStored
<1>7. CASE NvsCommit
  <2>1. IsStored(flash')
    BY <1>7, WriteEntriesType DEF NvsCommit, TypeOK
  <2>2. todo' \subseteq Keys
    BY <1>7 DEF NvsCommit, TypeOK, IsStored
  <2> QED
    BY <1>7, <2>1, <2>2, SmallStored DEF NvsCommit, TypeOK
<1>8. CASE NvsFails
  BY <1>8, SmallStored DEF NvsFails, StepFails, TypeOK
<1>9. CASE Reply
  <2>1. IsStored(acked')
    BY <1>9, WriteEntriesType DEF Reply, Returned, TypeOK
  <2>2. ErrorCode \in {"none", "invalid_config", "unsupported_feature",
                       "apply_failed"}
    BY DEF ErrorCode, TypeOK
  <2>3. Getters(s_state) \in [Keys -> Nat]
    BY GettersType DEF TypeOK
  <2>4. (err = "OK") \in BOOLEAN /\ (err = "OK" /\ DOMAIN patch # {}) \in BOOLEAN
    OBVIOUS
  <2>5. /\ reply'.sent \in BOOLEAN /\ reply'.ok \in BOOLEAN
        /\ reply'.error \in {"none", "invalid_config", "unsupported_feature",
                             "apply_failed"}
        /\ reply'.updated \in BOOLEAN /\ reply'.config \in [Keys -> Nat]
    BY <1>9, <2>2, <2>3, <2>4 DEF Reply
  <2> QED
    BY <1>9, <2>1, <2>5, DefaultsType, SmallStored DEF Reply, Returned, TypeOK
<1>10. ASSUME NEW k \in Keys, NvsSet(k) PROVE TypeInv'
  <2>1. patch[k] \in Nat
    BY <1>10 DEF NvsSet, IsNext, TypeOK, IsStored
  <2>2. IsStored(Entry(k))
    BY <2>1, SmallStored DEF Entry
  <2>3. IsStored(pending')
    BY <1>10, <2>2, WriteEntriesType DEF NvsSet, TypeOK
  <2> QED
    BY <1>10, <2>3 DEF NvsSet, TypeOK
<1>11. ASSUME NEW k \in Keys, Mirror(k) PROVE TypeInv'
  <2>1. patch[k] \in Nat
    BY <1>11 DEF Mirror, IsNext, TypeOK, IsStored
  <2>2. s_state' \in [Keys -> Nat]
    BY <1>11, <2>1 DEF Mirror, TypeOK
  <2> QED
    BY <1>11, <2>2 DEF Mirror, TypeOK
<1>12. CASE Unanswered
  BY <1>12, DefaultsType, SmallStored DEF Unanswered, Returned, TypeOK
<1> QED
  BY <1>1, <1>2, <1>3, <1>4, <1>5, <1>6, <1>7, <1>8, <1>9, <1>10, <1>11, <1>12
     DEF Handler

\* The invariant holds when the node is first powered.
LEMMA TypeInit == Init => TypeInv
BY ConfigCommandAssumption, DefaultsType, SmallStored
   DEF Init, TypeInv, TypeOK, Shape, ColdLive, Live, Detector, NoReply, Keys

\* Every step keeps it.
LEMMA TypeNext == TypeInv /\ [Next]_vars => TypeInv'
<1> SUFFICES ASSUME TypeInv, [Next]_vars PROVE TypeInv'
  OBVIOUS
<1>1. CASE UNCHANGED vars
  BY <1>1 DEF TypeInv, TypeOK, Shape, vars
<1>2. CASE WarmupElapses
  <2>1. live' \in Live
    BY <1>2, LiveUpdate DEF WarmupElapses, TypeInv, TypeOK, Detector
  <2> QED
    BY <1>2, <2>1
       DEF WarmupElapses, TypeInv, TypeOK, Shape, nvs, main, handler
<1>3. CASE Restart
  BY <1>3, DefaultsType, SmallStored
     DEF Restart, TypeInv, TypeOK, Shape, ColdLive, Live, Detector, Keys
<1>4. ASSUME NEW r \in Requests, Receive(r) PROVE TypeInv'
  <2>1. IsStored(acked')
    BY <1>4, WithoutType DEF Receive, TypeInv, TypeOK
  <2> QED
    BY <1>4, <2>1, AcceptedType, GettersType, SmallStored, DefaultsType
       DEF Receive, TypeInv, TypeOK, Shape, nvs, main, NoReply
<1>5. ASSUME NEW k \in Keys, NvsFlush(k) PROVE TypeInv'
  <2> DEFINE one == [j \in {k} |-> pending[k]]
             rest == [j \in DOMAIN pending \ {k} |-> pending[j]]
  <2>1. pending[k] \in Nat /\ IsStored(one) /\ IsStored(rest)
    BY <1>5 DEF NvsFlush, TypeInv, TypeOK, IsStored
  <2>2. flash' = WriteEntries(flash, one) /\ pending' = rest
    BY <1>5 DEF NvsFlush
  <2> HIDE DEF one, rest
  <2>3. IsStored(flash') /\ IsStored(pending')
    BY <2>1, <2>2, WriteEntriesType DEF TypeInv, TypeOK
  <2> QED
    BY <1>5, <2>3 DEF NvsFlush, TypeInv, TypeOK, Shape, main, handler
<1> QED
  BY <1>1, <1>2, <1>3, <1>4, <1>5, MainTypeInv, HandlerTypeInv DEF Next

\* Every state is well typed: the type invariant of ConfigCommand, for any
\* build, payloads, initial flash and faults.
THEOREM TypeCorrect == Spec => []TypeOK
<1>1. TypeInv => TypeOK
  BY DEF TypeInv
<1> QED
  BY <1>1, TypeInit, TypeNext, PTL DEF Spec
-----------------------------------------------------------------------------
(***************************************************************************)
(* Validation, overlay and restore fit together.                            *)
(***************************************************************************)

\* The documented ranges, key by key.
LEMMA Ranges ==
    /\ DocumentedRange[HB] = 1..3600
    /\ DocumentedRange[EN] = 0..1
    /\ DocumentedRange[WU] = 0..WarmupMax
    /\ DocumentedRange[CD] = 0..CooldownMax
    /\ DocumentedRange[IR] = 0..2
<1>1. {HB, EN, WU, CD, IR} \subseteq Keys
  BY DEF Keys
<1> QED
  BY <1>1 DEF DocumentedRange, HB, EN, WU, CD, IR

\* What validation establishes of a patch.
ValidPatch(p) ==
    /\ IsStored(p)
    /\ \A k \in DOMAIN p : k \in Supported /\ IsValid(k, p[k])

\* A payload that is accepted is a valid patch; any other yields none.
LEMMA AcceptedValid ==
    ASSUME NEW r \in Requests
    PROVE  /\ ValidPatch(Accepted(r))
           /\ ParseAndValidate(r) = "OK" => Accepted(r) = r
           /\ ParseAndValidate(r) # "OK" => DOMAIN Accepted(r) = {}
<1>1. CASE ParseAndValidate(r) # "OK"
  BY <1>1, SmallStored DEF Accepted, ValidPatch
<1>2. CASE ParseAndValidate(r) = "OK"
  <2>1. Accepted(r) = r /\ IsStored(r)
    BY <1>2, AcceptedType DEF Accepted
  <2>2. ValidatePatch(r) = "OK"
    BY <1>2 DEF ParseAndValidate
  <2>3. IsRequest(r) /\ \A k \in DOMAIN r : r[k] # Malformed
    BY <1>2, ConfigCommandAssumption DEF ParseAndValidate
  <2>4. ASSUME NEW k \in DOMAIN r
        PROVE  k \in Supported /\ IsValid(k, r[k])
    <3>1. k \in Keys
      BY <2>1 DEF IsStored
    <3>2. CASE k = HB
      BY <2>2, <2>4, <3>2 DEF ValidatePatch, Supported, Keys, MotionKeys,
                              HB, EN, WU, CD, IR
    <3>3. CASE k = EN
      <4>1. r[k] \in 0..1
        BY <2>3, <2>4, <3>3, Ranges DEF IsRequest
      <4>2. HasMotion
        BY <2>2, <2>4, <3>3 DEF ValidatePatch, MotionKeys
      <4>3. k \in Supported
        BY <3>1, <3>3, <4>2 DEF Supported, EN, IR
      <4>4. IsValid(EN, r[k]) <=> r[k] <= 1
        BY DEF IsValid, HB, EN, WU, CD, IR
      <4> QED
        BY <3>3, <4>1, <4>3, <4>4
    <3>4. CASE k = WU \/ k = CD
      BY <2>2, <2>4, <3>4 DEF ValidatePatch, Supported, Keys, MotionKeys,
                              HB, EN, WU, CD, IR
    <3>5. CASE k = IR
      BY <2>2, <2>4, <3>5 DEF ValidatePatch, Supported, Keys, MotionKeys,
                              HB, EN, WU, CD, IR
    <3> QED
      BY <3>1, <3>2, <3>3, <3>4, <3>5 DEF Keys
  <2> QED
    BY <1>2, <2>1, <2>4 DEF ValidPatch
<1> QED
  BY <1>1, <1>2

\* A valid, supported entry of NVS is restored as it is.
LEMMA RestoreValid ==
    ASSUME NEW f, NEW k \in DOMAIN f, k \in Supported, IsValid(k, f[k])
    PROVE  Restore(f)[k] = f[k]
BY DEF Restore, RestoreKey, Supported, Keys, MotionKeys, HB, EN, WU, CD, IR

\* A flash that holds a valid patch, and is otherwise as it was, restores to
\* what it restored to before, overlaid by the patch.
LEMMA RestoreHolding ==
    ASSUME NEW f, NEW g, NEW p, ValidPatch(p),
           \A k \in DOMAIN p : k \in DOMAIN g /\ g[k] = p[k],
           \A k \in Keys \ DOMAIN p :
              /\ k \in DOMAIN g <=> k \in DOMAIN f
              /\ k \in DOMAIN f => g[k] = f[k]
    PROVE  Restore(g) = Overlay(Restore(f), p)
<1>1. ASSUME NEW k \in Keys
      PROVE  Restore(g)[k] = Overlay(Restore(f), p)[k]
  <2>1. CASE k \in DOMAIN p
    BY <2>1, RestoreValid DEF ValidPatch, Overlay
  <2>2. CASE k \notin DOMAIN p
    <3>1. RestoreKey(g, k) = RestoreKey(f, k)
      BY <2>2 DEF RestoreKey
    <3> QED
      BY <2>2, <3>1 DEF Restore, Overlay
  <2> QED
    BY <2>1, <2>2
<1> QED
  BY <1>1 DEF Restore, Overlay

\* Persisting a valid patch and restoring is the same as restoring and then
\* overlaying the patch: the whole-update step of the abstract store.
LEMMA RestoreAfterWrite ==
    ASSUME NEW f, NEW p, ValidPatch(p)
    PROVE  Restore(WriteEntries(f, p)) = Overlay(Restore(f), p)
<1> DEFINE g == WriteEntries(f, p)
<1>1. /\ \A k \in DOMAIN p : k \in DOMAIN g /\ g[k] = p[k]
      /\ \A k \in Keys \ DOMAIN p :
            /\ k \in DOMAIN g <=> k \in DOMAIN f
            /\ k \in DOMAIN f => g[k] = f[k]
  BY DEF WriteEntries
<1> HIDE DEF g
<1>2. Restore(g) = Overlay(Restore(f), p)
  BY <1>1, RestoreHolding
<1> QED
  BY <1>2 DEF g

\* Whatever NVS holds, and whatever valid patch is overlaid, the heartbeat
\* interval stays in its range.
LEMMA IntervalInRange ==
    /\ Defaults[HB] \in DocumentedRange[HB]
    /\ \A f : IsStored(f) => Restore(f)[HB] \in DocumentedRange[HB]
    /\ \A v \in Nat : IsValid(HB, v) => v \in DocumentedRange[HB]
    /\ \A v \in Nat : v \in DocumentedRange[HB] <=> heartbeat_task_accepts(v)
<1>1. DocumentedRange[HB] = 1..3600
  BY Ranges
<1>2. ASSUME NEW v \in Nat
      PROVE  IsValid(HB, v) <=> heartbeat_interval_is_valid(v)
  BY Zenon DEF IsValid, HB, EN, WU, CD, IR
<1>3. ASSUME NEW v \in Nat
      PROVE  v \in DocumentedRange[HB] <=> heartbeat_interval_is_valid(v)
  <2> DEFINE range == DocumentedRange[HB]
  <2>1. range = 1..3600
    BY <1>1
  <2> HIDE DEF range
  <2>2. v \in range <=> heartbeat_interval_is_valid(v)
    BY <2>1 DEF heartbeat_interval_is_valid
  <2> QED
    BY <2>2 DEF range
<1>4. Defaults[HB] \in DocumentedRange[HB]
  <2>1. HB \in Keys
    BY DEF Keys
  <2> QED
    BY <2>1, RuntimeConfigAssumption DEF Config
<1>5. ASSUME NEW f, IsStored(f)
      PROVE  Restore(f)[HB] \in DocumentedRange[HB]
  <2>1. HB \in Keys /\ HB # EN /\ HB # IR
    BY DEF Keys, HB, EN, IR
  <2>2. Restore(f)[HB] = RestoreKey(f, HB)
    BY <2>1 DEF Restore
  <2>3. CASE HB \notin DOMAIN f \/ ~IsValid(HB, f[HB])
    BY <1>4, <2>2, <2>3 DEF RestoreKey
  <2>4. CASE HB \in DOMAIN f /\ IsValid(HB, f[HB])
    <3>1. f[HB] \in Nat
      BY <1>5, <2>4 DEF IsStored
    <3>2. Restore(f)[HB] = f[HB]
      BY <2>1, <2>2, <2>4 DEF RestoreKey
    <3> QED
      BY <1>2, <1>3, <2>4, <3>1, <3>2
  <2> QED
    BY <2>3, <2>4
<1>6. ASSUME NEW v \in Nat
      PROVE  heartbeat_interval_is_valid(v) <=> heartbeat_task_accepts(v)
  BY DEF heartbeat_interval_is_valid, heartbeat_task_accepts
<1> QED
  BY <1>2, <1>3, <1>4, <1>5, <1>6
-----------------------------------------------------------------------------
(***************************************************************************)
(* The inductive invariant.  The settings in RAM and those in the flash are *)
(* related only through the update in progress: where the handler is, which *)
(* entries are still staged, and which settings are already mirrored.       *)
(***************************************************************************)
Progress ==
    /\ boot = "nvs" => pc = "idle"
    /\ pc = "idle" => patch = EmptyPatch
    /\ pc \notin {"idle", "reply"} => DOMAIN patch # {}
    /\ phase = "rollback" =>
          err = "FAIL" /\ pc \notin {"idle", "open", "set", "mirror"}
    /\ phase = "apply" /\ pc # "reply" => err = "OK"
    /\ ValidPatch(patch)
    /\ pc = "mirror" => todo # {}

\* Between nvs_open and nvs_commit every entry set so far is staged or, when
\* the flash driver is early, already written.
Staged ==
    /\ pc # "set" => pending = EmptyPatch
    /\ pc = "set" =>
          /\ DOMAIN pending \subseteq DOMAIN patch \ todo
          /\ ~WriteThrough => DOMAIN pending = DOMAIN patch \ todo
          /\ \A k \in DOMAIN pending : pending[k] = patch[k]
          /\ \A k \in (DOMAIN patch \ todo) \ DOMAIN pending :
                k \in DOMAIN flash /\ flash[k] = patch[k]

Holds(p) == \A k \in DOMAIN p : k \in DOMAIN flash /\ flash[k] = p[k]

Written ==
    /\ pc = "mirror" =>
          Holds(patch) /\ \A k \in DOMAIN patch \ todo : s_state[k] = patch[k]
    /\ pc = "reply" /\ err = "OK" =>
          Holds(patch) /\ \A k \in DOMAIN patch : s_state[k] = patch[k]

Acked ==
    /\ ValidPatch(acked)
    /\ DOMAIN acked \cap DOMAIN patch = {}
    /\ ~EraseAtBoot =>
          /\ Holds(acked)
          /\ boot # "nvs" => \A k \in DOMAIN acked : s_state[k] = acked[k]

InRange ==
    /\ s_state[HB] \in DocumentedRange[HB]
    /\ previous[HB] \in DocumentedRange[HB]
    /\ boot = "set_interval" => args[HB] \in DocumentedRange[HB]

UpdateInv == Progress /\ Staged /\ Written /\ Acked /\ InRange

DurableInv == ~WriteThrough => DurableMatchesRam
-----------------------------------------------------------------------------
Inv == TypeInv /\ UpdateInv /\ DurableInv

\* Steps that change none of what the invariant is about.
LEMMA QuietStep ==
    ASSUME Inv,
           UNCHANGED <<nvs, s_state, handler>>,
           (boot' = "nvs") <=> (boot = "nvs"),
           boot' = "set_interval" => args'[HB] \in DocumentedRange[HB]
    PROVE  UpdateInv' /\ DurableInv'
BY DEF Inv, UpdateInv, Progress, Staged, Written, Holds, Acked, InRange,
       DurableInv, DurableMatchesRam, Stored, nvs, handler

\* app_main keeps the invariant: the one step that matters is the boot read.
LEMMA MainInv == Inv /\ Main => UpdateInv' /\ DurableInv'
<1> SUFFICES ASSUME Inv, Main PROVE UpdateInv' /\ DurableInv'
  OBVIOUS
<1>0. CASE NvsErase
  <2>1. pc = "idle"
    BY <1>0 DEF NvsErase, Inv, UpdateInv, Progress
  <2>2. UpdateInv'
    BY <1>0, <2>1
       DEF NvsErase, Inv, UpdateInv, Progress, Staged, Written, Holds, Acked,
           InRange, main, handler
  <2>3. DurableInv'
    BY <1>0 DEF NvsErase, DurableInv, DurableMatchesRam, main
  <2> QED
    BY <2>2, <2>3
<1>1. CASE RuntimeConfigInit
  <2>1. IsStored(flash) /\ pc = "idle" /\ s_state' = Restore(flash)
    BY <1>1 DEF RuntimeConfigInit, Inv, TypeInv, TypeOK, UpdateInv, Progress
  <2>2. ASSUME ~EraseAtBoot, NEW k \in DOMAIN acked
        PROVE  s_state'[k] = acked[k]
    <3>1. k \in DOMAIN flash /\ flash[k] = acked[k]
      BY <2>2 DEF Inv, UpdateInv, Acked, Holds
    <3>2. k \in Supported /\ IsValid(k, flash[k])
      BY <3>1 DEF Inv, UpdateInv, Acked, ValidPatch
    <3> QED
      BY <2>1, <3>1, <3>2, RestoreValid
  <2>3. s_state'[HB] \in DocumentedRange[HB]
    BY <2>1, IntervalInRange
  <2>4. UpdateInv'
    BY <1>1, <2>1, <2>2, <2>3
       DEF RuntimeConfigInit, Inv, UpdateInv, Progress, Staged, Written, Holds,
           Acked, InRange, nvs, handler
  <2>5. DurableInv'
    BY <1>1, <2>1
       DEF RuntimeConfigInit, DurableInv, DurableMatchesRam, Stored, nvs, handler
  <2> QED
    BY <2>4, <2>5
<1>2. CASE ReadHeartbeat
  <2>1. HB \in Keys /\ HB # EN /\ HB # IR
    BY DEF Keys, HB, EN, IR
  <2>2. args'[HB] = s_state[HB]
    BY <1>2, <2>1 DEF ReadHeartbeat, Getters
  <2>3. args'[HB] \in DocumentedRange[HB]
    BY <2>2 DEF Inv, UpdateInv, InRange
  <2> QED
    BY <1>2, <2>3, QuietStep DEF ReadHeartbeat
<1>3. CASE IrBoot \/ Connect \/ SetHeartbeat \/ EnterStart \/ FinishStart
  BY <1>3, QuietStep DEF IrBoot, Connect, SetHeartbeat, EnterStart, FinishStart
<1>4. ASSUME NEW k \in MotionKeys, ReadMotion(k)
      PROVE  UpdateInv' /\ DurableInv'
  BY <1>4, QuietStep DEF ReadMotion
<1> QED
  BY <1>0, <1>1, <1>2, <1>3, <1>4 DEF Main

\* A step of the handler that only changes a service, or fails, keeps it too.
LEMMA ServiceStep ==
    ASSUME Inv,
           pc \in {"motion", "detector", "ir", "heartbeat"},
           UNCHANGED <<nvs, s_state, main, patch, previous, todo, reply, acked, before>>,
           \/ /\ pc' \in {"motion", "detector", "ir", "heartbeat"}
              /\ UNCHANGED <<err, phase>>
           \/ phase = "apply" /\ pc' = "open" /\ UNCHANGED <<err, phase>>
           \/ phase = "rollback" /\ pc' = "reply" /\ UNCHANGED <<err, phase>>
           \/ StepFails
    PROVE  UpdateInv' /\ DurableInv'
<1>1. UpdateInv'
  BY DEF Inv, UpdateInv, Progress, Staged, Written, Holds, Acked, InRange,
         nvs, main, StepFails
<1>2. DurableInv'
  BY DEF Inv, DurableInv, DurableMatchesRam, Stored, nvs, main, StepFails
<1> QED
  BY <1>1, <1>2

\* Staging one more entry keeps what is staged, and closing the handle after
\* a failure drops it.
LEMMA NvsStep ==
    ASSUME Inv,
           NvsOpen \/ NvsFails \/ \E k \in Keys : NvsSet(k)
    PROVE  UpdateInv' /\ DurableInv'
<1> USE DEF Inv, UpdateInv, Progress, Staged, Written, Holds, Acked, InRange,
            nvs, main
<1>1. CASE NvsOpen
  BY <1>1, SmallStored
     DEF NvsOpen, DurableInv, DurableMatchesRam, Stored
<1>2. CASE NvsFails
  BY <1>2, SmallStored
     DEF NvsFails, StepFails, DurableInv, DurableMatchesRam, Stored
<1>3. ASSUME NEW k \in Keys, NvsSet(k) PROVE UpdateInv' /\ DurableInv'
  <2>1. /\ DOMAIN pending' = DOMAIN pending \cup {k}
        /\ pending'[k] = patch[k]
        /\ \A j \in DOMAIN pending \ {k} : pending'[j] = pending[j]
    BY <1>3 DEF NvsSet, WriteEntries, Entry
  <2>2. k \in DOMAIN patch
    BY <1>3 DEF NvsSet, IsNext, TypeInv, Shape
  <2>3. UpdateInv'
    BY <1>3, <2>1, <2>2 DEF NvsSet, IsNext, TypeInv, Shape
  <2>4. DurableInv'
    BY <1>3 DEF NvsSet, DurableInv, DurableMatchesRam, Stored
  <2> QED
    BY <2>3, <2>4
<1> QED
  BY <1>1, <1>2, <1>3

\* The commit makes the flash hold the whole patch.
LEMMA CommitStep ==
    ASSUME Inv, NvsCommit
    PROVE  UpdateInv' /\ DurableInv'
<1> USE DEF Inv
<1>1. /\ pc = "set" /\ todo = {} /\ boot # "nvs"
      /\ DOMAIN patch # {} /\ ValidPatch(patch)
      /\ IsStored(flash)
  BY DEF NvsCommit, TypeInv, TypeOK, UpdateInv, Progress
<1>2. Holds(patch)'
  BY <1>1 DEF NvsCommit, UpdateInv, Staged, Holds, WriteEntries
<1>3. UpdateInv'
  <2>1. ASSUME Holds(acked) PROVE Holds(acked)'
    <3>1. acked' = acked /\ DOMAIN acked \cap DOMAIN pending = {}
      BY <1>1 DEF NvsCommit, UpdateInv, Staged, Acked
    <3> QED
      BY <2>1, <3>1 DEF NvsCommit, Holds, WriteEntries
  <2>2. Acked'
    BY <1>1, <2>1 DEF NvsCommit, UpdateInv, Acked, ValidPatch, IsStored, main
  <2>3. Progress' /\ Staged' /\ Written' /\ InRange'
    BY <1>1, <1>2, SmallStored
       DEF NvsCommit, UpdateInv, Progress, Staged, Written, InRange, main
  <2> QED
    BY <2>2, <2>3 DEF UpdateInv
<1>4. ASSUME ~WriteThrough PROVE DurableMatchesRam'
  <2>1. pending = patch
    <3>1. DOMAIN pending = DOMAIN patch
          /\ \A k \in DOMAIN pending : pending[k] = patch[k]
      BY <1>1, <1>4 DEF UpdateInv, Staged
    <3>2. pending \in [DOMAIN pending -> Nat] /\ patch \in [DOMAIN patch -> Nat]
      BY <1>1 DEF ValidPatch, IsStored, TypeInv, TypeOK
    <3> QED
      BY <3>1, <3>2
  <2>2. flash' = WriteEntries(flash, patch)
    BY <2>1 DEF NvsCommit
  <2>3. Stored' = Overlay(Restore(flash), patch)
    BY <1>1, <2>2, RestoreAfterWrite DEF Stored
  <2>4. Restore(flash) = s_state
    BY <1>1, <1>4 DEF DurableInv, DurableMatchesRam, Stored
  <2> QED
    BY <2>3, <2>4 DEF NvsCommit, DurableMatchesRam
<1> QED
  BY <1>3, <1>4 DEF DurableInv

\* Mirroring one more setting of the patch into RAM.
LEMMA MirrorStep ==
    ASSUME Inv, NEW k \in Keys, Mirror(k)
    PROVE  UpdateInv' /\ DurableInv'
<1> USE DEF Inv
<1>1. /\ k \in todo /\ k \in DOMAIN patch /\ todo \subseteq DOMAIN patch
      /\ s_state \in [Keys -> Nat] /\ ValidPatch(patch)
      /\ boot # "nvs"
  BY DEF Mirror, IsNext, TypeInv, TypeOK, Shape, UpdateInv, Progress
<1>2. /\ s_state'[k] = patch[k]
      /\ \A j \in Keys \ {k} : s_state'[j] = s_state[j]
      /\ s_state' \in [Keys -> Nat]
  BY <1>1 DEF Mirror, ValidPatch, IsStored
<1>3. Overlay(s_state', patch) = Overlay(s_state, patch)
  BY <1>1, <1>2 DEF Overlay
<1>4. CASE todo = {k}
  <2>1. \A j \in DOMAIN patch : s_state'[j] = patch[j]
    BY <1>1, <1>2, <1>4 DEF Mirror, UpdateInv, Written, ValidPatch, IsStored
  <2>2. s_state' = Overlay(s_state', patch)
    BY <1>2, <2>1 DEF Overlay
  <2>3. HB \in Keys
    BY DEF Keys
  <2>4. s_state'[HB] \in DocumentedRange[HB]
    BY <1>1, <1>2, <2>3, IntervalInRange
       DEF UpdateInv, InRange, ValidPatch, IsStored
  <2>5. UpdateInv'
    BY <1>1, <1>4, <2>1, <2>4
       DEF Mirror, UpdateInv, Progress, Staged, Written, Holds, Acked, InRange,
           nvs, main
  <2>6. DurableInv'
    BY <1>1, <1>3, <1>4, <2>2
       DEF Mirror, DurableInv, DurableMatchesRam, Stored, nvs
  <2> QED
    BY <2>5, <2>6
<1>5. CASE todo # {k}
  <2>1. \A j \in DOMAIN patch \ todo' : s_state'[j] = patch[j]
    BY <1>1, <1>2 DEF Mirror, UpdateInv, Written, ValidPatch, IsStored
  <2>2. HB \in Keys
    BY DEF Keys
  <2>3. s_state'[HB] \in DocumentedRange[HB]
    BY <1>1, <1>2, <2>2, IntervalInRange
       DEF UpdateInv, InRange, ValidPatch, IsStored
  <2>4. todo' # {}
    BY <1>1, <1>5 DEF Mirror
  <2>5. UpdateInv'
    BY <1>1, <1>5, <2>1, <2>3, <2>4
       DEF Mirror, UpdateInv, Progress, Staged, Written, Holds, Acked, InRange,
           nvs, main
  <2>6. DurableInv'
    BY <1>1, <1>3, <1>5
       DEF Mirror, DurableInv, DurableMatchesRam, Stored, nvs
  <2> QED
    BY <2>5, <2>6
<1> QED
  BY <1>4, <1>5

\* The reply acknowledges a patch only when it is written and mirrored.
LEMMA ReplyStep ==
    ASSUME Inv, Reply
    PROVE  UpdateInv' /\ DurableInv'
<1> USE DEF Inv
<1>1. ValidPatch(EmptyPatch) /\ DOMAIN EmptyPatch = {}
  BY SmallStored DEF ValidPatch
<1>2. /\ ValidPatch(acked')
      /\ ~EraseAtBoot =>
            \A k \in DOMAIN acked' :
               /\ k \in DOMAIN flash /\ flash[k] = acked'[k]
               /\ boot # "nvs" => s_state[k] = acked'[k]
  <2>1. CASE err = "OK"
    <3>1. acked' = WriteEntries(acked, patch)
      BY <2>1 DEF Reply
    <3>2. ValidPatch(acked')
      BY <3>1, WriteEntriesType
         DEF UpdateInv, Progress, Acked, ValidPatch, WriteEntries
    <3> QED
      BY <2>1, <3>1, <3>2
         DEF Reply, UpdateInv, Progress, Written, Acked, Holds, WriteEntries
  <2>2. CASE err # "OK"
    <3>1. acked' = acked
      BY <2>2 DEF Reply
    <3> QED
      BY <3>1 DEF UpdateInv, Acked, Holds
  <2> QED
    BY <2>1, <2>2
<1>3. UpdateInv'
  BY <1>1, <1>2, IntervalInRange
     DEF Reply, Returned, TypeInv, Shape, UpdateInv, Progress, Staged, Written, Holds,
         Acked, InRange, nvs, main
<1>4. DurableInv'
  BY DEF Reply, Returned, DurableInv, DurableMatchesRam, Stored, nvs, main
<1> QED
  BY <1>3, <1>4

\* A return without a reply acknowledges nothing.
LEMMA UnansweredStep ==
    ASSUME Inv, Unanswered
    PROVE  UpdateInv' /\ DurableInv'
<1>1. ValidPatch(EmptyPatch) /\ DOMAIN EmptyPatch = {}
  BY SmallStored DEF ValidPatch
<1>2. UpdateInv'
  BY <1>1, IntervalInRange
     DEF Unanswered, Returned, Inv, TypeInv, Shape, UpdateInv, Progress, Staged,
         Written, Holds, Acked, InRange, nvs, main
<1>3. DurableInv'
  BY DEF Unanswered, Returned, Inv, DurableInv, DurableMatchesRam, Stored, nvs, main
<1> QED
  BY <1>2, <1>3

\* Every step of handle_config_command keeps the invariant.
LEMMA HandlerInv == Inv /\ Handler => UpdateInv' /\ DurableInv'
<1> SUFFICES ASSUME Inv, Handler PROVE UpdateInv' /\ DurableInv'
  OBVIOUS
<1>1. CASE EnterMotion
  BY <1>1, ServiceStep DEF EnterMotion
<1>2. CASE FinishMotion
  BY <1>2, ServiceStep DEF FinishMotion
<1>3. CASE ApplyIr
  BY <1>3, ServiceStep DEF ApplyIr
<1>4. CASE IrFails
  BY <1>4, ServiceStep DEF IrFails
<1>5. CASE ApplyHeartbeat
  <2>1. phase \in {"apply", "rollback"}
    BY DEF Inv, TypeInv, TypeOK
  <2>2. CASE heartbeat_task_accepts(Target[HB])
    BY <1>5, <2>1, <2>2, ServiceStep DEF ApplyHeartbeat
  <2>3. CASE ~heartbeat_task_accepts(Target[HB])
    BY <1>5, <2>3, ServiceStep DEF ApplyHeartbeat
  <2> QED
    BY <2>2, <2>3
<1>6. CASE NvsOpen \/ NvsFails \/ \E k \in Keys : NvsSet(k)
  BY <1>6, NvsStep
<1>7. CASE NvsCommit
  BY <1>7, CommitStep
<1>8. CASE \E k \in Keys : Mirror(k)
  BY <1>8, MirrorStep
<1>9. CASE Reply
  BY <1>9, ReplyStep
<1>10. CASE Unanswered
  BY <1>10, UnansweredStep
<1> QED
  BY <1>1, <1>2, <1>3, <1>4, <1>5, <1>6, <1>7, <1>8, <1>9, <1>10 DEF Handler

\* A command arrives: its patch is valid, and its snapshot in range.
LEMMA ReceiveStep ==
    ASSUME Inv, NEW r \in Requests, Receive(r)
    PROVE  UpdateInv' /\ DurableInv'
<1>1. /\ ValidPatch(patch')
      /\ pc' # "reply" => DOMAIN patch' # {}
      /\ DOMAIN patch' # {} => err' = "OK"
      /\ pc' # "reply" => err' = "OK"
      /\ pc' = "reply" => DOMAIN patch' = {}
  BY AcceptedValid DEF Receive
<1>2. previous'[HB] = s_state[HB]
  BY DEF Receive, Getters, Keys, HB, EN, IR
<1>3. /\ DOMAIN acked' = DOMAIN acked \ DOMAIN patch'
      /\ \A k \in DOMAIN acked' : acked'[k] = acked[k]
      /\ ValidPatch(acked')
  <2>1. acked' = [k \in DOMAIN acked \ DOMAIN patch' |-> acked[k]]
    BY DEF Receive
  <2>2. ValidPatch(acked)
    BY DEF Inv, UpdateInv, Acked
  <2> QED
    BY <2>1, <2>2, WithoutType DEF ValidPatch
<1>4. /\ pc = "idle" /\ boot # "nvs" /\ pc' \in {"motion", "reply"}
      /\ phase = "apply" /\ pending = EmptyPatch
  BY DEF Receive, MqttUp, Inv, UpdateInv, Progress, Staged, TypeInv, TypeOK
<1>5. UpdateInv'
  BY <1>1, <1>2, <1>3, <1>4
     DEF Receive, Inv, UpdateInv, Progress, Staged, Written, Holds, Acked,
         InRange, nvs, main
<1>6. DurableInv'
  BY <1>4 DEF Receive, Inv, DurableInv, DurableMatchesRam, Stored, nvs, main
<1> QED
  BY <1>5, <1>6

\* A restart keeps the flash, and with it what was acknowledged.
LEMMA RestartStep ==
    ASSUME Inv, Restart
    PROVE  UpdateInv' /\ DurableInv'
<1>1. ValidPatch(EmptyPatch) /\ DOMAIN EmptyPatch = {}
  BY SmallStored DEF ValidPatch
<1>2. UpdateInv'
  BY <1>1, IntervalInRange
     DEF Restart, Inv, UpdateInv, Progress, Staged, Written, Holds, Acked, InRange
<1>3. DurableInv'
  BY DEF Restart, DurableInv, DurableMatchesRam
<1> QED
  BY <1>2, <1>3

\* The flash driver can be early only between nvs_open and nvs_commit, and
\* only when WriteThrough allows it.
LEMMA FlushStep ==
    ASSUME Inv, NEW k \in Keys, NvsFlush(k)
    PROVE  UpdateInv' /\ DurableInv'
<1>1. WriteThrough /\ k \in DOMAIN pending /\ DOMAIN EmptyPatch = {}
  BY SmallStored DEF NvsFlush
<1>2. pc = "set"
  BY <1>1 DEF Inv, UpdateInv, Staged
<1>3. /\ DOMAIN pending' = DOMAIN pending \ {k}
      /\ \A j \in DOMAIN pending' : pending'[j] = pending[j]
      /\ DOMAIN flash' = DOMAIN flash \cup {k}
      /\ flash'[k] = pending[k]
      /\ \A j \in DOMAIN flash \ {k} : flash'[j] = flash[j]
  BY <1>1 DEF NvsFlush, WriteEntries
<1>4. acked = acked' /\ patch = patch' /\ k \notin DOMAIN acked
  BY <1>1, <1>2 DEF NvsFlush, handler, Inv, UpdateInv, Staged, Acked
<1>5. Staged'
  BY <1>1, <1>2, <1>3 DEF NvsFlush, handler, Inv, UpdateInv, Staged
<1>6. UpdateInv'
  <2>1. ASSUME Holds(acked) PROVE Holds(acked)'
    BY <1>3, <1>4, <2>1 DEF Holds
  <2>2. Acked'
    BY <1>4, <2>1
       DEF NvsFlush, main, Inv, UpdateInv, Acked, ValidPatch, IsStored
  <2>3. Progress' /\ Written' /\ InRange'
    BY <1>2 DEF NvsFlush, handler, main, Inv, UpdateInv, Progress, Written, InRange
  <2> QED
    BY <1>5, <2>2, <2>3 DEF UpdateInv
<1>7. DurableInv'
  BY <1>1 DEF DurableInv
<1> QED
  BY <1>6, <1>7
-----------------------------------------------------------------------------
\* The invariant holds initially, and every step keeps it.
LEMMA InvInit == Init => Inv
<1> SUFFICES ASSUME Init PROVE Inv
  OBVIOUS
<1>1. ValidPatch(EmptyPatch) /\ DOMAIN EmptyPatch = {}
  BY SmallStored DEF ValidPatch
<1>2. UpdateInv
  <2>1. acked = EmptyPatch /\ DOMAIN acked = {}
    BY <1>1 DEF Init
  <2>2. Acked
    BY <1>1, <2>1 DEF Acked, Holds
  <2>3. Progress /\ Staged /\ Written /\ InRange
    BY <1>1, IntervalInRange
       DEF Init, Progress, Staged, Written, InRange
  <2> QED
    BY <2>2, <2>3 DEF UpdateInv
<1>3. DurableInv
  BY DEF Init, DurableInv, DurableMatchesRam
<1> QED
  BY <1>2, <1>3, TypeInit DEF Inv

LEMMA InvNext == Inv /\ [Next]_vars => Inv'
<1> SUFFICES ASSUME Inv, [Next]_vars PROVE UpdateInv' /\ DurableInv'
  BY TypeNext DEF Inv
<1>1. CASE UNCHANGED vars
  BY <1>1, QuietStep DEF vars, nvs, main, handler, Inv, UpdateInv, InRange
<1>2. CASE WarmupElapses
  BY <1>2, QuietStep DEF WarmupElapses, main, Inv, UpdateInv, InRange
<1>3. CASE Restart
  BY <1>3, RestartStep
<1>4. ASSUME NEW r \in Requests, Receive(r) PROVE UpdateInv' /\ DurableInv'
  BY <1>4, ReceiveStep
<1>5. ASSUME NEW k \in Keys, NvsFlush(k) PROVE UpdateInv' /\ DurableInv'
  BY <1>5, FlushStep
<1> QED
  BY <1>1, <1>2, <1>3, <1>4, <1>5, MainInv, HandlerInv DEF Next

\* In every reachable state, whatever the build, the payloads and the faults,
\* an update in progress is consistent with what RAM and flash hold.
THEOREM Invariance == Spec => []Inv
BY InvInit, InvNext, PTL DEF Spec

\* With a flash driver that writes no entry before nvs_commit, a restart at
\* any moment brings back exactly the settings that the firmware reports.
THEOREM RestartBringsBackRam ==
    ASSUME ~WriteThrough
    PROVE  Spec => []DurableMatchesRam
<1>1. Inv => DurableMatchesRam
  BY DEF Inv, DurableInv
<1> QED
  BY <1>1, Invariance, PTL

\* With such a driver an update that is answered apply_failed leaves nothing
\* behind in the flash: the early write of the driver is the only way in which
\* the code breaks the all-or-nothing of runtime_config.c:137.
THEOREM FailedLeavesNothing ==
    ASSUME ~WriteThrough
    PROVE  Spec => []FailedUpdateLeavesNoPersistedState
<1>1. DurableMatchesRam => FailedUpdateLeavesNoPersistedState
  BY DEF DurableMatchesRam, FailedUpdateLeavesNoPersistedState, Answered
<1> QED
  BY <1>1, RestartBringsBackRam, PTL

\* With any flash driver, a setting that an update answered ok has set survives
\* every restart, as long as no boot erases NVS, and every later command that
\* does not name it, whatever of that command fails or leaks.
THEOREM AckedSurvives ==
    ASSUME ~EraseAtBoot
    PROVE  Spec => []AckedSettingsSurvive
<1>1. Inv => AckedSettingsSurvive
  <2> SUFFICES ASSUME Inv, NEW k \in DOMAIN acked
               PROVE  /\ Stored[k] = acked[k]
                      /\ boot # "nvs" => s_state[k] = acked[k]
    BY DEF AckedSettingsSurvive
  <2>1. k \in DOMAIN flash /\ flash[k] = acked[k]
    BY DEF Inv, UpdateInv, Acked, Holds
  <2>2. k \in Supported /\ IsValid(k, flash[k])
    BY <2>1 DEF Inv, UpdateInv, Acked, ValidPatch
  <2> QED
    BY <2>1, <2>2, RestoreValid DEF Stored, Inv, UpdateInv, Acked
<1> QED
  BY <1>1, Invariance, PTL

\* What the handler gives the heartbeat setter is in its range.
LEMMA IntervalApplied ==
    Inv /\ pc = "heartbeat" => Target[HB] \in DocumentedRange[HB]
<1> SUFFICES ASSUME Inv, pc = "heartbeat" PROVE Target[HB] \in DocumentedRange[HB]
  OBVIOUS
<1>1. HB \in Keys /\ previous[HB] \in DocumentedRange[HB]
  BY DEF Keys, Inv, UpdateInv, InRange
<1>2. HB \in DOMAIN patch => patch[HB] \in DocumentedRange[HB]
  BY IntervalInRange DEF Inv, UpdateInv, Progress, ValidPatch, IsStored
<1> QED
  BY <1>1, <1>2 DEF Target, Overlay

\* The setter accepts what the handler applies.
LEMMA SetterAccepts ==
    Inv /\ pc = "heartbeat" => heartbeat_task_accepts(Target[HB])
<1> SUFFICES ASSUME Inv, pc = "heartbeat" PROVE heartbeat_task_accepts(Target[HB])
  OBVIOUS
<1>1. Target[HB] \in DocumentedRange[HB]
  BY IntervalApplied
<1>2. Target[HB] \in Nat
  BY TargetType DEF Inv, TypeInv, Keys
<1> QED
  BY <1>1, <1>2, IntervalInRange

\* What runtime_config validates and restores keeps the heartbeat setter, with
\* its own range check, from ever refusing an interval.
THEOREM HeartbeatNeverRefuses == Spec => []HeartbeatSetterNeverRefuses
<1>1. ASSUME Inv, boot = "set_interval" PROVE heartbeat_task_accepts(args[HB])
  <2>1. args[HB] \in DocumentedRange[HB]
    BY <1>1 DEF Inv, UpdateInv, InRange
  <2>2. args[HB] \in Nat
    BY <1>1 DEF Inv, TypeInv, Shape, TypeOK, IsStored
  <2> QED
    BY <2>1, <2>2, IntervalInRange
<1>2. Inv => HeartbeatSetterNeverRefuses
  BY <1>1, SetterAccepts DEF HeartbeatSetterNeverRefuses
<1> QED
  BY <1>2, Invariance, PTL

\* A value that validation accepts is in the documented range of its key.
LEMMA ValidInRange ==
    ASSUME NEW k \in Keys, NEW v \in Nat, IsValid(k, v)
    PROVE  v \in DocumentedRange[k]
<1>1. /\ IsValid(HB, v) <=> heartbeat_interval_is_valid(v)
      /\ IsValid(EN, v) <=> v <= 1
      /\ IsValid(WU, v) <=> motion_warmup_is_valid(v)
      /\ IsValid(CD, v) <=> motion_cooldown_is_valid(v)
      /\ IsValid(IR, v) <=> ir_illuminator_mode_is_valid(v)
  BY Zenon DEF IsValid, HB, EN, WU, CD, IR
<1>2. CASE k = HB
  BY <1>1, <1>2, Ranges DEF heartbeat_interval_is_valid
<1>3. CASE k = EN
  BY <1>1, <1>3, Ranges
<1>4. CASE k = WU
  <2>1. v <= WarmupMax /\ WarmupMax \in Nat
    BY <1>1, <1>4 DEF WarmupMax, motion_warmup_is_valid
  <2> QED
    BY <1>4, <2>1, Ranges
<1>5. CASE k = CD
  <2>1. v <= CooldownMax /\ CooldownMax \in Nat
    BY <1>1, <1>5 DEF CooldownMax, motion_cooldown_is_valid
  <2> QED
    BY <1>5, <2>1, Ranges
<1>6. CASE k = IR
  BY <1>1, <1>6, Ranges DEF ir_illuminator_mode_is_valid,
                           MODE_OFF, MODE_ON, MODE_CAPTURE
<1> QED
  BY <1>2, <1>3, <1>4, <1>5, <1>6 DEF Keys

\* Writing entries of the update in progress over the flash is a valid write.
LEMMA PatchWritten ==
    ASSUME Inv, NEW g,
           \A k \in DOMAIN g : k \in DOMAIN pending /\ g[k] = pending[k],
           flash' = WriteEntries(flash, g)
    PROVE  ValidWrite
<1>1. ASSUME NEW k \in DOMAIN g
      PROVE  /\ k \in DOMAIN patch /\ g[k] = patch[k]
             /\ k \in Supported /\ g[k] \in DocumentedRange[k]
  <2>1. k \in DOMAIN pending /\ g[k] = pending[k]
    BY <1>1
  <2>2. k \in DOMAIN patch /\ pending[k] = patch[k]
    BY <2>1, SmallStored DEF Inv, UpdateInv, Staged
  <2>3. k \in Keys /\ patch[k] \in Nat /\ k \in Supported /\ IsValid(k, patch[k])
    BY <2>2 DEF Inv, UpdateInv, Progress, ValidPatch, IsStored
  <2> QED
    BY <2>1, <2>2, <2>3, ValidInRange
<1>2. DOMAIN flash' = DOMAIN flash \cup DOMAIN g
  BY DEF WriteEntries
<1>3. ASSUME NEW k \in DOMAIN flash'
      PROVE  flash'[k] = IF k \in DOMAIN g THEN g[k] ELSE flash[k]
  BY <1>3 DEF WriteEntries
<1> QED
  BY <1>1, <1>2, <1>3 DEF ValidWrite

\* Nothing but what the update in progress asks for, nothing out of range and
\* nothing of a feature the build lacks, is ever written to the flash, even by
\* an update that fails halfway; and no update loses an entry of it.
THEOREM OnlyValidWrites == Spec => WritesAreValid
<1>1. Inv /\ [Next]_vars => [ValidWrite]_flash
  <2> SUFFICES ASSUME Inv, Next, flash' # flash PROVE ValidWrite
    BY DEF vars
  <2>1. CASE NvsCommit
    BY <2>1, PatchWritten DEF NvsCommit
  <2>2. ASSUME NEW k \in Keys, NvsFlush(k) PROVE ValidWrite
    <3> DEFINE one == [j \in {k} |-> pending[j]]
    <3>1. k \in DOMAIN pending /\ flash' = WriteEntries(flash, one)
      <4>1. one = [j \in {k} |-> pending[k]]
        OBVIOUS
      <4> QED
        BY <2>2, <4>1 DEF NvsFlush
    <3>2. \A j \in DOMAIN one : j \in DOMAIN pending /\ one[j] = pending[j]
      BY <3>1
    <3> HIDE DEF one
    <3> QED
      BY <3>1, <3>2, PatchWritten
  <2>3. CASE Main /\ ~NvsErase
    BY <2>3 DEF Main, RuntimeConfigInit, IrBoot, Connect, ReadHeartbeat,
                SetHeartbeat, ReadMotion, EnterStart, FinishStart, nvs
  <2>4. CASE Handler /\ ~NvsCommit
    BY <2>4 DEF Handler, EnterMotion, FinishMotion, ApplyIr, IrFails,
                ApplyHeartbeat, NvsOpen, NvsFails, Reply, Unanswered, Returned,
                NvsSet, Mirror, nvs
  <2>5. CASE NvsErase
    BY <2>5 DEF NvsErase, ValidWrite
  <2>6. CASE WarmupElapses \/ Restart \/ \E r \in Requests : Receive(r)
    BY <2>6 DEF WarmupElapses, Restart, Receive, nvs
  <2> QED
    BY <2>1, <2>2, <2>3, <2>4, <2>5, <2>6 DEF Next
<1> QED
  BY <1>1, Invariance, PTL DEF Spec, WritesAreValid
-----------------------------------------------------------------------------
(***************************************************************************)
(* The handler comes to an end.  That it is scheduled is an assumption of   *)
(* FairSpec; that it then has a finite number of steps to take, each of     *)
(* them possible, is a safety property: StepsLeft bounds the steps between  *)
(* the arrival of a command and the return of its handler, the longest way  *)
(* round included (all five settings written, committed and mirrored).      *)
(***************************************************************************)
Left(place, direction, keys) ==
    LET again == IF direction = "apply" THEN 12 ELSE 0
    IN  CASE place = "idle"      -> 0
          [] place = "reply"     -> 1
          [] place = "mirror"    -> 1 + keys
          [] place = "set"       -> 7 + keys
          [] place = "open"      -> 13
          [] place = "heartbeat" -> 2 + again
          [] place = "ir"        -> 3 + again
          [] place = "detector"  -> 4 + again
          [] place = "motion"    -> 5 + again

StepsLeft == Left(pc, phase, Cardinality(todo))

\* Where the handler walks the patch, there is a next key to take.
Ready ==
    /\ pc = "set" => todo = {} \/ \E k \in Keys : IsNext(k)
    /\ pc = "mirror" => \E k \in Keys : IsNext(k)

\* The keys still to be walked can be counted: five at most.
LEMMA KeysCounted ==
    ASSUME NEW S, S \subseteq Keys
    PROVE  /\ IsFiniteSet(S) /\ Cardinality(S) \in 0..5
           /\ \A k \in S : Cardinality(S \ {k}) = Cardinality(S) - 1
<1>1. IsFiniteSet(Keys) /\ Cardinality(Keys) <= 5
  <2>1. Keys = {HB} \cup {EN} \cup {WU} \cup {CD} \cup {IR}
    BY DEF Keys
  <2> DEFINE K1 == {HB}
             K2 == K1 \cup {EN}
             K3 == K2 \cup {WU}
             K4 == K3 \cup {CD}
             K5 == K4 \cup {IR}
  <2>2. ASSUME NEW T, NEW x, IsFiniteSet(T)
        PROVE  /\ IsFiniteSet(T \cup {x}) /\ Cardinality(T \cup {x}) \in Nat
               /\ Cardinality(T \cup {x}) <= Cardinality(T) + 1
    <3>1. Cardinality(T) \in Nat
      BY <2>2, FS_CardinalityType
    <3>2. /\ IsFiniteSet(T \cup {x})
          /\ \/ Cardinality(T \cup {x}) = Cardinality(T)
             \/ Cardinality(T \cup {x}) = Cardinality(T) + 1
      BY <2>2, FS_AddElement
    <3> QED
      BY <3>1, <3>2
  <2>3. IsFiniteSet(K1) /\ Cardinality(K1) = 1
    BY FS_Singleton
  <2>4. /\ IsFiniteSet(K2) /\ Cardinality(K2) \in Nat
        /\ Cardinality(K2) <= Cardinality(K1) + 1
    BY <2>2, <2>3
  <2>5. /\ IsFiniteSet(K3) /\ Cardinality(K3) \in Nat
        /\ Cardinality(K3) <= Cardinality(K2) + 1
    BY <2>2, <2>4
  <2>6. /\ IsFiniteSet(K4) /\ Cardinality(K4) \in Nat
        /\ Cardinality(K4) <= Cardinality(K3) + 1
    BY <2>2, <2>5
  <2>7. /\ IsFiniteSet(K5) /\ Cardinality(K5) \in Nat
        /\ Cardinality(K5) <= Cardinality(K4) + 1
    BY <2>2, <2>6
  <2>8. Keys = K5
    BY <2>1
  <2> HIDE DEF K1, K2, K3, K4, K5
  <2> QED
    BY <2>3, <2>4, <2>5, <2>6, <2>7, <2>8
<1>2. /\ IsFiniteSet(S) /\ Cardinality(S) \in Nat
      /\ Cardinality(Keys) \in Nat /\ Cardinality(S) <= Cardinality(Keys)
  BY <1>1, FS_Subset, FS_CardinalityType
<1>3. \A k \in S : Cardinality(S \ {k}) = Cardinality(S) - 1
  BY <1>2, FS_RemoveElement
<1> QED
  BY <1>1, <1>2, <1>3

\* A walk that has not ended has a next key, whatever the patch names.
LEMMA NextKey ==
    ASSUME todo \subseteq Keys, todo # {}
    PROVE  \E k \in Keys : IsNext(k)
<1>1. /\ Rank[HB] = 1 /\ Rank[EN] = 2 /\ Rank[WU] = 3
      /\ Rank[CD] = 4 /\ Rank[IR] = 5
  BY DEF Rank, Keys, HB, EN, WU, CD, IR
<1>2. CASE HB \in todo
  BY <1>1, <1>2 DEF IsNext, Keys
<1>3. CASE HB \notin todo /\ EN \in todo
  BY <1>1, <1>3 DEF IsNext, Keys
<1>4. CASE HB \notin todo /\ EN \notin todo /\ WU \in todo
  BY <1>1, <1>4 DEF IsNext, Keys
<1>5. CASE HB \notin todo /\ EN \notin todo /\ WU \notin todo /\ CD \in todo
  BY <1>1, <1>5 DEF IsNext, Keys
<1>6. CASE todo = {IR}
  BY <1>1, <1>6 DEF IsNext, Keys
<1> QED
  BY <1>2, <1>3, <1>4, <1>5, <1>6 DEF Keys

\* What Left is at each place.
LEMMA Places ==
    ASSUME NEW n
    PROVE  /\ \A d : /\ Left("idle", d, n) = 0 /\ Left("reply", d, n) = 1
                     /\ Left("mirror", d, n) = 1 + n /\ Left("set", d, n) = 7 + n
                     /\ Left("open", d, n) = 13
           /\ /\ Left("heartbeat", "apply", n) = 14 /\ Left("ir", "apply", n) = 15
              /\ Left("detector", "apply", n) = 16 /\ Left("motion", "apply", n) = 17
           /\ /\ Left("heartbeat", "rollback", n) = 2 /\ Left("ir", "rollback", n) = 3
              /\ Left("detector", "rollback", n) = 4 /\ Left("motion", "rollback", n) = 5
BY DEF Left

\* Seventeen steps at most are ever left.
LEMMA Bounded == Inv => StepsLeft \in 0..17
<1> SUFFICES ASSUME Inv PROVE StepsLeft \in 0..17
  OBVIOUS
<1>1. /\ phase \in {"apply", "rollback"} /\ todo \subseteq Keys
      /\ pc \in {"idle", "motion", "detector", "ir", "heartbeat", "open", "set",
                 "mirror", "reply"}
  BY DEF Inv, TypeInv, TypeOK
<1>2. Cardinality(todo) \in 0..5
  BY <1>1, KeysCounted
<1> QED
  BY <1>1, <1>2, Places DEF StepsLeft

\* Every step of the handler, a failing one too, leaves fewer of them.
LEMMA StepTaken == Inv /\ Handler => StepsLeft' < StepsLeft
<1> SUFFICES ASSUME Inv, Handler PROVE StepsLeft' < StepsLeft
  OBVIOUS
<1>1. /\ phase \in {"apply", "rollback"}
      /\ todo \subseteq Keys /\ DOMAIN patch \subseteq Keys
      /\ pc \in {"open", "set", "mirror"} => phase = "apply"
  BY DEF Inv, TypeInv, TypeOK, UpdateInv, Progress, IsStored
<1>2. Cardinality(todo) \in 0..5 /\ Cardinality(DOMAIN patch) \in 0..5
  BY <1>1, KeysCounted
<1>3. StepsLeft' = Left(pc', phase', Cardinality(todo'))
  BY DEF StepsLeft
<1>4. CASE EnterMotion
  BY <1>1, <1>3, <1>4, Places DEF StepsLeft, EnterMotion
<1>5. CASE FinishMotion
  BY <1>1, <1>3, <1>5, Places DEF StepsLeft, FinishMotion
<1>6. CASE ApplyIr
  BY <1>1, <1>3, <1>6, Places DEF StepsLeft, ApplyIr
<1>7. CASE IrFails
  BY <1>1, <1>3, <1>7, Places DEF StepsLeft, IrFails, StepFails
<1>8. CASE ApplyHeartbeat
  <2>1. /\ pc = "heartbeat" /\ phase' = phase
        /\ pc' = (IF phase = "apply" THEN "open" ELSE "reply")
    BY <1>8, SetterAccepts DEF ApplyHeartbeat
  <2> QED
    BY <1>1, <1>3, <2>1, Places DEF StepsLeft
<1>9. CASE NvsOpen
  BY <1>1, <1>2, <1>3, <1>9, Places DEF StepsLeft, NvsOpen
<1>10. CASE NvsCommit
  <2>1. Cardinality(todo) = 0
    BY <1>10, FS_EmptySet DEF NvsCommit
  <2>2. /\ pc = "set" /\ pc' = "mirror" /\ todo' = DOMAIN patch
    BY <1>10 DEF NvsCommit
  <2>3. StepsLeft = 7 /\ StepsLeft' = 1 + Cardinality(DOMAIN patch)
    BY <1>3, <2>1, <2>2, Places DEF StepsLeft
  <2> QED
    BY <1>2, <2>3
<1>11. CASE NvsFails
  BY <1>1, <1>2, <1>3, <1>11, Places DEF StepsLeft, NvsFails, StepFails
<1>12. CASE Reply
  BY <1>3, <1>12, Places DEF StepsLeft, Reply, Returned
<1>13. ASSUME NEW k \in Keys, NvsSet(k) PROVE StepsLeft' < StepsLeft
  <2>1. /\ pc = "set" /\ pc' = "set" /\ k \in todo /\ todo' = todo \ {k}
    BY <1>13 DEF NvsSet, IsNext
  <2>2. Cardinality(todo') = Cardinality(todo) - 1
    BY <1>1, <2>1, KeysCounted
  <2>3. StepsLeft = 7 + Cardinality(todo) /\ StepsLeft' = 7 + Cardinality(todo')
    BY <1>3, <2>1, Places DEF StepsLeft
  <2> QED
    BY <1>2, <2>2, <2>3
<1>14. ASSUME NEW k \in Keys, Mirror(k) PROVE StepsLeft' < StepsLeft
  <2>1. /\ pc = "mirror" /\ pc' \in {"mirror", "reply"}
        /\ k \in todo /\ todo' = todo \ {k}
    BY <1>14 DEF Mirror, IsNext
  <2>2. Cardinality(todo') = Cardinality(todo) - 1 /\ Cardinality(todo') \in 0..5
    BY <1>1, <2>1, KeysCounted
  <2> QED
    BY <1>2, <1>3, <2>1, <2>2, Places DEF StepsLeft
<1>15. CASE Unanswered
  BY <1>3, <1>15, Places DEF StepsLeft, Unanswered, Returned
<1> QED
  BY <1>4, <1>5, <1>6, <1>7, <1>8, <1>9, <1>10, <1>11, <1>12, <1>13, <1>14, <1>15
     DEF Handler

\* Nobody else adds to them: an arrival finds the handler idle.
LEMMA StepsLeftAlone ==
    Next /\ ~Handler /\ pc # "idle" => StepsLeft' \in {0, StepsLeft}
<1>1. CASE Main
  BY <1>1 DEF Main, NvsErase, RuntimeConfigInit, IrBoot, Connect, ReadHeartbeat,
              SetHeartbeat, ReadMotion, EnterStart, FinishStart, handler, StepsLeft
<1>2. CASE WarmupElapses \/ \E k \in Keys : NvsFlush(k)
  BY <1>2 DEF WarmupElapses, NvsFlush, handler, StepsLeft
<1>3. CASE Restart
  BY <1>3, Places DEF Restart, StepsLeft
<1>4. ASSUME NEW r \in Requests, Receive(r) PROVE pc = "idle"
  BY <1>4 DEF Receive
<1> QED
  BY <1>1, <1>2, <1>3, <1>4 DEF Next

\* From its arrival a command takes the handler seventeen steps at most to its
\* return, with a reply or without one, whatever
\* the patch and whatever of the update or of its rollback fails; no step of
\* another task adds to them, a restart takes them all; and wherever the handler
\* is, nothing keeps it from its next step.
THEOREM HandlerEnds ==
    Spec => /\ [](StepsLeft \in 0..17 /\ Ready)
            /\ [][IF Handler THEN StepsLeft' < StepsLeft
                  ELSE pc # "idle" => StepsLeft' \in {0, StepsLeft}]_vars
<1>1. Inv => StepsLeft \in 0..17 /\ Ready
  BY Bounded, NextKey DEF Ready, Inv, TypeInv, TypeOK, UpdateInv, Progress
<1>2. Inv /\ [Next]_vars => [IF Handler THEN StepsLeft' < StepsLeft
                             ELSE pc # "idle" => StepsLeft' \in {0, StepsLeft}]_vars
  BY StepTaken, StepsLeftAlone
<1> QED
  BY <1>1, <1>2, Invariance, PTL DEF Spec
-----------------------------------------------------------------------------
(***************************************************************************)
(* The whole path of a cmd/config update implements the store of            *)
(* ConfigStore: leaky when the flash driver may write before nvs_commit,    *)
(* erasable when a boot may erase NVS, and otherwise neither.               *)
(***************************************************************************)

\* The pure operators of the abstract store are those of RuntimeConfig.
LEMMA SameOperators ==
    /\ Store!EmptyPatch = EmptyPatch
    /\ \A c, p : Store!Overlay(c, p) = Overlay(c, p)
    /\ \A r : Store!ParseAndValidate(r) = ParseAndValidate(r)
    /\ \A f : Store!Restore(f) = Restore(f)
<1>1. /\ Store!HB = HB /\ Store!EN = EN /\ Store!WU = WU
      /\ Store!CD = CD /\ Store!IR = IR
      /\ Store!MotionKeys = MotionKeys /\ Store!Keys = Keys
      /\ Store!EmptyPatch = EmptyPatch
  BY DEF HB, EN, WU, CD, IR, MotionKeys, Keys, EmptyPatch,
         Store!HB, Store!EN, Store!WU, Store!CD, Store!IR,
         Store!MotionKeys, Store!Keys, Store!EmptyPatch
<1>2. ASSUME NEW c, NEW p PROVE Store!Overlay(c, p) = Overlay(c, p)
  BY <1>1 DEF Overlay, Store!Overlay
<1>3. ASSUME NEW k, NEW v PROVE Store!IsValid(k, v) = IsValid(k, v)
  BY <1>1 DEF IsValid, heartbeat_interval_is_valid, motion_warmup_is_valid,
              motion_cooldown_is_valid, ir_illuminator_mode_is_valid,
              MODE_OFF, MODE_ON, MODE_CAPTURE,
              Store!IsValid, Store!heartbeat_interval_is_valid,
              Store!motion_warmup_is_valid, Store!motion_cooldown_is_valid,
              Store!ir_illuminator_mode_is_valid,
              Store!MODE_OFF, Store!MODE_ON, Store!MODE_CAPTURE
<1>4. ASSUME NEW p PROVE Store!ValidatePatch(p) = ValidatePatch(p)
  BY <1>1, <1>3 DEF ValidatePatch, Store!ValidatePatch
<1>5. ASSUME NEW r PROVE Store!ParseAndValidate(r) = ParseAndValidate(r)
  BY <1>4 DEF ParseAndValidate, Store!ParseAndValidate
<1>6. ASSUME NEW f PROVE Store!Restore(f) = Restore(f)
  <2>1. ASSUME NEW k PROVE Store!RestoreKey(f, k) = RestoreKey(f, k)
    BY <1>1, <1>3 DEF RestoreKey, Store!RestoreKey
  <2> QED
    BY <1>1, <2>1 DEF Restore, Store!Restore
<1> QED
  BY <1>1, <1>2, <1>5, <1>6

CurrentAnswer == IF ~reply.sent THEN "none" ELSE IF reply.ok THEN "ok" ELSE "failed"

\* The first power-on is an initial state of the store.
LEMMA RefineInit == Init => Store!Init
<1> SUFFICES ASSUME Init PROVE Store!Init
  OBVIOUS
<1>1. Stored \in {Restore(f) : f \in InitialFlash}
  BY DEF Init, Stored
<1>2. Client = "idle" /\ patch = Store!EmptyPatch
  BY SameOperators DEF Init, Client
<1>3. ~reply.sent
  BY DEF Init, NoReply
<1> QED
  BY <1>1, <1>2, <1>3 DEF Store!Init

\* The commit is the abstract commit of the whole patch, whichever entries of
\* it are in the flash already.
LEMMA CommitOverlays ==
    ASSUME Inv, NvsCommit
    PROVE  Stored' = Overlay(Stored, patch)
<1>1. /\ pc = "set" /\ todo = {} /\ ValidPatch(patch)
      /\ flash' = WriteEntries(flash, pending)
  BY DEF NvsCommit, Inv, UpdateInv, Progress
<1>2. /\ DOMAIN pending \subseteq DOMAIN patch
      /\ \A k \in DOMAIN pending : pending[k] = patch[k]
      /\ \A k \in DOMAIN patch \ DOMAIN pending :
            k \in DOMAIN flash /\ flash[k] = patch[k]
  BY <1>1 DEF Inv, UpdateInv, Staged
<1>3. /\ \A k \in DOMAIN patch : k \in DOMAIN flash' /\ flash'[k] = patch[k]
      /\ \A k \in Keys \ DOMAIN patch :
            /\ k \in DOMAIN flash' <=> k \in DOMAIN flash
            /\ k \in DOMAIN flash => flash'[k] = flash[k]
  BY <1>1, <1>2 DEF WriteEntries
<1> QED
  BY <1>1, <1>3, RestoreHolding DEF Stored

\* An entry that the flash driver writes early is an abstract leak.
LEMMA FlushLeaks ==
    ASSUME Inv, NEW k \in Keys, NvsFlush(k)
    PROVE  Store!Leak
<1>1. /\ WriteThrough /\ k \in DOMAIN pending
      /\ flash' = WriteEntries(flash, [j \in {k} |-> pending[k]])
      /\ UNCHANGED <<pc, err, patch, reply>>
  BY DEF NvsFlush, handler
<1>2. pc = "set"
  BY <1>1, SmallStored DEF Inv, UpdateInv, Staged
<1>3. k \in DOMAIN patch /\ pending[k] = patch[k] /\ ValidPatch(patch)
  BY <1>1, <1>2 DEF Inv, UpdateInv, Staged, Progress
<1> DEFINE one == [j \in {k} |-> patch[k]]
<1>4. ValidPatch(one)
  <2>1. patch[k] \in Nat /\ IsStored(one)
    BY <1>3, SmallStored DEF ValidPatch, IsStored
  <2> QED
    BY <1>3, <2>1 DEF ValidPatch
<1>5. flash' = WriteEntries(flash, one)
  BY <1>1, <1>3
<1> HIDE DEF one
<1>6. Stored' = Store!Overlay(Stored, one)
  BY <1>4, <1>5, RestoreAfterWrite, SameOperators DEF Stored
<1>7. Client = "pending" /\ UNCHANGED <<Client, patch, CurrentAnswer>>
  BY <1>1, <1>2 DEF Client, CurrentAnswer
<1> QED
  BY <1>1, <1>3, <1>6, <1>7 DEF Store!Leak, one, CurrentAnswer

\* The erase of a boot is the abstract erase.
LEMMA EraseErases ==
    ASSUME Inv, NvsErase
    PROVE  Store!Erase
<1>1. /\ EraseAtBoot /\ pc = "idle" /\ flash' = EmptyPatch
      /\ UNCHANGED <<pc, err, patch, reply>>
  BY DEF NvsErase, handler, Inv, UpdateInv, Progress
<1>2. Stored' = Store!Restore(Store!EmptyPatch)
  BY <1>1, SameOperators DEF Stored
<1>3. Client = "idle" /\ Client' = "idle"
  BY <1>1 DEF Client
<1> QED
  BY <1>1, <1>2, <1>3 DEF Store!Erase

\* Every step that neither takes a command, nor commits, nor answers, nor
\* restarts is invisible to the client and to the flash.
LEMMA HiddenStep ==
    ASSUME Inv, UNCHANGED <<flash, patch, reply>>,
           \/ UNCHANGED <<pc, err>>
           \/ /\ pc \in {"motion", "detector", "ir", "heartbeat", "open", "set"}
              /\ \/ pc' \in {"motion", "detector", "ir", "heartbeat", "open", "set"}
                 \/ pc' = "reply" /\ err' = "FAIL"
           \/ pc = "mirror" /\ pc' \in {"mirror", "reply"} /\ UNCHANGED err
    PROVE  UNCHANGED <<Stored, Client, patch, CurrentAnswer>>
<1>1. pc = "mirror" => err = "OK" /\ DOMAIN patch # {}
  BY DEF Inv, UpdateInv, Progress, TypeInv, TypeOK
<1>2. UNCHANGED Client
  BY <1>1 DEF Client
<1> QED
  BY <1>2 DEF Stored, CurrentAnswer

\* What the handler does between the arrival of a command and its reply.
LEMMA HandlerHidden ==
    ASSUME Inv, Handler, ~NvsCommit, ~Reply, ~Unanswered
    PROVE  UNCHANGED <<Stored, Client, patch, CurrentAnswer>>
<1>1. phase = "rollback" => err = "FAIL"
  BY DEF Inv, UpdateInv, Progress
<1>2. phase \in {"apply", "rollback"}
  BY DEF Inv, TypeInv, TypeOK
<1>3. CASE EnterMotion
  BY <1>3, HiddenStep DEF EnterMotion, nvs
<1>4. CASE FinishMotion
  BY <1>4, HiddenStep DEF FinishMotion, nvs
<1>5. CASE ApplyIr
  BY <1>5, HiddenStep DEF ApplyIr, nvs
<1>6. CASE IrFails
  BY <1>6, HiddenStep DEF IrFails, StepFails, nvs
<1>7. CASE ApplyHeartbeat
  BY <1>1, <1>2, <1>7, HiddenStep DEF ApplyHeartbeat, StepFails, nvs
<1>8. CASE NvsOpen
  BY <1>8, HiddenStep DEF NvsOpen, nvs
<1>9. CASE NvsFails
  BY <1>9, HiddenStep DEF NvsFails, StepFails
<1>10. ASSUME NEW k \in Keys, NvsSet(k)
       PROVE  UNCHANGED <<Stored, Client, patch, CurrentAnswer>>
  BY <1>10, HiddenStep DEF NvsSet
<1>11. ASSUME NEW k \in Keys, Mirror(k)
       PROVE  UNCHANGED <<Stored, Client, patch, CurrentAnswer>>
  BY <1>11, HiddenStep DEF Mirror, nvs
<1> QED
  BY <1>3, <1>4, <1>5, <1>6, <1>7, <1>8, <1>9, <1>10, <1>11 DEF Handler

\* A command arrives.
LEMMA ReceiveSubmits ==
    ASSUME Inv, NEW r \in Requests, Receive(r)
    PROVE  Store!Submit
<1>1. Client = "idle"
  BY DEF Receive, Client
<1>2. Client' = "pending"
  <2>1. pc' \in {"motion", "reply"}
    BY DEF Receive
  <2>2. pc' = "reply" => err' # "OK" \/ DOMAIN patch' = {}
    BY AcceptedValid DEF Receive
  <2> QED
    BY <2>1, <2>2 DEF Client
<1>3. patch' = IF Store!ParseAndValidate(r) = "OK" THEN r ELSE Store!EmptyPatch
  BY SameOperators DEF Receive, Accepted
<1>4. ~reply'.sent /\ Stored' = Stored
  BY DEF Receive, NoReply, Stored, nvs
<1> QED
  BY <1>1, <1>2, <1>3, <1>4 DEF Store!Submit

\* The reply is one of the two answers of the store, and it answers ok only
\* when the update is committed or asks for nothing.
LEMMA ReplyAnswers ==
    ASSUME Inv, Reply
    PROVE  Store!AnswerOk \/ Store!AnswerFailed
<1>1. /\ Client' = "idle" /\ patch' = Store!EmptyPatch /\ Stored' = Stored
      /\ reply'.sent /\ reply'.ok = (err = "OK")
  BY SameOperators DEF Reply, Returned, Client, Stored, nvs
<1>2. CASE err # "OK"
  <2>1. Client = "pending"
    BY <1>2 DEF Reply, Client
  <2> QED
    BY <1>1, <1>2, <2>1 DEF Store!AnswerFailed
<1>3. CASE err = "OK" /\ DOMAIN patch # {}
  <2>1. Client = "applied"
    BY <1>3 DEF Reply, Client
  <2> QED
    BY <1>1, <1>3, <2>1 DEF Store!AnswerOk
<1>4. CASE err = "OK" /\ DOMAIN patch = {}
  <2>1. Client = "pending"
    BY <1>4 DEF Reply, Client
  <2>2. patch = EmptyPatch
    <3>1. patch \in [DOMAIN patch -> Nat]
      BY DEF Inv, TypeInv, TypeOK, IsStored
    <3> QED
      BY <1>4, <3>1 DEF EmptyPatch
  <2> QED
    BY <1>1, <1>4, <2>1, <2>2, SameOperators DEF Store!AnswerOk
<1> QED
  BY <1>2, <1>3, <1>4

\* Every step is a step of the store, or leaves it as it is.
LEMMA RefineNext == Inv /\ [Next]_vars => [Store!Next]_(Store!vars)
<1> SUFFICES ASSUME Inv, [Next]_vars
             PROVE  Store!Next \/ UNCHANGED <<Stored, Client, patch, CurrentAnswer>>
  BY DEF Store!vars, CurrentAnswer
<1>1. CASE UNCHANGED vars
  BY <1>1, HiddenStep DEF vars
<1>2. CASE Main /\ ~NvsErase
  BY <1>2, HiddenStep
     DEF Main, RuntimeConfigInit, IrBoot, Connect, ReadHeartbeat, SetHeartbeat,
         ReadMotion, EnterStart, FinishStart, nvs, handler
<1>3. CASE NvsCommit
  <2>1. Client = "pending" /\ Client' = "applied"
    BY <1>3 DEF NvsCommit, Client
  <2>2. Stored' = Store!Overlay(Stored, patch)
    BY <1>3, CommitOverlays, SameOperators
  <2>3. UNCHANGED <<patch, reply>>
    BY <1>3 DEF NvsCommit
  <2> QED
    BY <2>1, <2>2, <2>3 DEF Store!Commit, Store!Next
<1>4. CASE Reply
  BY <1>4, ReplyAnswers DEF Store!Next
<1>5. CASE Handler /\ ~NvsCommit /\ ~Reply /\ ~Unanswered
  BY <1>5, HandlerHidden
<1>6. CASE WarmupElapses
  BY <1>6, HiddenStep DEF WarmupElapses, nvs, handler
<1>7. CASE Restart
  <2>1. /\ Client' = "idle" /\ patch' = Store!EmptyPatch
        /\ UNCHANGED <<Stored, reply>>
    BY <1>7, SameOperators DEF Restart, Client, Stored
  <2> QED
    BY <2>1 DEF Store!Crash, Store!Next
<1>8. ASSUME NEW r \in Requests, Receive(r) PROVE Store!Next
  BY <1>8, ReceiveSubmits DEF Store!Next
<1>9. ASSUME NEW k \in Keys, NvsFlush(k) PROVE Store!Next
  BY <1>9, FlushLeaks DEF Store!Next
<1>10. CASE NvsErase
  BY <1>10, EraseErases DEF Store!Next
<1>11. CASE Unanswered
  <2>1. /\ Client' = "idle" /\ patch' = Store!EmptyPatch
        /\ UNCHANGED <<Stored, reply>>
    BY <1>11, SameOperators DEF Unanswered, Returned, Client, Stored, nvs
  <2> QED
    BY <2>1 DEF Store!Crash, Store!Next
<1> QED
  BY <1>1, <1>2, <1>3, <1>4, <1>5, <1>6, <1>7, <1>8, <1>9, <1>10, <1>11 DEF Next

\* One cmd/config update is one step of the persisted settings: through any
\* interleaving with app_main, any failure, a reply that is never sent and any
\* restart, the firmware implements the store of ConfigStore, which leaks only
\* if the flash driver does and is erased only if a boot erases NVS.
THEOREM ImplementsStore == Spec => StoreSpec
BY RefineInit, RefineNext, Invariance, PTL DEF Spec, StoreSpec, Store!Spec
-----------------------------------------------------------------------------
(***************************************************************************)
(* What the services run with when a command is answered.  Once app_main    *)
(* has finished, the handler is alone with them, and at each of its points  *)
(* the services it has passed are as the configuration it applies says.     *)
(***************************************************************************)
DetectorIs(l, c) == HasMotion => (l.detector # "off" <=> c[EN] = 1)
TimedAs(l, c) == HasMotion => l.warmup_ms = c[WU] /\ l.cooldown_ms = c[CD]
LitAs(l, c) == HasIr => l.output_on = ShouldBeOn(c[IR])
BeatsAs(l, c) == l.interval_s = c[HB]

\* What the handler has brought about when it is at each point.
Reached ==
    /\ boot = "running"
    /\ pc \in {"detector", "ir", "heartbeat"} => TimedAs(live, Target)
    /\ pc = "detector" /\ HasMotion => (was["mqtt"] <=> live.detector # "off")
    /\ pc \in {"ir", "heartbeat"} => DetectorIs(live, Target)
    /\ pc = "heartbeat" => LitAs(live, Target)
    /\ pc \in {"open", "set", "mirror"} => LiveMatches(live, Overlay(previous, patch))
    /\ pc = "reply" /\ err = "OK" /\ DOMAIN patch # {} =>
          LiveMatches(live, Overlay(previous, patch))

\* The snapshot is still what the getters return, but for what was mirrored.
Snapshot ==
    /\ s_state[EN] \in 0..1 /\ previous[EN] \in 0..1
    /\ pc # "idle" =>
          \A k \in Keys :
             k \notin DOMAIN patch \/ ~(pc = "mirror" \/ (pc = "reply" /\ err = "OK"))
                => Getters(s_state)[k] = previous[k]

\* What the patch does not name is as the snapshot has it, if it was before.
Kept ==
    Calm /\ pc # "idle" /\ LiveMatches(before.live, previous) =>
        /\ EN \notin DOMAIN patch => DetectorIs(live, previous)
        /\ IR \notin DOMAIN patch => LitAs(live, previous)
        /\ HB \notin DOMAIN patch => BeatsAs(live, previous)

Dark == ~HasIr => live.output_on = FALSE

\* A command still in the handler has no reply yet.
Told == AcceptedUpdateIsLive /\ (pc # "idle" => ~reply.sent)

LiveInv == Snapshot /\ Dark /\ (Calm => Reached) /\ Kept /\ Told

\* The settings a service looks at decide whether it runs with them.
LEMMA Matches ==
    ASSUME NEW l, NEW c
    PROVE  LiveMatches(l, c) <=>
              /\ BeatsAs(l, c) /\ DetectorIs(l, c) /\ TimedAs(l, c) /\ LitAs(l, c)
BY Zenon DEF LiveMatches, BeatsAs, DetectorIs, TimedAs, LitAs

LEMMA SameSettings ==
    ASSUME NEW l, NEW c, NEW d, \A k \in Keys : c[k] = d[k]
    PROVE  /\ BeatsAs(l, c) <=> BeatsAs(l, d)
           /\ DetectorIs(l, c) <=> DetectorIs(l, d)
           /\ TimedAs(l, c) <=> TimedAs(l, d)
           /\ LitAs(l, c) <=> LitAs(l, d)
           /\ LiveMatches(l, c) <=> LiveMatches(l, d)
<1>1. c[HB] = d[HB] /\ c[EN] = d[EN] /\ c[WU] = d[WU] /\ c[CD] = d[CD] /\ c[IR] = d[IR]
  BY DEF Keys
<1>2. /\ BeatsAs(l, c) <=> BeatsAs(l, d)
      /\ DetectorIs(l, c) <=> DetectorIs(l, d)
      /\ TimedAs(l, c) <=> TimedAs(l, d)
      /\ LitAs(l, c) <=> LitAs(l, d)
  BY <1>1, Zenon DEF BeatsAs, DetectorIs, TimedAs, LitAs
<1> QED
  BY <1>2, Matches

\* Each looks at its own part of the services only.
SameTiming(m, l) == m.warmup_ms = l.warmup_ms /\ m.cooldown_ms = l.cooldown_ms

LEMMA OwnPart ==
    ASSUME NEW l, NEW m, NEW c
    PROVE  /\ m.interval_s = l.interval_s => (BeatsAs(m, c) <=> BeatsAs(l, c))
           /\ m.detector = l.detector => (DetectorIs(m, c) <=> DetectorIs(l, c))
           /\ SameTiming(m, l) => (TimedAs(m, c) <=> TimedAs(l, c))
           /\ m.output_on = l.output_on => (LitAs(m, c) <=> LitAs(l, c))
BY Zenon DEF BeatsAs, DetectorIs, TimedAs, LitAs, SameTiming

\* What is being applied is the snapshot but for what the patch names, and its
\* switch is one.
LEMMA TargetIs ==
    ASSUME Inv, Snapshot
    PROVE  /\ Target[EN] \in 0..1
           /\ \A k \in Keys \ DOMAIN patch : Target[k] = previous[k]
<1>1. EN \in Keys
  BY DEF Keys
<1>2. EN \in DOMAIN patch => patch[EN] \in 0..1
  <2>1. EN \in DOMAIN patch => patch[EN] \in Nat /\ IsValid(EN, patch[EN])
    BY DEF Inv, UpdateInv, Progress, ValidPatch, IsStored
  <2>2. ASSUME NEW v \in Nat, IsValid(EN, v) PROVE v \in 0..1
    <3>1. IsValid(EN, v) <=> v <= 1
      BY Zenon DEF IsValid, HB, EN, WU, CD, IR
    <3> QED
      BY <2>2, <3>1
  <2> QED
    BY <2>1, <2>2
<1>3. \A k \in Keys : Overlay(previous, patch)[k] =
                         IF k \in DOMAIN patch THEN patch[k] ELSE previous[k]
  BY DEF Overlay
<1> QED
  BY <1>1, <1>2, <1>3 DEF Target, Snapshot

-----------------------------------------------------------------------------
(***************************************************************************)
(* Steps outside the handler.                                               *)
(***************************************************************************)

\* A step that changes neither the services nor what the handler is about.
LEMMA LiveQuiet ==
    ASSUME LiveInv, UNCHANGED <<s_state, live, boot, was, handler>>
    PROVE  LiveInv'
BY DEF LiveInv, Snapshot, Dark, Calm, Reached, Target, Kept, Told, AcceptedUpdateIsLive,
       Answered, handler, LiveMatches, DetectorIs, TimedAs, LitAs, BeatsAs

\* Restoring, or a restart, leaves a switch that is one.
LEMMA SwitchRestored ==
    /\ Defaults[EN] \in 0..1
    /\ \A f : IsStored(f) => Restore(f)[EN] \in 0..1
<1>1. EN \in Keys
  BY DEF Keys
<1>2. Defaults[EN] \in 0..1
  BY <1>1, Ranges, RuntimeConfigAssumption DEF Config
<1>3. ASSUME NEW f, IsStored(f) PROVE Restore(f)[EN] \in 0..1
  <2>1. ASSUME EN \in DOMAIN f, IsValid(EN, f[EN]) PROVE f[EN] \in 0..1
    <3>1. IsValid(EN, f[EN]) <=> f[EN] <= 1
      BY Zenon DEF IsValid, HB, EN, WU, CD, IR
    <3>2. f[EN] \in Nat
      BY <1>3, <2>1 DEF IsStored
    <3> QED
      BY <2>1, <3>1, <3>2
  <2>2. Restore(f)[EN] = RestoreKey(f, EN)
    BY <1>1 DEF Restore
  <2> QED
    BY <1>2, <2>1, <2>2 DEF RestoreKey
<1> QED
  BY <1>2, <1>3

\* app_main has finished when the handler's claims count.
LEMMA LiveMain == Inv /\ LiveInv /\ Main => LiveInv'
<1> SUFFICES ASSUME Inv, LiveInv, Main PROVE LiveInv'
  OBVIOUS
<1>1. boot # "running" /\ UNCHANGED handler
  BY DEF Main, NvsErase, RuntimeConfigInit, IrBoot, Connect, ReadHeartbeat, SetHeartbeat,
         ReadMotion, EnterStart, FinishStart
<1>2. ~Calm /\ ~Calm'
  BY <1>1 DEF LiveInv, Reached, Calm, handler
<1>3. Kept' /\ Told'
  BY <1>1, <1>2 DEF LiveInv, Kept, Told, AcceptedUpdateIsLive, handler
<1>4. Snapshot'
  <2>1. CASE RuntimeConfigInit
    <3>1. pc' = "idle" /\ previous' = previous
      BY <1>1, <2>1 DEF Inv, UpdateInv, Progress, RuntimeConfigInit, handler
    <3>2. s_state' = Restore(flash) /\ IsStored(flash)
      BY <2>1 DEF RuntimeConfigInit, Inv, TypeInv, TypeOK
    <3>3. s_state'[EN] \in 0..1 /\ previous[EN] \in 0..1
      BY <3>2, SwitchRestored DEF LiveInv, Snapshot
    <3> QED
      BY <3>1, <3>3 DEF Snapshot
  <2>2. CASE s_state' = s_state
    BY <1>1, <2>2 DEF LiveInv, Snapshot, handler
  <2> QED
    BY <2>1, <2>2 DEF Main, NvsErase, IrBoot, Connect, ReadHeartbeat, SetHeartbeat,
         ReadMotion, EnterStart, FinishStart
<1>5. Dark'
  <2> SUFFICES ASSUME ~HasIr PROVE live'.output_on = FALSE
    BY DEF Dark
  <2>1. live \in Live /\ live.output_on = FALSE
    BY DEF LiveInv, Dark, Inv, TypeInv, TypeOK
  <2>2. CASE IrBoot
    <3>1. live' = [live EXCEPT !.output_on = FALSE]
      BY <2>2, Zenon DEF IrBoot
    <3> QED
      BY <2>1, <3>1 DEF Live
  <2>3. CASE live' = live
    BY <2>1, <2>3
  <2>4. CASE Connect
    BY <2>1, <2>4 DEF Connect, Live
  <2>5. CASE SetHeartbeat
    BY <2>1, <2>5 DEF SetHeartbeat, Live
  <2>6. CASE EnterStart
    BY <2>1, <2>6 DEF EnterStart, EnterDetector, Live
  <2>7. CASE FinishStart
    BY <2>1, <2>7 DEF FinishStart, LeaveDetector, Live
  <2> QED
    BY <2>2, <2>3, <2>4, <2>5, <2>6, <2>7
       DEF Main, NvsErase, RuntimeConfigInit, ReadHeartbeat, ReadMotion
<1> QED
  BY <1>2, <1>3, <1>4, <1>5 DEF LiveInv

LEMMA LiveRestart == Restart => LiveInv'
<1> SUFFICES ASSUME Restart PROVE LiveInv'
  OBVIOUS
<1>1. pc' = "idle" /\ ~Calm'
  BY DEF Restart, Calm
<1>2. s_state'[EN] \in 0..1 /\ previous'[EN] \in 0..1
  BY SwitchRestored DEF Restart
<1>3. live'.output_on = FALSE
  BY DEF Restart, ColdLive
<1> QED
  BY <1>1, <1>2, <1>3
     DEF LiveInv, Snapshot, Dark, Kept, Told, AcceptedUpdateIsLive

\* The end of the warm-up leaves the detector on.
LEMMA LiveWarm == Inv /\ LiveInv /\ WarmupElapses => LiveInv'
<1> SUFFICES ASSUME Inv, LiveInv, WarmupElapses PROVE LiveInv'
  OBVIOUS
<1>1. live \in Live /\ live.detector = "warming" /\ live' = [live EXCEPT !.detector = "armed"]
  BY DEF Inv, TypeInv, TypeOK, WarmupElapses
<1>2. /\ live'.interval_s = live.interval_s /\ SameTiming(live', live)
      /\ live'.output_on = live.output_on /\ live'.detector = "armed"
  BY <1>1 DEF SameTiming, Live
<1>3. UNCHANGED <<s_state, boot, was, handler>>
  BY DEF WarmupElapses, main
<1>4. \A c : /\ BeatsAs(live', c) <=> BeatsAs(live, c)
             /\ TimedAs(live', c) <=> TimedAs(live, c)
             /\ LitAs(live', c) <=> LitAs(live, c)
             /\ DetectorIs(live', c) <=> DetectorIs(live, c)
  BY <1>1, <1>2, OwnPart DEF DetectorIs
<1>5. \A c : LiveMatches(live', c) <=> LiveMatches(live, c)
  BY <1>4, Matches
<1>6. live.detector # "off" /\ live'.detector # "off"
  BY <1>1, <1>2
<1>7. (Calm => Reached)'
  BY <1>3, <1>4, <1>5, <1>6 DEF LiveInv, Calm, Reached, Target, handler
<1>8. Kept' /\ Told'
  BY <1>3, <1>4, <1>5
     DEF LiveInv, Calm, Kept, Told, AcceptedUpdateIsLive, Answered, handler
<1>9. Snapshot' /\ Dark'
  BY <1>2, <1>3 DEF LiveInv, Snapshot, Dark, handler
<1> QED
  BY <1>7, <1>8, <1>9 DEF LiveInv

\* A command arrives: the handler has the settings and has done nothing yet.
LEMMA LiveReceive ==
    ASSUME Inv, LiveInv, NEW r \in Requests, Receive(r)
    PROVE  LiveInv'
<1>1. /\ pc = "idle" /\ phase = "apply" /\ pc' \in {"motion", "reply"}
      /\ previous' = Getters(s_state) /\ UNCHANGED <<s_state, live, boot>>
      /\ before' = [live |-> live, boot |-> boot] /\ reply' = NoReply
  BY DEF Receive, Inv, TypeInv, TypeOK, UpdateInv, Progress, main
<1>2. pc' = "reply" => err' # "FAIL" /\ (err' = "OK" => DOMAIN patch' = {})
  BY AcceptedValid, AcceptedType DEF Receive
<1>3. (Calm => Reached)'
  BY <1>1, <1>2 DEF Calm, Reached
<1>4. Kept'
  BY <1>1, Matches DEF Kept
<1>5. Told'
  BY <1>1 DEF Told, AcceptedUpdateIsLive, Answered, NoReply
<1>6. Snapshot'
  <2>1. EN \in Keys /\ previous'[EN] \in 0..1
    BY <1>1 DEF LiveInv, Snapshot, Getters, Keys
  <2> QED
    BY <1>1, <2>1 DEF LiveInv, Snapshot
<1>7. Dark'
  BY <1>1 DEF LiveInv, Dark
<1> QED
  BY <1>3, <1>4, <1>5, <1>6, <1>7 DEF LiveInv
-----------------------------------------------------------------------------
(***************************************************************************)
(* Steps of the handler.                                                    *)
(***************************************************************************)

\* Between its arrival and its answer, nothing is told and, before mirroring,
\* the settings are those of the snapshot.
LEMMA SnapshotStays ==
    ASSUME LiveInv, pc \notin {"idle", "mirror", "reply"}, pc' # "idle",
           UNCHANGED <<s_state, patch, previous, reply>>
    PROVE  Snapshot' /\ Told'
<1>1. Snapshot'
  BY DEF LiveInv, Snapshot
<1>2. Told'
  BY DEF LiveInv, Told, AcceptedUpdateIsLive, Answered
<1> QED
  BY <1>1, <1>2

LEMMA ServicesStay ==
    ASSUME LiveInv, pc # "idle", UNCHANGED <<live, patch, previous, before>>
    PROVE  Kept' /\ Dark'
<1>1. Kept'
  BY DEF LiveInv, Kept, Calm, DetectorIs, LitAs, BeatsAs, LiveMatches
<1>2. Dark'
  BY DEF LiveInv, Dark
<1> QED
  BY <1>1, <1>2

\* Where app_main is when the claims count.
LEMMA StillRunning ==
    ASSUME LiveInv, UNCHANGED <<boot, before>>
    PROVE  Calm' <=> Calm /\ (Calm => boot' = "running")
BY DEF LiveInv, Calm, Reached

\* What stays as it is: one part of the services as a configuration has it.
LEMMA KeptParts ==
    ASSUME LiveInv, pc # "idle", UNCHANGED <<patch, previous, before>>,
           Calm => /\ EN \notin DOMAIN patch /\ DetectorIs(live, previous)
                          => DetectorIs(live', previous)
                   /\ IR \notin DOMAIN patch /\ LitAs(live, previous) => LitAs(live', previous)
                   /\ HB \notin DOMAIN patch /\ BeatsAs(live, previous)
                          => BeatsAs(live', previous)
    PROVE  Kept'
<1>1. \A l : (Calm' <=> Calm) /\ (DetectorIs(l, previous') <=> DetectorIs(l, previous))
             /\ (LitAs(l, previous') <=> LitAs(l, previous))
             /\ (BeatsAs(l, previous') <=> BeatsAs(l, previous))
             /\ (LiveMatches(l, previous') <=> LiveMatches(l, previous))
  BY DEF Calm
<1>2. before'.live = before.live
  OBVIOUS
<1> QED
  BY <1>1, <1>2 DEF LiveInv, Kept

LEMMA LiveEnterMotion == Inv /\ LiveInv /\ EnterMotion => LiveInv'
<1> SUFFICES ASSUME Inv, LiveInv, EnterMotion PROVE LiveInv'
  OBVIOUS
<1>1. /\ pc = "motion" /\ pc' = "detector" /\ EnterDetector("mqtt", Target)
      /\ UNCHANGED <<s_state, boot, phase, patch, previous, reply, before>>
  BY DEF EnterMotion, main
<1>2. live \in Live /\ was \in [{"main", "mqtt"} -> BOOLEAN]
  BY DEF Inv, TypeInv, TypeOK
<1>3. /\ live'.interval_s = live.interval_s /\ live'.detector = live.detector
      /\ live'.output_on = live.output_on
  BY <1>1, <1>2 DEF EnterDetector, Live
<1>4. TimedAs(live', Target)
  BY <1>1, <1>2 DEF EnterDetector, Live, TimedAs
<1>5. HasMotion => (was'["mqtt"] <=> live'.detector # "off")
  <2> SUFFICES ASSUME HasMotion PROVE was'["mqtt"] <=> live'.detector # "off"
    OBVIOUS
  <2>1. was' = [was EXCEPT !["mqtt"] = (live.detector # "off")]
    BY <1>1 DEF EnterDetector
  <2>2. was'["mqtt"] = (live.detector # "off")
    BY <1>2, <2>1, Zenon
  <2> QED
    BY <1>3, <2>2
<1>6. Target' = Target
  BY <1>1 DEF Target
<1>7. (Calm => Reached)'
  <2>1. TimedAs(live', Target')
    BY <1>4, <1>6
  <2> QED
    BY <1>1, <1>5, <2>1, StillRunning DEF Reached
<1>8. Kept'
  BY <1>1, <1>3, OwnPart, KeptParts
<1>9. Dark'
  BY <1>3 DEF LiveInv, Dark
<1> QED
  BY <1>1, <1>7, <1>8, <1>9, SnapshotStays DEF LiveInv

LEMMA LiveFinishMotion == Inv /\ LiveInv /\ FinishMotion => LiveInv'
<1> SUFFICES ASSUME Inv, LiveInv, FinishMotion PROVE LiveInv'
  OBVIOUS
<1>1. /\ pc = "detector" /\ pc' = "ir" /\ LeaveDetector("mqtt", Target)
      /\ UNCHANGED <<s_state, boot, was, phase, patch, previous, reply, before>>
  BY DEF FinishMotion, main
<1>2. live \in Live
  BY DEF Inv, TypeInv, TypeOK
<1>3. /\ live'.interval_s = live.interval_s /\ SameTiming(live', live)
      /\ live'.output_on = live.output_on
  BY <1>1, <1>2 DEF LeaveDetector, Live, SameTiming
<1>4. Calm => DetectorIs(live', Target)
  <2> SUFFICES ASSUME Calm, HasMotion PROVE live'.detector # "off" <=> Target[EN] = 1
    BY DEF DetectorIs
  <2>1. live'.detector = Rearmed(was["mqtt"], Target)
    BY <1>1, <1>2 DEF LeaveDetector, Live
  <2>2. was["mqtt"] <=> live.detector # "off"
    BY <1>1 DEF LiveInv, Reached
  <2>3. Target[EN] \in 0..1
    BY TargetIs DEF LiveInv
  <2>4. CASE Target[EN] = 0
    BY <2>1, <2>4 DEF Rearmed
  <2>5. CASE Target[EN] = 1 /\ was["mqtt"]
    BY <2>1, <2>2, <2>5 DEF Rearmed
  <2>6. CASE Target[EN] = 1 /\ ~was["mqtt"]
    BY <2>1, <2>6 DEF Rearmed
  <2> QED
    BY <2>3, <2>4, <2>5, <2>6
<1>5. Target' = Target
  BY <1>1 DEF Target
<1>6. Calm => TimedAs(live', Target)
  BY <1>1, <1>3, OwnPart DEF LiveInv, Reached
<1>7. (Calm => Reached)'
  <2>1. Calm => TimedAs(live', Target') /\ DetectorIs(live', Target')
    BY <1>4, <1>5, <1>6
  <2> QED
    BY <1>1, <2>1, StillRunning DEF Reached
<1>8. Calm /\ EN \notin DOMAIN patch => DetectorIs(live', previous)
  <2>1. EN \notin DOMAIN patch => Target[EN] = previous[EN]
    BY TargetIs DEF LiveInv, Keys
  <2> QED
    BY <1>4, <2>1 DEF DetectorIs
<1>9. Kept'
  BY <1>1, <1>3, <1>8, OwnPart, KeptParts
<1>10. Dark'
  BY <1>3 DEF LiveInv, Dark
<1> QED
  BY <1>1, <1>7, <1>9, <1>10, SnapshotStays DEF LiveInv

LEMMA LiveApplyIr == Inv /\ LiveInv /\ ApplyIr => LiveInv'
<1> SUFFICES ASSUME Inv, LiveInv, ApplyIr PROVE LiveInv'
  OBVIOUS
<1> DEFINE lit == HasIr /\ ShouldBeOn(Target[IR])
<1>1. /\ pc = "ir" /\ pc' = "heartbeat" /\ live' = [live EXCEPT !.output_on = lit]
      /\ UNCHANGED <<s_state, boot, was, phase, patch, previous, reply, before>>
  BY DEF ApplyIr, main
<1>2. live \in Live
  BY DEF Inv, TypeInv, TypeOK
<1>3. (~HasIr => lit = FALSE) /\ (HasIr => lit = ShouldBeOn(Target[IR]))
  BY Zenon DEF ShouldBeOn
<1> HIDE DEF lit
<1>4. /\ live'.interval_s = live.interval_s /\ SameTiming(live', live)
      /\ live'.detector = live.detector /\ live'.output_on = lit
  BY <1>1, <1>2 DEF Live, SameTiming
<1>5. LitAs(live', Target)
  BY <1>3, <1>4, Zenon DEF LitAs
<1>6. Target' = Target
  BY <1>1 DEF Target
<1>7. Calm => TimedAs(live', Target) /\ DetectorIs(live', Target)
  BY <1>1, <1>4, OwnPart DEF LiveInv, Reached
<1>8. (Calm => Reached)'
  <2>1. Calm => TimedAs(live', Target') /\ DetectorIs(live', Target') /\ LitAs(live', Target')
    BY <1>5, <1>6, <1>7
  <2> QED
    BY <1>1, <2>1, StillRunning DEF Reached
<1>9. IR \notin DOMAIN patch => LitAs(live', previous)
  <2>1. IR \notin DOMAIN patch => Target[IR] = previous[IR]
    BY TargetIs DEF LiveInv, Keys
  <2> QED
    BY <1>5, <2>1, Zenon DEF LitAs
<1>10. Kept'
  BY <1>1, <1>4, <1>9, OwnPart, KeptParts
<1>11. Dark'
  BY <1>3, <1>4, Zenon DEF Dark
<1> QED
  BY <1>1, <1>8, <1>10, <1>11, SnapshotStays DEF LiveInv

\* With the heartbeat interval the last of the services has its settings.
LEMMA LastApplied ==
    ASSUME Inv, LiveInv, ApplyHeartbeat
    PROVE  /\ live'.detector = live.detector
           /\ Calm => LiveMatches(live', Target)
<1>1. pc = "heartbeat" /\ live' = [live EXCEPT !.interval_s = Target[HB]]
  BY SetterAccepts DEF ApplyHeartbeat
<1>2. live \in Live
  BY DEF Inv, TypeInv, TypeOK
<1>3. /\ live'.interval_s = Target[HB] /\ SameTiming(live', live)
      /\ live'.detector = live.detector /\ live'.output_on = live.output_on
  BY <1>1, <1>2 DEF Live, SameTiming
<1>4. BeatsAs(live', Target)
  BY <1>3 DEF BeatsAs
<1>5. Calm => TimedAs(live', Target) /\ DetectorIs(live', Target) /\ LitAs(live', Target)
  BY <1>1, <1>3, OwnPart DEF LiveInv, Reached
<1> QED
  BY <1>3, <1>4, <1>5, Matches

LEMMA LiveApplyHeartbeat == Inv /\ LiveInv /\ ApplyHeartbeat => LiveInv'
<1> SUFFICES ASSUME Inv, LiveInv, ApplyHeartbeat PROVE LiveInv'
  OBVIOUS
<1>1. /\ pc = "heartbeat" /\ pc' = (IF phase = "apply" THEN "open" ELSE "reply")
      /\ live' = [live EXCEPT !.interval_s = Target[HB]]
      /\ UNCHANGED <<s_state, boot, was, phase, patch, previous, err, reply, before>>
  BY SetterAccepts DEF ApplyHeartbeat, main
<1>2. live \in Live
  BY DEF Inv, TypeInv, TypeOK
<1>3. /\ live'.interval_s = Target[HB] /\ SameTiming(live', live)
      /\ live'.detector = live.detector /\ live'.output_on = live.output_on
  BY <1>1, <1>2 DEF Live, SameTiming
<1>4. BeatsAs(live', Target)
  BY <1>3 DEF BeatsAs
<1>5. Calm => LiveMatches(live', Target)
  BY LastApplied
<1>6. (Calm => Reached)'
  <2>1. CASE phase = "apply"
    <3>1. pc' = "open" /\ (Calm => LiveMatches(live', Overlay(previous, patch)))
      BY <1>1, <1>5, <2>1 DEF Target
    <3>2. Overlay(previous', patch') = Overlay(previous, patch)
      BY <1>1
    <3>3. Calm => LiveMatches(live', Overlay(previous', patch'))
      BY <3>1, <3>2
    <3> QED
      BY <1>1, <3>1, <3>3, StillRunning DEF Reached
  <2>2. CASE phase # "apply"
    <3>1. pc' = "reply" /\ err' = "FAIL"
      BY <1>1, <2>2 DEF Inv, TypeInv, TypeOK, UpdateInv, Progress
    <3> QED
      BY <1>1, <3>1, StillRunning DEF Reached
  <2> QED
    BY <2>1, <2>2
<1>7. HB \notin DOMAIN patch => BeatsAs(live', previous)
  <2>1. HB \notin DOMAIN patch => Target[HB] = previous[HB]
    BY TargetIs DEF LiveInv, Keys
  <2> QED
    BY <1>4, <2>1 DEF BeatsAs
<1>8. Kept'
  BY <1>1, <1>3, <1>7, OwnPart, KeptParts
<1>9. Dark'
  BY <1>3 DEF LiveInv, Dark
<1>10. pc' # "idle"
  BY <1>1
<1> QED
  BY <1>1, <1>6, <1>8, <1>9, <1>10, SnapshotStays DEF LiveInv

\* The illuminator's GPIO or NVS fails, or NVS goes on: the services stay.
LEMMA LiveStays ==
    ASSUME Inv, LiveInv, IrFails \/ NvsOpen \/ NvsCommit \/ NvsFails \/ \E k \in Keys : NvsSet(k)
    PROVE  LiveInv'
<1>1. /\ pc \notin {"idle", "mirror", "reply"} /\ pc' # "idle"
      /\ UNCHANGED <<s_state, live, boot, was, patch, previous, reply, before>>
  BY DEF IrFails, NvsOpen, NvsCommit, NvsFails, NvsSet, StepFails, main
<1>2. Snapshot' /\ Told' /\ Kept' /\ Dark'
  BY <1>1, SnapshotStays, ServicesStay
<1>3. (Calm => Reached)'
  <2>1. CASE IrFails \/ NvsFails
    <3>1. pc' = "motion" \/ (pc' = "reply" /\ err' = "FAIL")
      <4>1. NvsFails => phase = "apply"
        BY DEF NvsFails, Inv, TypeInv, TypeOK, UpdateInv, Progress
      <4> QED
        BY <2>1, <4>1 DEF IrFails, NvsFails, StepFails
    <3> QED
      BY <1>1, <3>1, StillRunning DEF Reached
  <2>2. CASE NvsOpen \/ NvsCommit \/ \E k \in Keys : NvsSet(k)
    <3>1. pc \in {"open", "set"} /\ pc' \in {"set", "mirror"}
      BY <2>2 DEF NvsOpen, NvsCommit, NvsSet
    <3>2. Overlay(previous', patch') = Overlay(previous, patch) /\ live' = live
      BY <1>1
    <3>3. Calm => LiveMatches(live', Overlay(previous', patch'))
      BY <3>1, <3>2 DEF LiveInv, Reached
    <3> QED
      BY <1>1, <3>1, <3>3, StillRunning DEF Reached
  <2> QED
    BY <2>1, <2>2
<1> QED
  BY <1>2, <1>3 DEF LiveInv

LEMMA LiveMirror ==
    ASSUME Inv, LiveInv, NEW k \in Keys, Mirror(k)
    PROVE  LiveInv'
<1>1. /\ pc = "mirror" /\ pc' \in {"mirror", "reply"} /\ k \in DOMAIN patch
      /\ s_state' = [s_state EXCEPT ![k] = patch[k]]
      /\ UNCHANGED <<live, boot, was, phase, patch, previous, err, reply, before>>
  BY DEF Mirror, IsNext, Inv, TypeInv, Shape, main
<1>2. s_state \in [Keys -> Nat] /\ err = "OK" /\ DOMAIN patch # {}
  BY <1>1 DEF Inv, TypeInv, TypeOK, UpdateInv, Progress
<1>3. (Calm => Reached)'
  <2>1. Overlay(previous', patch') = Overlay(previous, patch) /\ live' = live
    BY <1>1
  <2>2. Calm => LiveMatches(live', Overlay(previous', patch'))
    BY <1>1, <2>1 DEF LiveInv, Reached
  <2> QED
    BY <1>1, <1>2, <2>2, StillRunning DEF Reached
<1>4. Snapshot'
  <2>1. s_state'[EN] \in 0..1
    <3>1. EN \in DOMAIN patch => patch[EN] \in 0..1
      <4>1. pc = "mirror" => phase = "apply"
        BY DEF Inv, TypeInv, TypeOK, UpdateInv, Progress
      <4>2. EN \in DOMAIN patch => Target[EN] = patch[EN]
        BY <1>1, <4>1 DEF Target, Overlay, Keys
      <4> QED
        BY <4>2, TargetIs DEF LiveInv
    <3>2. EN \in Keys
      BY DEF Keys
    <3> QED
      BY <1>1, <1>2, <3>1, <3>2 DEF LiveInv, Snapshot
  <2>2. ASSUME NEW j \in Keys, j \notin DOMAIN patch
        PROVE  Getters(s_state')[j] = Getters(s_state)[j]
    BY <1>1, <1>2, <2>2 DEF Getters
  <2> QED
    BY <1>1, <1>2, <2>1, <2>2 DEF LiveInv, Snapshot
<1>5. Told'
  BY <1>1 DEF LiveInv, Told, AcceptedUpdateIsLive, Answered
<1> QED
  BY <1>1, <1>3, <1>4, <1>5, ServicesStay DEF LiveInv

\* The answer ok reports what was applied.
LEMMA LiveReply == Inv /\ LiveInv /\ Reply => LiveInv'
<1> SUFFICES ASSUME Inv, LiveInv, Reply PROVE LiveInv'
  OBVIOUS
<1>1. /\ pc = "reply" /\ pc' = "idle" /\ UNCHANGED <<s_state, live, boot, was, before>>
      /\ reply'.config = Getters(s_state)
      /\ reply'.updated = (err = "OK" /\ DOMAIN patch # {})
      /\ previous' = Defaults
  BY DEF Reply, Returned, main
<1>2. ASSUME Calm, err = "OK", DOMAIN patch # {}
      PROVE  LiveMatches(live, Getters(s_state))
  <2>1. ASSUME NEW k \in Keys PROVE Overlay(previous, patch)[k] = Getters(s_state)[k]
    <3>1. CASE k \in DOMAIN patch
      <4>1. s_state[k] = patch[k] /\ k \in Supported
        BY <1>1, <1>2, <3>1 DEF Inv, UpdateInv, Written, Progress, ValidPatch
      <4>2. Getters(s_state)[k] = s_state[k]
        BY <4>1 DEF Getters, Supported, MotionKeys
      <4> QED
        BY <3>1, <4>1, <4>2 DEF Overlay
    <3>2. CASE k \notin DOMAIN patch
      BY <1>1, <3>2 DEF LiveInv, Snapshot, Overlay
    <3> QED
      BY <3>1, <3>2
  <2>2. LiveMatches(live, Overlay(previous, patch))
    BY <1>1, <1>2 DEF LiveInv, Reached
  <2> QED
    BY <2>1, <2>2, SameSettings
<1>3. Told'
  <2>1. LiveMatches(live', reply'.config) <=> LiveMatches(live, Getters(s_state))
    BY <1>1
  <2>2. Calm' <=> Calm
    BY <1>1 DEF Calm
  <2> QED
    BY <1>1, <1>2, <2>1, <2>2 DEF Told, AcceptedUpdateIsLive
<1>4. Snapshot'
  BY <1>1, SwitchRestored DEF LiveInv, Snapshot
<1>5. (Calm => Reached)' /\ Kept' /\ Dark'
  <2>1. (Calm => Reached)'
    BY <1>1, StillRunning DEF Reached
  <2> QED
    BY <1>1, <2>1 DEF LiveInv, Kept, Dark
<1> QED
  BY <1>3, <1>4, <1>5 DEF LiveInv

\* Without a reply nothing is told.
LEMMA LiveUnanswered == Inv /\ LiveInv /\ Unanswered => LiveInv'
<1> SUFFICES ASSUME Inv, LiveInv, Unanswered PROVE LiveInv'
  OBVIOUS
<1>1. /\ pc = "reply" /\ pc' = "idle" /\ previous' = Defaults
      /\ UNCHANGED <<s_state, live, boot, was, reply, before>>
  BY DEF Unanswered, Returned, main
<1>2. Told'
  BY <1>1 DEF LiveInv, Told, AcceptedUpdateIsLive, Answered
<1>3. Snapshot'
  BY <1>1, SwitchRestored DEF LiveInv, Snapshot
<1>4. (Calm => Reached)' /\ Kept' /\ Dark'
  <2>1. (Calm => Reached)'
    BY <1>1, StillRunning DEF Reached
  <2> QED
    BY <1>1, <2>1 DEF LiveInv, Kept, Dark
<1> QED
  BY <1>2, <1>3, <1>4 DEF LiveInv

-----------------------------------------------------------------------------
\* The invariant of the services is inductive: at power-up, and over every step.
LEMMA LiveInit == Init => LiveInv
<1> SUFFICES ASSUME Init PROVE LiveInv
  OBVIOUS
<1>1. pc = "idle" /\ ~Calm /\ live.output_on = FALSE
      /\ s_state = Defaults /\ previous = Defaults
  BY DEF Init, Calm, ColdLive
<1> QED
  BY <1>1, SwitchRestored
     DEF LiveInv, Snapshot, Dark, Kept, Told, AcceptedUpdateIsLive

LEMMA LiveNext == Inv /\ LiveInv /\ [Next]_vars => LiveInv'
<1> SUFFICES ASSUME Inv, LiveInv, [Next]_vars PROVE LiveInv'
  OBVIOUS
<1>1. CASE UNCHANGED vars
  BY <1>1, LiveQuiet DEF vars, handler
<1>2. ASSUME NEW r \in Requests, Receive(r) PROVE LiveInv'
  BY <1>2, LiveReceive
<1>3. ASSUME NEW k \in Keys, NvsFlush(k) PROVE LiveInv'
  BY <1>3, LiveQuiet DEF NvsFlush, main
<1>4. CASE Handler
  BY <1>4, LiveEnterMotion, LiveFinishMotion, LiveApplyIr, LiveApplyHeartbeat, LiveStays,
     LiveMirror, LiveReply, LiveUnanswered DEF Handler
<1> QED
  BY <1>1, <1>2, <1>3, <1>4, LiveMain, LiveWarm, LiveRestart DEF Next

\* In every reachable state the services are as far as the handler has
\* brought them, whatever of the update fails and wherever it stops.
THEOREM ServicesFollow == Spec => [](Inv /\ LiveInv)
<1>1. Init => Inv /\ LiveInv
  BY InvInit, LiveInit
<1>2. (Inv /\ LiveInv) /\ [Next]_vars => (Inv /\ LiveInv)'
  BY InvNext, LiveNext
<1> QED
  BY <1>1, <1>2, PTL DEF Spec

\* An update that arrived after the boot and was answered ok is what the
\* heartbeat task, the detector and the illuminator run with, whatever the
\* build and whatever of earlier commands failed.
THEOREM AcceptedIsLive == Spec => []AcceptedUpdateIsLive
<1>1. LiveInv => AcceptedUpdateIsLive
  BY DEF LiveInv, Told
<1> QED
  BY <1>1, ServicesFollow, PTL

\* A detector that was armed when the command arrived stays armed through the
\* update and its rollback, unless the update switches it off.
Armed == Calm /\ pc # "idle" /\ WasArmed /\ ~SwitchedOff => live.detector = "armed"

LEMMA ArmedInit == Init => Armed
BY DEF Init, Armed

LEMMA ArmedHandler == Inv /\ LiveInv /\ Armed /\ Handler => Armed'
<1> SUFFICES ASSUME Inv, LiveInv, Armed, Handler,
                    Calm', pc' # "idle", WasArmed', ~SwitchedOff'
             PROVE  live'.detector = "armed"
  BY DEF Armed
<1>1. pc # "idle" /\ UNCHANGED <<patch, previous, before>>
  BY DEF Handler, EnterMotion, FinishMotion, ApplyIr, IrFails, ApplyHeartbeat, NvsOpen,
         NvsCommit, NvsFails, Reply, Unanswered, Returned, NvsSet, Mirror
<1>2. Calm /\ WasArmed /\ ~SwitchedOff
  BY <1>1 DEF Calm, WasArmed, SwitchedOff
<1>3. live.detector = "armed" /\ live \in Live
  BY <1>1, <1>2 DEF Armed, Inv, TypeInv, TypeOK
<1>4. CASE EnterMotion
  BY <1>3, <1>4 DEF EnterMotion, EnterDetector, Live
<1>5. CASE FinishMotion
  <2>1. CASE HasMotion
    <3>1. live'.detector = Rearmed(was["mqtt"], Target)
      BY <1>3, <1>5, <2>1 DEF FinishMotion, LeaveDetector, Live
    <3>2. was["mqtt"]
      BY <1>2, <1>3, <1>5, <2>1 DEF FinishMotion, LiveInv, Reached
    <3>3. previous[EN] = 1
      BY <1>2, <2>1 DEF WasArmed, LiveMatches
    <3>4. Target[EN] # 0
      <4>1. EN \in Keys /\ (EN \in DOMAIN patch => patch[EN] # 0)
        BY <1>2 DEF Keys, SwitchedOff
      <4> QED
        BY <3>3, <4>1 DEF Target, Overlay
    <3> QED
      BY <1>3, <3>1, <3>2, <3>4 DEF Rearmed
  <2>2. CASE ~HasMotion
    BY <1>3, <1>5, <2>2 DEF FinishMotion, LeaveDetector
  <2> QED
    BY <2>1, <2>2
<1>6. CASE ApplyIr
  BY <1>3, <1>6 DEF ApplyIr, Live
<1>7. CASE ApplyHeartbeat
  BY <1>3, <1>7, LastApplied
<1>8. CASE live' = live
  BY <1>3, <1>8
<1> QED
  BY <1>4, <1>5, <1>6, <1>7, <1>8
     DEF Handler, IrFails, NvsOpen, NvsCommit, NvsFails, Reply, Unanswered, Returned,
         NvsSet, Mirror

LEMMA ArmedNext == Inv /\ LiveInv /\ Armed /\ [Next]_vars => Armed'
<1> SUFFICES ASSUME Inv, LiveInv, Armed, [Next]_vars PROVE Armed'
  OBVIOUS
<1>1. CASE UNCHANGED vars
  BY <1>1 DEF vars, Armed, Calm, WasArmed, SwitchedOff
<1>2. CASE Main
  <2>1. boot # "running" /\ UNCHANGED handler
    BY <1>2 DEF Main, NvsErase, RuntimeConfigInit, IrBoot, Connect, ReadHeartbeat,
                SetHeartbeat, ReadMotion, EnterStart, FinishStart
  <2> QED
    BY <2>1 DEF LiveInv, Reached, Calm, handler, Armed
<1>3. CASE WarmupElapses
  <2>1. live'.detector = "armed"
    BY <1>3 DEF WarmupElapses, Inv, TypeInv, TypeOK, Live
  <2> QED
    BY <2>1 DEF Armed
<1>4. CASE Restart
  BY <1>4 DEF Restart, Armed
<1>5. ASSUME NEW r \in Requests, Receive(r) PROVE Armed'
  <2>1. before'.live = live /\ live' = live
    BY <1>5 DEF Receive
  <2> QED
    BY <2>1 DEF Armed, WasArmed
<1>6. ASSUME NEW k \in Keys, NvsFlush(k) PROVE Armed'
  BY <1>6 DEF NvsFlush, handler, Armed, Calm, WasArmed, SwitchedOff
<1> QED
  BY <1>1, <1>2, <1>3, <1>4, <1>5, <1>6, ArmedHandler DEF Next

\* A rollback that goes through to its last service leaves all three with the
\* settings of before, whichever step of the update had failed, and an armed
\* detector armed unless the update had switched it off.
THEOREM FailedIsUndone == Spec => FailedUpdateRestoresLive
<1>1. Spec => [](Inv /\ LiveInv /\ Armed)
  <2>1. Init => Inv /\ LiveInv /\ Armed
    BY InvInit, LiveInit, ArmedInit
  <2>2. (Inv /\ LiveInv /\ Armed) /\ [Next]_vars => (Inv /\ LiveInv /\ Armed)'
    BY InvNext, LiveNext, ArmedNext
  <2> QED
    BY <2>1, <2>2, PTL DEF Spec
<1>2. (Inv /\ LiveInv /\ Armed) /\ [Next]_vars =>
        [RollbackDone =>
            /\ LiveMatches(live', previous)
            /\ WasArmed /\ ~SwitchedOff => live'.detector = "armed"]_vars
  <2> SUFFICES ASSUME Inv, LiveInv, Armed, RollbackDone
               PROVE  /\ LiveMatches(live', previous)
                      /\ WasArmed /\ ~SwitchedOff => live'.detector = "armed"
    OBVIOUS
  <2>1. ApplyHeartbeat /\ Calm /\ pc # "idle" /\ Target = previous
    BY DEF RollbackDone, ApplyHeartbeat, Target
  <2>2. LiveMatches(live', Target) /\ live'.detector = live.detector
    BY <2>1, LastApplied
  <2> QED
    BY <2>1, <2>2 DEF Armed
<1> QED
  BY <1>1, <1>2, PTL DEF Spec, FailedUpdateRestoresLive

\* A handler's step leaves what the patch does not name as it is: detector,
\* illuminator and heartbeat task are set again, each to what it already has.
LEMMA Undisturbed ==
    ASSUME Inv, LiveInv, Inv', LiveInv', Handler, Calm, LiveMatches(before.live, previous)
    PROVE  /\ EN \notin DOMAIN patch => live'.detector = live.detector
           /\ IR \notin DOMAIN patch => live'.output_on = live.output_on
           /\ HB \notin DOMAIN patch => live'.interval_s = live.interval_s
<1>1. live \in Live /\ live' \in Live /\ pc # "idle"
  BY DEF Inv, TypeInv, TypeOK, Handler, EnterMotion, FinishMotion, ApplyIr, IrFails,
         ApplyHeartbeat, NvsOpen, NvsCommit, NvsFails, Reply, Unanswered, NvsSet, Mirror
<1>2. /\ EN \notin DOMAIN patch => DetectorIs(live, previous) /\ Target[EN] = previous[EN]
      /\ IR \notin DOMAIN patch => LitAs(live, previous) /\ Target[IR] = previous[IR]
      /\ HB \notin DOMAIN patch => BeatsAs(live, previous) /\ Target[HB] = previous[HB]
  BY <1>1, TargetIs DEF LiveInv, Kept, Keys
<1>3. CASE EnterMotion
  BY <1>1, <1>3 DEF EnterMotion, EnterDetector, Live
<1>4. CASE FinishMotion
  <2>1. live'.output_on = live.output_on /\ live'.interval_s = live.interval_s
    BY <1>1, <1>4 DEF FinishMotion, LeaveDetector, Live
  <2>2. ASSUME EN \notin DOMAIN patch, HasMotion PROVE live'.detector = live.detector
    <3>1. live'.detector = Rearmed(was["mqtt"], Target)
      BY <1>1, <1>4, <2>2 DEF FinishMotion, LeaveDetector, Live
    <3>2. was["mqtt"] <=> live.detector # "off"
      BY <1>4, <2>2 DEF FinishMotion, LiveInv, Reached
    <3>3. live.detector # "off" <=> Target[EN] = 1
      BY <1>2, <2>2 DEF DetectorIs
    <3>4. Target[EN] \in 0..1
      BY TargetIs DEF LiveInv
    <3>5. CASE Target[EN] = 0
      BY <3>1, <3>3, <3>5 DEF Rearmed
    <3>6. CASE Target[EN] = 1
      BY <3>1, <3>2, <3>3, <3>6 DEF Rearmed
    <3> QED
      BY <3>4, <3>5, <3>6
  <2>3. ~HasMotion => live' = live
    BY <1>4 DEF FinishMotion, LeaveDetector
  <2> QED
    BY <2>1, <2>2, <2>3
<1>5. CASE ApplyIr
  <2> DEFINE lit == HasIr /\ ShouldBeOn(Target[IR])
  <2>1. live' = [live EXCEPT !.output_on = lit]
    BY <1>5 DEF ApplyIr
  <2>2. (~HasIr => lit = FALSE) /\ (HasIr => lit = ShouldBeOn(Target[IR]))
    BY Zenon DEF ShouldBeOn
  <2> HIDE DEF lit
  <2>3. /\ live'.detector = live.detector /\ live'.interval_s = live.interval_s
        /\ live'.output_on = lit
    BY <1>1, <2>1 DEF Live
  <2>4. ASSUME IR \notin DOMAIN patch, HasIr PROVE live'.output_on = live.output_on
    BY <1>2, <2>2, <2>3, <2>4, Zenon DEF LitAs
  <2>5. ASSUME ~HasIr PROVE live'.output_on = live.output_on
    BY <2>2, <2>3, <2>5, Zenon DEF LiveInv, Dark
  <2> QED
    BY <2>3, <2>4, <2>5
<1>6. CASE ApplyHeartbeat
  <2>1. live' = [live EXCEPT !.interval_s = Target[HB]]
    BY <1>6, SetterAccepts DEF ApplyHeartbeat
  <2>2. /\ live'.detector = live.detector /\ live'.output_on = live.output_on
        /\ live'.interval_s = Target[HB]
    BY <1>1, <2>1 DEF Live
  <2> QED
    BY <1>2, <2>2 DEF BeatsAs
<1>7. CASE live' = live
  BY <1>7
<1> QED
  BY <1>3, <1>4, <1>5, <1>6, <1>7
     DEF Handler, IrFails, NvsOpen, NvsCommit, NvsFails, Reply, Unanswered, Returned,
         NvsSet, Mirror

\* No step of an update or of its rollback disturbs a service that the patch
\* does not name and that ran with the stored settings, with any fault.
THEOREM OthersUndisturbed == Spec => UnmentionedServicesAreUndisturbed
<1>1. (Inv /\ LiveInv) /\ (Inv /\ LiveInv)' /\ [Next]_vars =>
        [(Handler /\ Calm /\ LiveMatches(before.live, previous)) =>
            /\ EN \notin DOMAIN patch => live'.detector = live.detector
            /\ IR \notin DOMAIN patch => live'.output_on = live.output_on
            /\ HB \notin DOMAIN patch => live'.interval_s = live.interval_s]_vars
  BY Undisturbed
<1> QED
  BY <1>1, ServicesFollow, PTL DEF Spec, UnmentionedServicesAreUndisturbed
=============================================================================
