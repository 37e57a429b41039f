# ESP32 vision node: TLA+ models and proofs

The firmware of an Ethernet camera node (ESP32-P4, ESP-IDF, FreeRTOS, dual
core). It keeps a small runtime configuration in NVS, obeys MQTT commands under
`vision/nodes/{id}/cmd/...`, publishes events and replies through a RAM queue,
and reports PIR motion. All state is per process and unlocked: what makes it
hard is that six tasks share it, that most of it dies at a restart, and that a
configuration update touches three services and the flash one after the other.

Paths below are relative to `src/components/` unless they start with `main/`,
`docs/` or `src/`.

## 1. Inventory

| Component | State | Operations | Interacts with | Hard behaviours | Correct when |
| --- | --- | --- | --- | --- | --- |
| Runtime configuration, `runtime_config/runtime_config.c` | `s_state` in RAM; namespace `runtime_cfg` in NVS (5 keys) | init (restore), getters, validate, apply patch (open, set per key, commit, mirror to RAM) | router, `app_main`, detector, illuminator | a set or the commit fails midway; a restart between any two steps; a flash written by another build | what it reports is what a restart brings back; acknowledged settings survive; only valid values are stored |
| cmd/config, `messaging/command_router.c` | locals of one handler run on the esp-mqtt task | snapshot, parse, validate, apply live, persist, roll back, answer | all three services, runtime configuration, publish queue | failures in the update and in its rollback; the end of `app_main` running at the same time | ok means live and durable; apply_failed means nothing changed; the handler always returns, and never with an ok for a command that failed |
| Dispatch and other commands, `messaging/command_router.c` | `reboot_task` | checks on a DATA event, dispatch by topic, ping, capture (refused), reboot | publish queue, MQTT service | a payload cut into several events; the reboot reply bypasses the queue, the restart wipes it | a message runs once and whole; one reply per command, in order; a scheduled reboot happens |
| Publish queue, `messaging/publish_queue.c` | FreeRTOS queue, worker task with one item in hand | push (waits up to 500 ms), worker: receive, publish, retry every 250 ms | everybody that publishes; MQTT service | full queue; retries while the session comes and goes; restart | accepted publications go out once and in order; nobody blocks for ever |
| MQTT service, `messaging/mqtt_service.c` | `s_connected`, client handle, broker address | event handler (CONNECTED, DISCONNECTED, DATA), queued and immediate publication, init, start | publish queue, router, Ethernet | the connection dies within a handler; results of presence and subscriptions ignored; the old connection's will | the flag follows the session; presence tells the truth; a session repairs what an earlier one missed |
| Heartbeat, `messaging/heartbeat_task.c` | `s_interval_s` | loop: publish, delay; setter with a range check | router, `app_main`, publish queue | a new interval waits for the running delay; 32-bit conversion to ticks | heartbeats are the interval apart; a new interval takes over |
| Motion detection, `detection/motion_detection.c` | `s_state`: started, two timings, two 64-bit times; task notification | ISR, worker task, start, apply settings | event loop, router, `app_main` | ISR, worker and two appliers on two cores without a lock; 64-bit times on a 32-bit CPU | nothing accepted in warm-up or cooldown; never deaf; never stuck |
| IR illuminator, `illumination/ir_illuminator.c` | mode, capture flag, GPIO | init, apply mode | router, `app_main` | GPIO write fails in an update or in its rollback | output follows the mode |
| Boot, `main/main.c` | position in `app_main` | initialise and start everything in order; motion event handler | everything | it still reads and applies settings after commands can arrive; any failure restarts | services end up with the stored settings; the node comes up |
| Ethernet, `connectivity/ethernet_service.c` | event group: started, link up, got IP | link and DHCP events, wait for IP, address getters | event loop, `app_main`, MQTT service | events handled behind the state they tell of; the address is gone between the wait and its use | a waiter learns of an address; MQTT starts towards a real gateway |
| Image transfer, `messaging/image_transfer.c` | none | metadata, chunks, end marker | publish queue | a push fails midway; chunks are QoS 0 and go with a lost connection, the done marker does not; lengths at a multiple of the chunk size | `chunk_count` tells the receiver of a done marker whether the image is whole |
| Node events, `messaging/node_event.c` | none | one push per event | publish queue | see publish queue | see publish queue |
| Topic map, `messaging/topic_map.c` | cached topics | format and compare topics | router, MQTT service, image transfer | buffer limits | what a command needs fits |
| JSON utilities | none | print JSON | router | buffer limits | - |
| Build configuration, `app_config/` | compile-time | - | all | feature gates | defaults in range |

## 2. What is here

```
RuntimeConfig              pure: ranges, validation, overlay, restore, getters
  ConfigCommand            one cmd/config update, the end of the boot, flash, restarts
    ConfigCommandProofs        types, durability, acknowledged settings, implements ConfigStore,
                               services follow the answer, the handler comes to its end
ConfigStore                abstract: a durable store with one client

EthernetService            link and DHCP events, the wait for an address, the broker's address
  EthernetServiceProofs        addresses reported, link bit, broker leased
MqttSession                client, event handler, wire, broker with retained presence
  MqttSessionProofs            presence exact, lasting sessions whole, implements SessionFlag
SessionFlag                abstract: what others may assume of s_connected
PublishQueue               callers, queue, worker, session, restarts
  PublishQueueProofs           nothing lost or reordered, implements OutboundFifo
OutboundFifo               abstract: the FIFO the publish queue promises
CommandRouter              DATA events, dispatch, replies, the reboot task
  CommandRouterProofs          runs once, one reply, in order, topics fit
ImageTransfer              metadata, chunks and done marker through queue and connection
  ImageTransferProofs          what a done marker and a success say of the image

MotionDetection            ISR, worker, two appliers, store by store
  MotionDetectionProofs        warm-up, cooldown, whole window, rounds end
HeartbeatTask              rounds, delays, the setter, tick arithmetic
  HeartbeatTaskProofs          spacing
```

Each module that is model-checked has an `MC...` module with TLC's constants.

### How the modules fit together

A broker address (`EthernetService`) is the precondition of a session
(`MqttSession`). `MqttSession` implements `SessionFlag`. `PublishQueue` takes the
steps of `SessionFlag` itself for its session, all of them: it withholds one only
while a push of a command handler blocks the task that would take it, so that a
session may come and go at any point the flag allows. `SessionSettles` of
`MqttSession` is the premise `<>[]s_connected` of `AcceptedIsHanded`.
`PublishQueue` implements
`OutboundFifo`; `CommandRouter` and `ImageTransfer` use the queue as that FIFO,
with its two losses, a refused push and a restart. Each looks at its own
publications only, so a push may be refused at any time: others may have filled
the queue. `CommandRouter` dispatches a
`cmd/config` and orders what it publishes; what it does to the node is
`ConfigCommand`. `HeartbeatTask` and `MotionDetection` refine what
`ConfigCommand` treats as the live heartbeat interval and the live detector. That
the latter may see a running detector as one that is warming and then armed,
whatever is stored in between, is `ArmedStaysArmed`, as long as no two
applications overlap; what `ConfigCommand` says of the detector is likewise about
commands that arrive when `app_main` is through (`Calm`).

### RuntimeConfig and ConfigCommand

A configuration is a function from the five NVS keys to numbers (bools and
modes are their stored `u8`); a patch is such a function on the keys whose
`has_*` flag is set; the flash is one on the keys present. `ValidatePatch`
follows the order of the checks in the code, because the order decides which
error a client gets. A payload is reduced to those keys: each absent,
`Malformed`, or a number. Motion and illuminator gates and the defaults are
constants, bounded as Kconfig bounds them.

| Model | Code |
| --- | --- |
| `s_state`, `flash`, `pending` | `runtime_config.c: s_state`; NVS entries that survive a restart; entries set and not yet on flash |
| `live` | heartbeat interval, detector (off, warming, armed) and its timings, illuminator output |
| `boot`, `args`, `was` | where `app_main` is; values it read with getters and has not used; `was_started` of each caller inside the detector |
| `pc`, `phase`, `patch`, `previous`, `todo`, `err` | program point and locals of `handle_config_command` |
| `reply` | the last reply: ok or which error, whether it acknowledged an update, and the configuration it reports |
| `acked` | history: the settings a reply has acknowledged and no later command has named (kept through restarts: the client remembers) |
| `before` | history: the services when the command arrived |
| `NvsErase` ... `FinishStart` | `app_main`, in order, each getter and setter its own step |
| `Receive` | snapshot, parsing, validation: no shared state changes |
| `EnterMotion` ... `ApplyHeartbeat`, `IrFails` | `apply_live_runtime_config`, for the update and, with `phase = "rollback"`, for the rollback |
| `NvsOpen`, `NvsSet`, `NvsCommit`, `NvsFails`, `Mirror` | `runtime_config_apply_patch` |
| `Reply`, `Unanswered` | the end of the handler: the reply is pushed; or there is no heap for it, no `request_id` for its topic, or no room in the queue |
| `NvsFlush` | the NVS driver writing a set entry early (only if `WriteThrough`) |
| `Restart` | power cut, abort (any `ESP_ERROR_CHECK`), `esp_restart` |

`ConfigStore` is the promise: a store whose durable contents change only by
committing one whole valid request, and an answer, if there is one, that says
which happened. Two constants weaken it where the code's surroundings do:
`Leaky`, a setting of the request gets through ahead of the commit, is set to
`WriteThrough`; `Erasable`, the defaults come back, to `EraseAtBoot`.

### EthernetService

| Model | Code |
| --- | --- |
| `bits`, `HandleEvent` with its tables `Sets` and `Clears` | the event group; `eth_event_handler`, `got_ip_event_handler` |
| `boot`, `ServiceInit` ... `MqttInit` | the calls of `app_main` up to `mqtt_service_init`, every error a restart |
| `broker` | `s_broker_uri`, as the gateway in it |
| `cable`, `offer`, `link`, `dhcp`, `addr`, `loop` | external: the wire, the DHCP server, driver, DHCP client, netif and event loop of ESP-IDF |

Events are posted when something happens and handled later, one by one, so that
`bits` runs behind `link` and `addr`; that is the whole difficulty.
`esp_eth_stop` has no caller, hence no STOP event, and LOST_IP has no handler.

### MqttSession

The node, the wire and the broker. The client task runs the event handler, so
with anything left in `todo` it neither dials nor notices a dead connection,
except where a write of the handler meets one (`Send`). The broker is the little
that MQTT guarantees: one connection per client id, a takeover by the newer
CONNECT, the will published for a connection that closes, clean sessions.
`Break`, `Refuse` and `Restart` are the faults: what is in flight is lost, each
end learns of it by itself, and a connection the node has given up may still
deliver its CONNECT. `refused` is history: calls that failed in a session that
lasts, whose results the handler ignores. `SessionIsWhole` says that these are
the only things a session can lack once its handler is through.

### PublishQueue

`sending[t]` is what task `t` still has to push: the sequence a command publishes
(`config_updated`, then its reply) is one list, so others interleave.
`PushSucceeds` and `PushTimesOut` are the two outcomes of `xQueueSend`; a
time-out in `app_main` restarts the node. The worker's `CheckConnected` and
`ClientAccepts`/`ClientRefuses` are separate because the session may change in
between. The esp-mqtt task runs its own event handler, so it notices no
disconnection while a push blocks it. `ClientLock` is whether the esp-mqtt
client holds its API lock meanwhile.

### CommandRouter

A message is a topic class and the lengths the checks look at; `Fragments` is
how esp-mqtt cuts it into DATA events (the first alone has the topic; cJSON reads
the object the data begins with and ignores what follows). `Accepts` is the
conjunction of the early returns of `command_router_handle`. `Handle` dispatches
one event and leaves in `todo` what the handler will push, in the order of the
code; a push that times out is only logged. `reboots[n]` is the reboot task of
message `n`: its publication does not wait in the queue nor for a session, its
result is ignored, and after its delay the node restarts.

### ImageTransfer

`ChunkCount`, `Offset` and `ChunkLen` are the code's arithmetic; a transfer is
the parts 0 (metadata), 1..n (chunks) and n+1 (done), each pushed in turn, the
first error ending it. A chunk's topic grows with its index and may stop
fitting. Nothing calls it yet; several captures run at once here, because
nothing in it forbids that. Behind the queue are `wire`, what the client has sent
and the broker has not received, and `outbox`, the QoS 1 messages it keeps until
they are acknowledged and sends again. `Break` loses the connection with all that
is on the wire; of the outbox some may get too old meanwhile. Chunks are QoS 0
(`image_transfer.c:91`) and are gone then; metadata and done marker are QoS 1.
`got` is what the broker has received, `lost` what a connection or a restart took.

### HeartbeatTask

One round is a push (`PushWait` ticks at most) and a delay. `Ticks` is
`pdMS_TO_TICKS(s_interval_s * 1000)` with both products taken modulo the
machine word. `SetInterval` may run at any time. `elapsed` and `period` are
history.

### MotionDetection

`s_state` is modelled word by word. A task's `plan` is the list of stores it
still has to do, in groups; the two words of a 64-bit time form one group, done
in either order, so that any reader may see a mix. Reads are single steps, the
two of `last_trigger_us` in the cooldown test included. The esp-mqtt task applies
at any time, also while `app_main` is in `motion_detection_start`: nothing in the
code keeps it from that. `updates` counts its applications, for a bound; `muddled`
is history: applications have overlapped, and none has since found the detector
off and itself alone. Stores keep the order of the source: the compiler may not move them
across the calls between them, and where it may, the groups would only merge.

## 3. Runs

| Run | Question | Answer |
| --- | --- | --- |
| `config_update` | entries reach flash at commit only, GPIO writes fail, boots erase, replies are not sent: is an update atomic and durable, what does its rollback restore? | `DurableMatchesRam`, `AcceptedUpdateIsLive`, `HeartbeatSetterNeverRefuses`, and it implements `ConfigStore`; a rollback that goes through restores every setting, and an armed detector unless the update had switched it off (then see `rollback_rewarms`); services the update does not name never flicker |
| `config_faults` | a build without PIR on the flash of a fuller build, entries may reach flash early, GPIO writes fail: what still holds? | an ok answer is live; what it set is durable until a later command names it; only what the update in progress asks for is written, in range, and nothing of the missing feature; the handler returns, without an ok for what failed |
| `network_boot` | cable, DHCP server and power change in any order: does the node find its broker? | it never sleeps on an address it has, never starts towards anything but a leased gateway, and once the surroundings stay good it comes up for good |
| `mqtt_session` | connections break inside handlers, calls are refused, the node restarts, old connections linger: is the presence right? | exactly; the flag is the one the queue assumes; a session whose handler is through lacks only what was refused in it, and the last one stays |
| `outbound` | one place in the queue, the client lock held in handlers: is anything accepted lost, doubled or reordered, does anyone block for ever? | no; it implements `OutboundFifo`; accepted publications get out once connected; a lost session is noticed |
| `commands` | cut payloads, full queue, reboot replies past the queue, restarts: does a message run once, whole, and with one reply in order? | yes; a scheduled reboot happens |
| `image_transfer` | several transfers through a small queue, long topics, lost connections, restarts: what does the receiver of a done marker know? | no chunk is behind it; none is missing but those lost with a connection or a restart; and as many chunks as `chunk_count` says are the image. Every part of a transfer that reports success is received or was so lost |
| `heartbeat` | intervals change during delays, the longest just fits the word | heartbeats are the interval apart, a new interval takes over |
| `motion` | commands at any time, during the boot too: do warm-up and cooldown hold although worker and updates share words? | yes, except a trigger judged while an update disables or starts the detector; and the window is the one of the last start until applications overlap, which is section 5's |
| `failed_update_leaks` | docs: apply_failed persists nothing | violated when an entry reaches flash before a later one fails |
| `boot_race` | docs: an ok update is live | violated: `app_main` applies an older value it had read |
| `rollback_rewarms` | docs: a failed update restores the previous live state | violated: an armed detector that the update had disabled warms up again |

`TypeOK` is an invariant of `config_update` and `outbound`; of the other
modules with proofs it is a theorem or part of an inductive invariant.

### Bounds, and why they are enough

- **Configuration.** Keys are the real five; values sit on both sides of each
  check (0, 1, 3600, 3601; 60000, 60001). Requests touch one key, several
  services, none, switch the detector and the illuminator both ways, and are
  malformed, out of range or unsupported. `config_faults` uses fewer requests
  because leaks multiply the states. There is no
  bound on the number of commands, failures or restarts.
- **Network.** Seven changes of the surroundings: a boot to `running` takes two
  (cable, offer), which leaves five for another gateway, a lost lease, a
  replugged cable or a power cut. The event loop holds five, as many as may pile
  up between two handled ones here.
- **Session.** Seven connections and three faults: each of a break, a refusal
  and a restart, or several of one; an old connection, its successor and a third
  coexist. More connections add behaviours in which nothing new goes wrong, as a
  fault is needed to end one.
- **Queue.** Three publications over a behaviour and a queue of one: a full
  queue, an item in hand, one task blocked and another pushing, a refusal and a
  restart in between. The client lock is held, the harder case.
- **Commands.** Two messages and a queue of two: a command's two publications,
  a full queue, a reboot overtaking the other's reply. Lengths are scaled down
  (client buffer 8, payload limit 12, request id 16, topics 42) so that each
  limit is met with and one past it.
- **Image.** Chunks of two bytes; images of no chunk, of whole chunks and with a
  short last one, one of which outgrows its topic; a queue of two; two parts on
  the connection, which is lost once: with a chunk on it, with chunk and done
  marker, or with a message that has been received but not acknowledged.
- **Heartbeat.** Scaled so that, as in the code, the longest interval in ticks
  still fits the word (3 * 10 * 10 < 320) and one second more would not.
- **Detector.** The clock ends at 3 and a word has two values: windows and
  triggers cross the word border. `app_main` applies once and the esp-mqtt task
  twice, each with a disabling setting or an enabling one with another cooldown,
  overlapping or not; the event loop holds one event. About a million states; the
  four safety properties are proved for all bounds.

`CHECK_DEADLOCK` is off in `network_boot`, `mqtt_session` and `image_transfer`
only: a node that is up while nothing changes any more, a settled session, and
transfers that are all over have nothing left to do.

### Fairness

- `ConfigCommand`: `WF(Handler)`. FreeRTOS keeps running the esp-mqtt task and
  each call of the handler returns. Nothing else is fair.
- `EthernetService`: weak fairness of the driver's link poll, of DHCP getting an
  answer while there is a server, of the event loop and of `app_main`. Cable,
  server, lease and power do as they like.
- `MqttSession`: weak fairness of dialling (`disable_auto_reconnect` is false),
  of the client noticing what arrived or died (keepalive), of the handler, of
  TCP delivering on a connection that lives, and of the broker closing a dead
  one. Nobody has to switch the node on, and faults owe nothing.
- `PublishQueue`: weak fairness of the worker, of the end of every push (room or
  500 ms) and of the esp-mqtt task getting to its CONNECTED and DISCONNECTED
  events; strong fairness of the client accepting, as it is asked again every
  250 ms. Sessions need not open and tasks need not publish.
- `CommandRouter`: weak fairness of the reboot task, which has the highest
  priority of the firmware's own tasks (8; the worker has 6, the others 5).
- `ImageTransfer`: weak fairness of each caller (a push returns after 500 ms), of
  the hand-over, which `PublishQueue` shows under a lasting connection, of
  delivery on a connection that lasts, and of the client sending again what is
  not acknowledged. `MaxBreaks` makes some connection last.
- `HeartbeatTask`: weak fairness of the task and of time.
- `MotionDetection`: weak fairness of the worker. The event loop owes nothing;
  `esp_event_post` ends by itself.

## 4. Proofs

All for every value of the constants that satisfies the assumptions in the
modules that declare them: every build and flash, every number of gateways,
connections and messages, every queue length, every length of payload and
buffer, every width of a word.

| Theorem | Says | From |
| --- | --- | --- |
| `ConfigCommandProofs!TypeCorrect` | `TypeOK` | - |
| `ConfigCommandProofs!RestartBringsBackRam` | `DurableMatchesRam` | entries reach flash at commit only |
| `ConfigCommandProofs!FailedLeavesNothing` | `FailedUpdateLeavesNoPersistedState` | commit only |
| `ConfigCommandProofs!AckedSurvives` | `AckedSettingsSurvive`, early entries included | no boot erases NVS |
| `ConfigCommandProofs!HeartbeatNeverRefuses` | the setter's own check never bites | - |
| `ConfigCommandProofs!OnlyValidWrites` | `WritesAreValid` | - |
| `ConfigCommandProofs!AcceptedIsLive`, `OthersUndisturbed` | `AcceptedUpdateIsLive`, `UnmentionedServicesAreUndisturbed` | - |
| `ConfigCommandProofs!FailedIsUndone` | `FailedUpdateRestoresLive` | - |
| `ConfigCommandProofs!HandlerEnds` | a command takes at most 17 steps of the handler | - |
| `ConfigCommandProofs!ImplementsStore` | `Spec => StoreSpec`, leaky and erasable as driver and boot are | - |
| `EthernetServiceProofs!AddressReported`, `BrokerIsLeased`, `LinkSettles` | `AddressIsReported`, `StartedWithBroker`, `LinkBitSettles` | - |
| `MqttSessionProofs!PresenceExact`, `LastingSessionIsWhole` | `PresenceIsExact`, `SessionIsWhole` | - |
| `MqttSessionProofs!AccountsBalance` | each packet a lasting session owes is in one place | - |
| `MqttSessionProofs!ImplementsFlag` | `Spec => FlagSpec` | - |
| `PublishQueueProofs!QueueTypeCorrect`, `NothingLost`, `OrderKept` | `TypeOK` with the queue's limit, `NothingLostOrReordered`, `TaskOrderKept` | - |
| `PublishQueueProofs!ImplementsFifo` | `Spec => FifoSpec` | - |
| `CommandRouterProofs!RunsOnce`, `EventsKeepOrder`, `OneReply`, `TopicsFit` | `RunsOnceAndWhole`, `EventsInOrder`, `AtMostOneReply`, `ExecutedHasTopic` | - |
| `ImageTransferProofs!DoneEndsWholeImage` | `DoneMeansComplete` | - |
| `ImageTransferProofs!SuccessArrivesWhole` | `SuccessIsWhole`: what `SuccessArrives` brings about is the whole image | - |
| `HeartbeatTaskProofs!HeartbeatsAreSpaced` | `GapIsTheInterval` | the longest interval in ticks fits the word (`HeartbeatAssumption`) |
| `MotionDetectionProofs!TriggerIsPast`, `CooldownKept`, `WarmupKept` | `LastTriggerIsPast`, `CooldownRespected`, `WarmupRespected` | - |
| `MotionDetectionProofs!WindowOfItsStart` | `StartedHasItsWindow` | - |
| `MotionDetectionProofs!ArmedStaysArmed` | a running detector keeps its window unless applications overlap | - |
| `MotionDetectionProofs!RoundEnds` | the worker is back within 9 steps of its own | - |

**Configuration.** Neither durability property is inductive. `Inv` adds what
the handler knows at each point: `Progress` (which program points, phases and
error codes go together, and that a patch past `Receive` is valid), `Staged`
(between the open and the commit, each entry set so far is pending or already
on flash), `Written` (while mirroring, and while replying ok, the patch is on
flash and its mirrored keys are in RAM), `Acked` (what was acknowledged is
valid, disjoint from the patch in progress, on flash and, unless the node is
booting, in RAM; this part needs boots that do not erase) and `InRange` (the
heartbeat interval in RAM, in the snapshot and in `app_main`'s hand is in its
documented range). Each step of the handler, of `app_main`, a restart, a flush
and an arrival has a lemma of its own. The refinement maps `NvsCommit` to the
abstract commit, `Receive` and `Reply` to the client's steps, `Unanswered` and
`Restart` to its crash, `NvsFlush` to a leak, `NvsErase` to an erase, and everything
else to a stutter. No assumption is needed: what a driver and a boot may do, the
store of the same constants may do, and no more.

`FailedLeavesNothing` is the other side of finding 1 (section 5): nothing but the
driver writing an entry before the commit leaves a part of a failed update behind.

`HandlerEnds` is what of `CommandEnds` can be proved. `StepsLeft` counts the
steps from each program point to the end, the keys still to be set (`todo`) and a
rollback with all its steps included: 17 at most, less with every step of the
handler, and nobody else's step adds to them. `Ready` says that
where the handler walks the patch a next key exists. Weak fairness of the handler,
which this leaves to assume, then brings it back; whether with a reply is another
matter.

What the services run with is a second layer on top of `Inv`, `LiveInv`:
`Reached` (for a command that came after the boot, the services the handler has
passed are as the configuration it applies says, on the way in and on the way
back), `Snapshot` (the getters return the snapshot but for the keys already
mirrored, so that the reply speaks of the same configuration), `Kept` (what the
patch does not name is as the snapshot has it) and `Dark` (no illuminator, no
light). A reply ok is then about services that match, a rollback that goes through
to its last service leaves them as the snapshot says, and each service set again
receives the value it already has. `Armed` adds that a detector that was armed
stays so through all of a command that does not switch it off.

**Network.** `AddressIsReported` needs that a DISCONNECTED, which clears the IP
bit, also clears the address; `StartedWithBroker` needs `BitBacked` (the IP bit,
its event and the address all stem from a lease of this boot). `LinkSettles`
follows the last link event still waiting in the loop, which is what the driver's
link is (`LinkInv`).

**Session.** `ConnInv` says for each connection whether its packets, its CONNECT,
its place with the broker and the client's state can go together (`Links`), and
what the handler's remaining list looks like (`Handling`), so that an
announcement still under way can only be read on the connection that sent it.
`SessionIsWhole` is not inductive: `Accounts` says that in an open session that
lasts, neither the handler's list nor the connection holds a packet twice, and
each of the three (presence, two subscriptions) is in exactly one place: still in
the list, in flight, refused, or done at the broker; and that a connection still
to be accepted finds a broker with nothing of it (`Fresh`).

**Queue.** `TypeOK /\ NothingLostOrReordered` is inductive; the work is in
three facts on sequences (splitting off a head, appending to a concatenation,
neutral elements) that move an item between the three places. Order per task is
`OrderInv`: ids of what a task still sends are ascending and above those it has
pushed, and every id in sight has been given out. The refinement is then step by step.

**Commands.** `RanInv` says that events with a topic are the first fragments of
messages not yet dispatched (`Fresh`). `LineInv` treats what is handed over, what
is queued and what the handler has left as one line, in which each message's
publications are a part of its ordered list, and the reply of a reboot still
unpublished is missing.

**Images.** Everything pushed of a capture is in the queue, on the wire, in the
outbox, received or lost (`NothingGone`), and what is kept for sending again is no
chunk (`KeptIsQos1`). Sending again undoes the order of the parts, so that what is
left to say is that nothing which may still arrive has a chunk behind the done
marker (`DoneLast`): chunks are never sent twice. A done marker received then
leaves every chunk received or lost; that as many chunks as announced are all of
them is a count of a subset (`FS_Subset`), and that they are the image without gap
or overlap follows from two lemmas on the arithmetic (`ChunksCover`,
`ChunksFollow`).

**Heartbeat.** What is gone and what is left of a delay make up the interval; the
arithmetic lemma is that no product leaves the word up to the longest interval.

**Detector.** `Typed` describes each task's outstanding stores exactly. On it
rest `SampledPast`, `LastInv` (what the two words of the last trigger may be while
a trigger or a reset is half stored), `CoolInv` and `WarmInv` (an undisturbed
worker sees the window or the trigger that was in force when it read the clock,
or an update has since disabled or started the detector). `WindowInv` adds
`Orderly` while the history is not `muddled`: at most one applier is inside, what
it read of `started` is still so, and `started` goes up only after both words of
the window. `muddled` ends where an application finds the detector off and itself
alone, for from there on it is as after a boot. That no step moves the window of
a detector that stays started follows (`ArmedStaysArmed`). `RoundEnds` counts what the worker still has to do in its
round, stores included: with weak fairness of the worker it is back at its wait.

**Model-checked only.** Liveness under fairness is out of the prover's reach:
`CommandEnds`, `NodeComesUp`, `SessionSettles`, `AcceptedIsHanded`,
`NoTaskStaysBlocked`, `SessionLossIsNoticed`, `RebootHappens`, `SuccessArrives`,
`IntervalTakesOver`, `WorkerComesBack`. Of four of them the part that needs no
fairness is proved: `HandlerEnds`, `LastingSessionIsWhole`, `SuccessArrivesWhole`,
`RoundEnds`. Every other property that a passing run checks is a theorem.

## 5. Findings

Shown by runs:

1. A failing update can leave part of itself in flash (`runtime_config.c:148`),
   against "all-or-nothing" (`runtime_config.c:137`): `failed_update_leaks`. With
   entries that reach the flash at the commit only, it is proved not to happen.
2. `app_main` can put an older value over an acknowledged update
   (`main/main.c:96`): `boot_race`.
3. The rollback of an update that had disabled an armed detector starts it afresh,
   with a new warm-up and without its last trigger (`motion_detection.c:82`), where
   `docs/runtime-config.md:67` and `:98` restore the previous live state:
   `rollback_rewarms`.

Met while modelling; the models have the behaviour, no run is spent on it:

- The illuminator output changes before the commit (`command_router.c:383`),
  where `docs/ir-illuminator.md:121` has it follow.
- A disabling update lets a trigger of the warm-up window through
  (`motion_detection.c:124`, `docs/motion-detection.md:71`).
- An update that is applied while `app_main` starts the detector can leave it
  started without a warm-up, or with half of two windows (`motion_detection.c:89`),
  where `docs/motion-detection.md:69` promises a fresh one. `main/main.c:93` starts
  MQTT before `:99` starts the detector, so this is the code's; it lasts until an
  update finds the detector off. `StartedHasItsWindow` and `ArmedStaysArmed`
  except exactly this (`muddled`); the other properties of `MotionDetection` hold
  through it. `ConfigCommand` has the overlap too, and its properties with `Calm`
  are about commands that come later.
- A GOT_IP handled after the link went down leaves the IP bit set without a link
  (`ethernet_service.c:85`): the bit says that there was an address.
- The broker's address is read from DHCP once (`mqtt_service.c:84`,
  `docs/ethernet-mqtt.md:96`): after a new lease with another gateway the node
  keeps dialling the old one until it restarts.
- The results of the presence publication and of the subscriptions are ignored
  (`mqtt_service.c:105`): a session can be up, shown offline or deaf, until the
  next one. Presence is also announced before the subscriptions.
- A `cmd/config` with an empty `request_id` is carried out and never answered,
  since its reply topic cannot be built (`docs/runtime-config.md:85` rejects a
  missing one); nor is one whose reply cannot be allocated
  (`command_router.c:404`), which does not publish `config_updated` either.
  `Unanswered` is both.
- Chunks are QoS 0 and the done marker QoS 1 (`image_transfer.c:91`, `:121`): a
  done marker can end an image with holes. `chunk_count` shows them, as
  `image_transfer.c:103` says; nothing sends them again.
- The reply to `cmd/reboot` is lost when the session is down at that moment; the
  delay before the restart is no guarantee (`command_router.c:228`). The restart
  also drops what is queued, which `docs/ethernet-mqtt.md:762` allows.
- Up to a tick rate of 1193 Hz an interval of 3600 s fits 32 bits on its way to
  ticks; nothing checks it.

## 6. Not modelled, and why

- JSON utilities: one bounded print into a caller's buffer, without state; that
  it may fail is an outcome of the handlers and of `ImageTransfer`.
- Contents of payloads and texts of topics, log output, driver pins, the IPv4
  string of the heartbeat. Failed allocations are an outcome of
  the handlers of `CommandRouter` and of `ConfigCommand`.
- `EthernetService` lets a post to a full event loop wait; ESP-IDF's own posts
  may give up. `MotionDetection` has the firmware's post, which does.
- A read of a 64-bit time torn by more than one store, a compiler that reorders
  stores of different fields, and the microseconds inside a millisecond.
- `set_capture_active`, `motion_detection_is_armed` and
  `motion_detection_get_last_trigger_us` have no caller.
- ESP-IDF itself: NVS, esp-mqtt, the event loop, DHCP, lwIP and FreeRTOS appear
  as what the firmware can observe of them.

## 7. What would come next

- Liveness of an accepted trigger up to its event.
- The modules' composition as one specification, in place of the argument by
  `SessionFlag` and `OutboundFifo`; TLC cannot reach it, the refinement proofs can.
- What of the remaining liveness properties needs no fairness, as for the handler
  and the worker: steps left of a boot, of a session's handler and of a transfer.
