# Verification of the FreeRTOS / AWS IoT integration for the Renesas RX65N

TLA+ models of the parts of this repository in which tasks, callbacks, interrupts,
the network and power failures meet, the TLC configurations that check them on small
instances, and proofs of their safety properties for every instance.

The program is the FreeRTOS reference integration of AWS IoT for the CK-RX65N board, a port
of the one for the STM32U5. Its tasks share one core under a preemptive kernel. The
priorities that matter below (`src/source/app_main.c` and the code that creates the
tasks): network 23, MQTT agent 10, command line 10, environment publisher 6, shadow,
Defender and motion publisher 5, OTA 1; the socket notification thread has the priority
of the idle task, and the flashing task of the OTA platform layer the highest.
The repository has no design documents; what the code is meant to do is said by its
comments, headers and assertions, and those are what the properties quote. The port is
unfinished (the build enables only `logging.c` so far), so the sources are the
reference, not a running binary.

## 1. Inventory

| component | state | operations | hard behaviour |
|---|---|---|---|
| MQTT agent command traffic (`mqtt_agent_task.c`, `freertos_command_pool.c`, callers in `ota_update_task.c`, `motion_sensors_publish.c`) | pool of commands, message queue, notification flags of the agent, completion contexts, pending acknowledgements | take / post / release a command, notify, wait with or without timeout; agent: connect, receive, process, cancel all | posts of several tasks interleave; notifications coalesce; a wait times out and the answer comes later; the connection is lost with commands everywhere |
| Subscription manager (`mqtt_agent_task.c`, `subscription_manager.h`) | filters, SUBACK states, reference counts, list of callbacks, mutex | `MqttAgent_SubscribeSync`, `MqttAgent_UnSubscribeSync`, resubscribe, incoming publish | the mutex is released while a request is under way; the agent keeps it while it is disconnected; slots are freed, compressed and used again |
| Device shadow task (`shadow_device_task.c`) | power state, reported state, token, document, notification | report, wait, time out; delta / accepted / rejected callbacks | callbacks of the agent's task between any two steps; late, lost and foreign responses |
| Key value store (`kvstore*.c`) | cache, change marks, heap buffers, littlefs files | set, get, commit, boot | power fails during a commit; a write or a sync fails; setters that take no mutex between the steps of a read |
| OTA platform layer (`ota_pal_rx65n.c`) | packet queue, semaphore, fragment list, flash, image state | create, write block, close (check the signature), abort, activate, set/get image state | flashing task, interrupt and OTA agent share the flash; queue full; an operation of the flash fails; reset |
| Flash driver (`r_flash_rx/src/r_flash_{rx,group,fcu}.c`) | lock, state, current parameters, sequencer, interrupt requests | open, close, set the callback, erase, write; ready and error interrupt | an error interrupt while the first unit is fed; a ready interrupt after a forced stop; areas across banks and block sizes, in 32-bit arithmetic |
| TLS transport (`mbedtls_transport.c`) | connection state, socket, TLS session, notification thread | configure, connect, send, recv, disconnect | the thread selects on a socket that is about to be closed; failures in the middle of a connect |
| OTA update task (`ota_update_task.c`) | event buffer pool and its mutex, thing name, subscriptions, OTA agent state | task, job and stream callbacks, subscribe / unsubscribe for the OTA agent, application callback | buffer pool and event queue at their limit, messages before the pool exists and after the task has ended |
| Device Defender (`defender_task.c`, `defender_metrics_collector_lwip.c`) | report buffer, report id, wait flag, two notifications, subscriptions | collect, publish, wait for PUBACK and response, end | late, lost and foreign responses; a publish that timed out; connections that come and go while they are listed; one of two subscriptions failing |
| Motion and environment publishers | - | read sensors, publish | the timed publish only |
| Command line, PKI commands (`cli/*.c`) | command table, line buffer | parse and run commands | none in this port: the task deletes itself |
| UART console (`cli_uart_drv.c`) | double receive buffer, transmit buffer, line state | receive interrupt, transmit thread, line editing | none in this port: never started |
| Logging (`logging.c`) | one print buffer | format and write a line | none in this port: the output functions are empty |
| PKI objects (`crypto/pki/*.c`) | PKCS #11 sessions, PSA handles, buffers | read, write, generate | ownership on failure paths |
| Start-up (`app_main.c`) | `xSystemEvents` | create tasks, initialise | order of initialisation |
| Ports, hooks, stubs, board support | - | - | none of their own |

How they interact: tasks reach the MQTT agent only through its queue and a task
notification; the agent's task runs all their callbacks, and calls the TLS transport;
the transport's thread notifies the agent; OTA blocks go from a callback of the agent
through the OTA agent's events to the platform layer; the key value store is read by
every task at its start and written by the command line.

What makes each modelled component correct, in a sentence: commands are neither lost nor
doubled and every caller is answered; callbacks belong to the filter they were
registered for and counts are exact; the power state follows the newest delta and a
late answer is never taken for the current one; committed values survive a power
failure and nothing else does; no block that was accepted is lost on its way into flash,
and the flash is never asked while it is busy; the flash driver does one operation at a
time, on its area, and reports it once; an event buffer is not reused while its event is
open; a Defender report is well formed, concluded, and judged by a recent response; the thread never uses a socket
that is not its own and stopping it ends.

The hazards of this code, each at its line, are in `PROJECT.json`, with the properties
that cover them or the reason why none does.

## 2. Modules

| module | models | composed with |
|---|---|---|
| `AgentCommands` (`MCAgentCommands` adds symmetry) | command pool, queue, notification, requesting tasks, agent | implements `RequestService` for the synchronous tasks (INSTANCE with a refinement mapping) |
| `RequestService` | abstract: a request, its ticket and its one answer | - |
| `SubscriptionManager` (`MCSubscriptionManager` names tasks and filters) | subscription tables, mutex, the two calls, reconnects | takes a request as queued, sent, answered: the way in between is `AgentCommands` |
| `ShadowDevice` | shadow task, its callbacks, the service | - |
| `KVStore` | cache, files, commit, boot, reader | implements `ConfigStore` (INSTANCE with a refinement mapping) |
| `ConfigStore` | abstract: staged and saved values | - |
| `OtaPal` | otaPal functions, flashing task, flash interrupt | takes from the driver what `FlashService` promises: an operation ends once, well or with an error |
| `FlashDriver` | the flash driver in background mode | implements `FlashService` (INSTANCE with a refinement mapping) |
| `FlashService` | abstract: one operation, on an area, with one report | - |
| `OtaUpdate` | OTA update task, event buffers, callbacks, OTA agent | its blocking MQTT calls are `AgentCommands` |
| `Defender` | Defender task, metrics collector, callbacks, agent and service | - |
| `TlsTransport` | TLS context, socket, notification thread | - |

The theorems about a module `M` are in `MProofs`; those about `OtaPal` and `FlashDriver` are together in
`FlashProofs` (section 4).
Every definition that stands for code has an entry in `PROJECT.json` ("map") with the
lines it stands for; definitions marked external model libraries (coreMQTT-Agent,
mbedtls, lwIP, littlefs, the OTA agent, the flash sequencer, the services of AWS IoT) from how this code uses
them.

**AgentCommands.** `pool` and `queue` are the two FreeRTOS queues, `flags` the notification
value of the agent (`eSetBits`), `pc/request/answer` the program counter, command and
notification of a requesting task, `owner[c]` the task in the completion context of
command `c`. A post is four steps (`ClearNotification`, `GetCommand`, `Send`,
`NotifyAgent`), since a task can be preempted between any two. `Receive` clears all flags and
takes at most one command, none if the socket was flagged too. `Timeout` leaves the
command where it is. The agent's cycle is `TlsConnected`, CancelAll (`Drain...`,
`CancelPending`), `MqttConnected`, the command loop, `LoopFails`, CancelAll.

**SubscriptionManager.** A section under the mutex is one step, with one exception:
`SubscribeSync` reads a SUBACK state in two places and `prvSendSubRequest` writes it
with no lock, so `Subscribe` (lock and search) and `Populate` (fill in and unlock) are
two steps. `CompressedSubs` (with `PlaceIn` and `ElementAt`, the write index of the loop) and the compression of callbacks are the loops of
`prvCompress...`. The reset of the SUBACK states by `memset( ..., 0x80, ... )` on a 4-byte
enum is modelled as what it is: a value that is no SUBACK code. `Prefix` says which
filter's text is a prefix of which, since the code compares with `strncmp` over the
stored length.

**ShadowDevice.** One step per statement of the loop that another task can observe. A
publish command refers to the static document by pointer, so the service gets what the
document holds when the agent sends it. A token is the tick count modulo `TokenWrap`;
`strtoul` makes 0 of another client's token.

**KVStore.** A value is a length and an identity. The cache entry holds lengths up to
`Inline` in the pointer itself and longer ones in a heap block. A commit opens, writes
and syncs one file after the other; opening creates an empty file, and the contents
become durable at the sync, which may fail like a write but whose result the code discards
(`cli.unsynced` are the keys it failed for, as history). A read is three steps (`GetString`: the pointer and
the room behind it; `GetLength`; `GetCopy`), since the setters take no mutex.
`GetValueLengthFromImpl` is computed modulo `SizeLimit` (`size_t`). `Restart` may come between
any two steps.

**OtaPal.** Every job chooses whether its image ends inside a page. Blocks are queued for
the flashing task; the last block of an image with a tail is cut into pages through the
fragment list; the tail is programmed by the close. `FlashTaskBlocked` guards every step
of the OTA agent: the flashing task has the highest priority of a single core. There is one way round:
`ota_flashing_callback` gives the semaphore from the interrupt and asks for no switch, so that a
flashing task it has made ready (`task.at = "woken"`) may find the semaphore taken by the agent that
was interrupted, and blocks again (`FlashBlocksAgain`).
`callback` is which of the two flash callbacks is installed. A write to a busy flash is
refused, and the code does not look. An operation may end with an error (`Ends(FALSE)`, at
most `MaxFaults` times): `bad` is what it has left unusable, and since neither callback looks
at the event, the code goes on as after a success.

**FlashDriver.** A call is split where an interrupt can change what it goes on with: take the
lock, check and set the parameters, start the first unit (feeding a write in two steps), and on
an error reset and release. The interrupt routines are one step each, and run before any step of
a caller when they are enabled. An address is a multiple of the small block modulo `Modulus`,
so that the arithmetic of `check_cf_block_total` and `is_cf_overflow` wraps as in 32 bits.
`job`, `worked` and `outcome` are history, and with `opened` and `irq` the state of `FlashService`.
`Overlapping` says whether two tasks may be in calls at the same time; in this application they
are not, since the flashing task has the highest priority and the OTA agent hands the flash
over with the semaphore.

**OtaUpdate.** `used/data` are the event buffers, `events` the queue of the OTA agent with
`signalled`, the message each event was made for, as history. The MQTT agent runs the callbacks
of all matching filters one after the other (`delivery.todo`), between any two steps of the task
and of the OTA agent. `leaked` are the buffers whose event was refused: the code does not look at
the result. `Exit` unsubscribes one of the two topics and frees the name.

**Defender.** The report is encoded section by section; each counts and lists under the lock
of the network stack (`CountPorts`, `AppendPorts`; the three functions of the collector have the
same form). The loops overwrite the error of every block but the last, so that a list may come out with
any number of blocks that includes the last one (`Appended`); `buffer.lists` says whether a list
in the report is `"short"` or, what must not be, `"torn"`. A publish refers to the report buffer by pointer. `result.acked` and the `during` and
`late` of a response are history.

**TlsTransport.** `thread` is `vSocketNotifyThread` with its copy of the socket,
`handle`/`notified` are what the agent and the thread share. Descriptors are used again.
`StopPoll` is one round of `vStopSocketNotifyTask`. The thread clears its handle (`ThreadExit`)
and deletes itself (`ThreadDelete`) in two steps, between which the agent may run and even create the
next thread. A close notify of TLS is an item to read, after which TCP may stay up; the end of the file is
a read of 0 bytes, after which the loop goes on. `sent` is what the socket took of a record.

## 3. Runs

`tlc -workers 2 -config <cfg> <module>`; each takes under three minutes.

| run | module / cfg | what it checks and shows |
|---|---|---|
| `agent_commands` | `MCAgentCommands` / `AgentCommands.cfg` | `PoolConserved`: a command is in exactly one place (free, with a task, queued, with the agent, unacknowledged) through failures, timeouts and CancelAll. `QueueNeverFull`, `NoOrphan`. `SyncRequests`: the synchronous requests implement `RequestService`. |
| `agent_short_queue` | `AgentCommands` / `AgentCommandsShortQueue.cfg` | A queue shorter than the pool, so that posting fails and the command is given back; `PendingConcluded` (liveness): an unacknowledged command is concluded by the broker or by CancelAll. |
| `agent_lost_wakeup` | `AgentCommands` / `AgentCommandsLostWakeup.cfg` | Violation of `WaitingMessageNotified` (the finding below). |
| `subs_shared` | `MCSubscriptionManager` / `SubscriptionsShared.cfg` | Two tasks on two shared filters, through a lost connection: `LockDiscipline`, `CountsExact`. |
| `subs_one_session` | `MCSubscriptionManager` / `SubscriptionsOneSession.cfg` | Each filter with one client, as in the application, an exhausted heap, both QoS: `RefCountExact`, `SlotKeepsFilter`. |
| `shadow_device` | `ShadowDevice` / `ShadowDevice.cfg` | `CurrentIsLatest`, `TakenFromAnswer`, with deltas repeated and reordered and responses late, lost and foreign. |
| `kv_store` | `KVStore` / `KVStore.cfg` | `StoreSpec`: the store implements `ConfigStore`. `CleanIsSaved`, `NoOverrun`, and `OnlySyncIsSilent`: of all failures of a commit only that of a sync goes unreported. With power failures, failing writes and syncs and a reader between whose steps values change. |
| `pal_update` | `OtaPal` / `OtaPal.cfg` | `PagesConserved`: from the first block to the check of the signature no accepted page is lost or programmed twice, and the length counts those given to the flash. `NeverRefused`, `CloseReturns` (liveness). For images with and without a tail, blocks in any order, full queues, aborts, an operation of the flash that fails, interrupts that do not switch to the task they wake, and a reset. |
| `flash_driver` | `FlashDriver` / `FlashDriver.cfg` | `ImplementsService`: the driver implements `FlashService`, fairness of the report included. `EraseCheckExact`: the check of an erase against the layout of the blocks. `LockedWhileWorking`. |
| `ota_update` | `OtaUpdate` / `OtaUpdate.cfg` | `PayloadIntact`, `BuffersConserved`, `BufferComesBack` (liveness), with messages at every moment of the task's life and a full pool and queue. |
| `defender` | `Defender` / `Defender.cfg` | `ReportWellFormed`: no list in a published report is longer than it announces, or empty although it announces blocks. `StatusIsRecent`, `NoDanglingContext`, `ReportConcluded` (liveness). With late, lost and foreign responses, failures of every call and blocks whose error is lost. |
| `tls_connection` | `TlsTransport` / `TlsConnection.cfg` | `SocketsOwned`, `ConnectsFresh` (no used session, no earlier thread that has more to do than to delete itself), `StopReturns` (liveness), with resets, ends of file and close notifies. |

Each module has a type invariant `TypeOK` (`DriverTypeOK` in `FlashDriver`), checked by its main run.

### Bounds

The safety properties of all components are proved for every size (section 4); for these the bounds
matter only to what the runs reach.

* Agent: a pool and a queue of 3 for two synchronous tasks and one with a timeout, so
  that the pool can be emptied by timed-out publishes alone and every kind of task can
  meet every other; a pool of 2 with a queue of 1 where posting is to fail.
* Subscriptions: two tasks, two filters; 2 slots make the tables overflow, 3 leave a free
  slot behind two used ones, which the compression and the search need. One loss of the
  connection reaches every state of the agent's cycle, since the tables keep no
  memory of earlier losses but the SUBACK states, which one reset overwrites.
* Shadow: `TokenWrap` 3 gives tokens 0 (cleared) and two others; two publish commands
  in the agent, so that a late one and the current one coexist; 2 versions of the
  desired state, which is an old and a new delta; the task reads its notification count
  only as zero or not.
* Store: two keys, one that has a file and one that has none; lengths 1 to 3 with
  `Inline` 1 are a value in the pointer, a value in a block and a longer one; `SizeLimit` 64
  only has to exceed every real size. One power failure: a restart forgets everything but
  the files, and every file state a restart can find is reached before it.
* OTA platform layer: 4 whole blocks and a last block of 3 pages and a tail overflow a queue of 2 (one
  packet is being programmed, one is held by the task) in `otaPal_WriteBlock` and in the
  assembly. Two jobs and one reset, so that a job follows an abort, a rejected image and a reset.
* Flash driver: 2 small and 3 medium blocks of 2 units in each of two banks, up to 5 blocks or
  units in an operation: areas within one size, across both, to the bottom of a bank and past it.
  `Modulus` is 2^32 in units of 8 KiB.
* OTA update task: 2 buffers, a queue of 3 and 4 messages: the queue can refuse while a buffer is
  free, the pool can be empty while the queue has room, and a freed buffer is filled again.
* Defender: 3 reports, so that an answer can be two reports late; one response on its way and
  lists of 0 to 2 connections: with two, the error of one can be lost and the list be neither empty
  nor complete.
* TLS: two descriptors, so that a closed one is or is not used again; two items in the
  receive buffer, a record of two bytes, two root certificates (good after bad and bad
  after good).

Deadlock is checked except where the program may stop: the shadow, subscription, OTA and store
runs end when a bound on deltas, losses, jobs, messages or crashes is reached or the program
halts in an assertion. In `flash_driver` it may stop for good: an operation that is accepted after the driver
was closed and opened again, with no callback set since, raises no interrupt and never ends.

### Fairness

* Agent (`AgentCommands!FairSpec`): the agent's task keeps running (weak fairness);
  tasks that post cannot keep the drain of CancelAll busy for ever, because they run at
  priority 1 to 6 and the agent at 10 (strong fairness of `DrainDone`); a broker that was
  sent a packet acknowledges it or the keep-alive of MQTT ends the loop (strong
  fairness). Nothing is assumed of the requesting tasks or of the network accepting a
  connection.
* OTA (`OtaPal!FairSpec`): the flash ends what it began, the flashing task runs when it
  can, and the OTA agent goes on with a close.
* TLS (`TlsTransport!FairSpec`): `vStopSocketNotifyTask` delays a tick in each round, so the
  thread runs although it has idle priority; while the agent waits for the thread, after a reset or
  after a close notify of either side, the connection of TCP ends: the peer closes, or lwIP gives up. This last is an
  assumption about the broker. The code does not enforce it, since the select of the thread has no
  timeout and no notification interrupts it: without it TLC refutes `StopReturns` (the agent
  reads the close notify, the thread selects, and nothing more arrives).
* Flash driver (`FlashDriver!DriverFairSpec`): a call returns, the sequencer ends what it was given,
  the core takes an enabled interrupt.
* OTA update task (`OtaUpdate!FairSpec`): the task of the OTA agent runs when it has an event.
* Defender (`Defender!FairSpec`): the task runs when it is ready; all its waits have timeouts.
  Nothing is assumed of the agent, the broker or the service.

### Finding

**A lost wakeup** (`mqtt_agent_task.c:524`). The notification value is cleared as a
whole and one command is taken per notification, none if the socket is flagged too. Two posts that
coalesce leave a command in the queue and the agent blocked without a notification; it
stays until another post or socket event notifies the agent, since a receive that times
out does not look at the queue.

### Further statements

The modules state more of what comments and headers say and the code does not do. No listed
run repeats them; each is refuted by TLC when it is put into a configuration with
the constants below (the other constants as in the module's main cfg, and deadlock not
checked).

| statement | constants | source |
|---|---|---|
| `AgentCommands!ArgumentsInScope`: "Wait for command to complete so MQTTSubscribeInfo_t remains in scope" | `SyncTasks = {}`, one timed task | `ota_update_task.c:966`, returns at a timeout (970) |
| `AgentCommands!TimedAnswerIsForRequest`: "so the receiving task can check the value" | the same | `motion_sensors_publish.c:101`, nothing is compared |
| `SubscriptionManager!NoSelfLock`: `configASSERT_CONTINUE( !MUTEX_IS_OWNED( ... ) )` | as `subs_shared` | `mqtt_agent_task.c:1152`: after a resumed session no branch unlocks, and the next incoming publish takes the mutex again with `portMAX_DELAY` |
| `SubscriptionManager!Resubscribed`: "Re-subscribe to all the previously subscribed topics" | `OwnFilters`, one loss | `mqtt_agent_task.c:600`, `xStatus` starts as `MQTTBadParameter` |
| `SubscriptionManager!CallsComplete`: "Wait for any subscription related calls to complete" | `OwnFilters`, one loss | `mqtt_agent_task.c:1218`, calls wait outside the mutex |
| `SubscriptionManager!UnsubscribeRemoves`: "Remove the specified callback" | `SharedFilters`, no loss, 3 slots | `mqtt_agent_task.c:1723`, looks for a count of 0 |
| `SubscriptionManager!SubscribedOrRequested`: "Subscribe if not already subscribed" | `Nested`, no loss | `mqtt_agent_task.c:1445`, `strncmp` over the stored length |
| the same | `Unrelated`, `QoS = {0}`, one loss, 3 slots | `mqtt_agent_task.c:1224`, `memset` of an enum |
| `ShadowDevice!InitialUpdateSent`: "so that an update is initially sent" | `FairSpec` | `shadow_device_task.c:719`, all zeros |
| `ShadowDevice!OnlyOwnResponseWakes`: "may not match if the response is not for us" | `Foreign = TRUE`, `MaxNotified = 2` | `shadow_device_task.c:584`, `strtoul` makes 0 |
| `ShadowDevice!InSync`: "to ensure we resend the report" | `Foreign = FALSE`, `MaxVersion = 3`, `MaxNotified = 2` | `shadow_device_task.c:816`, the token is cleared too late |
| `KVStore!LengthIsStored`: "length of the value stored in the KVStore or 0 if not found" | as `kv_store` | `kvstore_nv_littlefs.c:96`: power fails when the file is created and not yet written; its length underflows, and each later boot ends in a failed assertion |
| `KVStore!BufferReused`: "Re-use already allocated buffer" | as `kv_store` | `kvstore_cache.c:130`, the pointer is overwritten |
| `KVStore!CommitTellsTruth`: "Configuration saved to NVM." | as `kv_store` | `kvstore_nv_littlefs.c:250`, the results of `lfs_file_sync` and `lfs_file_close` are discarded: a set, a commit whose sync fails, and success is returned with the old value in flash |
| `KVStore!ReadStaysInside`: a value is read from inside its buffer | as `kv_store` | `kvstore_cache.c:263`: a reader has the address of a value inside the pointer, a setter makes the value longer, and the reader asks for the length then |
| `OtaPal!WholeImageChecked`: the semaphore that the close takes says that the image is in flash | as `pal_update` | `ota_pal_rx65n.c:583`: the interrupt (1374) gives the semaphore without a switch, and the close takes it while the flashing task holds a packet and another is queued; a good image is then rejected |
| `OtaPal!SelfTestAfterReset`: "reset for self testing" | as `pal_update` | `ota_pal_rx65n.c:241`: the image state is in RAM, and the reset that starts the self test loses it |
| `OtaPal!TailReplaced`: "Replace length bytes from offset." | as `pal_update` | `ota_pal_rx65n.c:555`, the offset in the image indexes a page |
| `OtaPal!HeaderUpdated`: "User firmware image header updated." | as `pal_update` | `ota_pal_rx65n.c:1377`, the callback does not look at the event |
| `FlashDriver!ImplementsService`, `LockedWhileWorking` | `Overlapping = TRUE` | `r_flash_group.c:1478`, the state is looked at without the lock; `r_flash_group.c:1187`, a second release |
| `OtaUpdate!ThingNamePresent`: `configASSERT( pcThingName != NULL )` | as `ota_update` | `ota_update_task.c:1333`, the notify callback stays registered |
| `OtaUpdate!PoolReady`: the mutex of the pool exists when a message comes | as `ota_update` | `ota_update_task.c:1221`, subscribed before line 1256 creates it |
| `OtaUpdate!NothingLeaked`: every event buffer comes back | as `ota_update` | `ota_update_task.c:711`, the result of `OTA_SignalEvent` is not looked at |
| `Defender!ListsComplete`: the number in a section is that of its list | as `defender` | `defender_metrics_collector_lwip.c:539` (and 231, 375): the error of a block is overwritten by the next |
| `Defender!PublishedIsAcked`: "true if the report is published successfully;" | as `defender` | `defender_task.c:530`, a wait that gives up stores 0, which is `MQTTSuccess` |
| `Defender!ResponseIsForReport`: "Check if the response is valid and is for the report we published." | as `defender` | `defender_task.c:557`, everything is valid |
| `Defender!BufferInUse`: the buffer is that of the publish that waits to be sent | as `defender` | `defender_task.c:530`, the task goes on after a timeout |
| `TlsTransport!OldThreadGone`: the old thread is gone when the next one gets its stack and control block | as `tls_connection`, `Spec` | `mbedtls_transport.c:190`, the handle is cleared before the thread deletes itself |
| `TlsTransport!SentInOrder`: "Sends data over an established TLS connection." | as `tls_connection`, `Spec` | `mbedtls_transport.c:363`, the loop starts at the first byte again |

## 4. Proofs

`tlapm <module>.tla` checks each of the modules below from nothing. A theorem holds for every value
of the constants that satisfies the named assumptions of the component's module (positive sizes
and bounds, names that differ from each other, NULL that is no object); no other assumption is
made, but for two hypotheses that theorems state: `OneSession` (two theorems on the subscription
manager) and `~Overlapping` (three on the flash driver).

| module | theorem | states |
|---|---|---|
| `AgentCommandsProofs` | `TypeCorrect` | `Spec => []TypeOK` |
| | `PoolConservation` | `Spec => []PoolConserved` |
| | `QueueHasRoom` | `Spec => []QueueNeverFull` |
| | `NoOrphanedCaller` | `Spec => []NoOrphan` |
| | `AnswersMatch` | `Spec => []AnswerIsForRequest` |
| | `RequestsRefine` | `Spec => SyncRequests`: synchronous requests implement `RequestService` |
| `SubscriptionManagerProofs` | `ManagerTypes` | `Spec => []TypeOK` |
| | `LockIsHeld` | `Spec => []LockDiscipline` |
| | `CountersAreExact` | `Spec => []CountsExact` |
| | `SlotsKeepFilters` | `OneSession` implies `Spec => []SlotKeepsFilter` |
| | `RefCountsAreExact` | `OneSession` implies `Spec => []RefCountExact` |
| `ShadowDeviceProofs` | `ShadowTypes` | `Spec => []TypeOK` |
| | `NewestDeltaWins` | `Spec => []CurrentIsLatest` |
| | `ReportedFromAnswer` | `Spec => TakenFromAnswer` (an action property) |
| `KVStoreProofs` | `StoreTypes` | `Spec => []TypeOK` |
| | `CleanValuesAreSaved` | `Spec => []CleanIsSaved` |
| | `OnlySyncsAreSilent` | `Spec => []OnlySyncIsSilent` |
| | `NothingOverruns` | `Spec => []NoOverrun` |
| | `StoreRefines` | `Spec => StoreSpec`: the store implements `ConfigStore` |
| `FlashProofs` | `PalTypes` | `Spec => []TypeOK` |
| (`OtaPal`) | `PagesAreConserved` | `Spec => []PagesConserved` |
| | `HeaderComesLast` | when the header of an accepted image is written, nothing is queued or with the flashing task, and the flash is free |
| | `WritesAreAccepted` | `Spec => []NeverRefused` |
| `FlashProofs` | `DriverTypes` | `~Overlapping` implies `DriverSpec => []DriverTypeOK` |
| (`FlashDriver`) | `LockFollowsWork` | `~Overlapping` implies `DriverSpec => []LockedWhileWorking` |
| | `EraseCheckIsExact` | `DriverSpec => []EraseCheckExact` |
| | `DriverImplementsService` | `~Overlapping` implies `DriverSpec => ServiceSafety`: the driver implements `FlashService` without its fairness |
| `OtaUpdateProofs` | `OtaTypes` | `Spec => []TypeOK` |
| | `PayloadsAreIntact` | `Spec => []PayloadIntact` |
| | `BuffersAreConserved` | `Spec => []BuffersConserved` |
| `DefenderProofs` | `DefenderTypes` | `Spec => []TypeOK` |
| | `ReportsAreWellFormed` | `Spec => []ReportWellFormed` |
| | `StatusesAreRecent` | `Spec => []StatusIsRecent` |
| | `ContextOutlivesUsers` | `Spec => []NoDanglingContext` |
| `TlsTransportProofs` | `TransportTypes` | `Spec => []TypeOK` |
| | `SocketsAreOwned` | `Spec => []SocketsOwned` |
| | `ConnectionsAreFresh` | `Spec => []ConnectsFresh` |

Every module proves `Init => IInv` and `IInv /\ [Next]_vars => IInv'` for an inductive invariant
`IInv` (`DriverInv` for the flash driver), one lemma or step for each action, and the theorems follow from it. TLC has checked each
`IInv` on the component's run as well. The specifications that the runs with fairness use imply
these `Spec`s, so that the safety part holds under fairness too.

**AgentCommands.** `IInv` is `TypeOK /\ PoolConserved /\ RequestHeld /\ ContextKnown /\
RequestOrAnswer`. `PoolConserved` alone is not inductive: that the command a task is about to
post is a real one, which no other place has, needs `RequestHeld` (what `request[t]` is at
each step); that a conclusion notifies somebody who waits for that very command needs
`ContextKnown` (a command in flight names a task, and for a synchronous task it
is the command of its current request), and `RequestOrAnswer` (such a request is in flight or
answered, never both) is `NoOrphan` and `AnswerIsForRequest` in one. The lemmas on
queues (`TailElements`, `AppendElements`, `DistinctLen`) say how a FIFO of distinct commands
changes; `DistinctLen` bounds its length by counting (an injection into the
commands other than one), which gives both `ReleaseAccepts` (a release finds room in the pool)
and `QueueHasRoom`. The step of each action moves one command from one place to another
(`MoveInFlight`, `ConcludeStep`, `OnlyControl`) or is proved by itself.

In the refinement of `RequestService` the ticket of a synchronous request is its command and the
reply is the value of the notification, both from the post to the return of the wait. `Send`, `Conclude` and `Answered`
are the steps of the service; everything else stutters, a timeout of another task included. That `Send` is a `Post`
says that no other open request has the command, although it may have been used, and answered, by a
task that has not run since: open requests are in flight (`RequestOrAnswer`), and a command that is
about to be posted is not (`PoolConserved`). That `Conclude` is an `Answer`, the first, is
`ContextKnown` with the second half of `RequestOrAnswer`.

**SubscriptionManager, all applications.** `IInv` is `TypeOK /\ LockDiscipline /\ CountsExact /\
EntriesCleared /\ CallKnown`. `CountsExact` needs `CallKnown`: the entry that `SubscribeSync` found
under the mutex is, if it is free, still the one after the last when it is filled in, since nobody
else takes the mutex in between (`LockDiscipline`). The lemmas `PlaceFacts` and `ElementFacts` say
that counting the elements of a finite set of numbers is a bijection onto `1 .. n`; from them follow
what the two compressions return (`CompressedSubsFacts`, `CompressedRefsFacts`,
`CompressedCallbacksFacts`, `NothingLost`).

**SubscriptionManager, one session.** `OneSession` says that no filter is a prefix of another, that
every filter has one client (both are so for the topics of this repository's tasks) and that the
connection is not lost. It is needed: after a loss the compression moves slots without
their counts and the SUBACK states hold no code, and TLC refutes both properties with `OwnFilters`
and one loss; with `SharedFilters`, `UnsubscribeSync` leaves callbacks behind. The run
`subs_one_session` is an instance of the hypothesis. `JInv` adds to `IInv` that a slot which is
not in use has the state that makes the next subscriber send (`EmptyIsUnanswered`), that the only
callback on a slot is its client's (`OneCallback`), that the search has found an empty slot or
that of the filter and the right entry (`SearchHolds`), and what the count is: 1 while the slot
has a callback that nobody is giving up, else 0 (`CountsKnown`). `SlotTaken` and `SlotFreed` are
the two steps that change the tables; every other step of a call is an instance of `CallGoesOn`.

**ShadowDevice.** `IInv` is `TypeOK /\ CurrentIsLatest /\ VersionKnown /\ DocClearedFirst /\
AnswersMatch`. `TakenFromAnswer` needs `AnswersMatch`: a response with the token of the context
repeats the document as it is now. That rests on `DocClearedFirst`: the document is cleared when a
token is made and written once for it.

**KVStore.** `IInv` is `TypeOK /\ EntriesSound /\ CopyPrepared /\ CleanIsSaved /\ CommitMarked /\
CommitProgress /\ ReadsFit`. `OnlySyncIsSilent` needs `CommitProgress` (while no write has failed,
each key is still to be written, being written, saved, or one whose sync has failed), and this needs `CommitMarked` (a commit
writes only marked keys, and what it writes is in the cache). In the refinement `staged` is what the
cache holds and `saved` what a boot would load. A set, the sync of a file, the failure of a
write, the removal of what it left and a restart are steps of `ConfigStore`, all others
stutter. That a restart is one needs no invariant; that a sync saves the staged value is
`CommitMarked`, and that a set is one step although the copy follows is `CopyPrepared`.
`ValuesAssumption` says that there are keys and values and that neither a missing nor an empty file is a value.

**OtaPal.** `IInv` is `TypeOK /\ FragmentsKnown /\ TaskKnown /\ SemaphoreMeansFree /\
LengthBounded /\ PlacesKnown /\ PagesConserved /\ NeverRefused`. `PagesConserved` is an account that is
kept while the image is received and checked; it needs `PlacesKnown` (only pages that were taken are
anywhere, so that a new one is not there already) and `FragmentsKnown` (the fragment list at each step
of the agent). It does not need the flashing task to come first: whoever takes the semaphore, the packet stays in the
task's hands. `NeverRefused` needs `SemaphoreMeansFree` (given only if the flash is free, but for
operations that the agent waits for while the task has nothing to do), with `TaskKnown` for
the operations that the agent starts without the semaphore. `HeaderComesLast` is part of both: an accepted
image is in flash to its last page, so that no packet can be left.

**FlashDriver.** `DriverInv` is `DriverTypeOK /\ OneCall /\ LockHeld /\ CallKnown /\ SequencerKnown
/\ InterruptsKnown /\ WriteKnown /\ EraseKnown /\ AreaDivided`. It is stated for the place of the only
call there is (`OneCall`, from `~Overlapping`; with overlapping calls TLC refutes the properties, section
3). `LockedWhileWorking` looks at moments without a call; in between the lock belongs to the call that
took it or to the operation it started (`LockHeld`), and what the call goes on with is what the
interrupts may have left (`CallKnown`, `SequencerKnown`). In the refinement a unit that ends is a `Work` and the
callback a `Report`. That success is reported for the whole area only is `AreaDivided`: the area is what
was worked on, what the sequencer has and what is not begun, without overlap, until the
sequencer is locked by an error. That a left-over ready interrupt reports nothing is `InterruptsKnown`.

`EraseCheckIsExact` needs no invariant. Numbering the blocks of a bank from its bottom (`BlockAt`) is a bijection
(`BlocksCounted`), so that the blocks from one down to another are counted by their numbers
(`BlocksBetween`, `EraseAreaSize`), and `EraseAllowedBlocks` computes `check_cf_block_total` modulo
`Modulus` on these numbers. `GeometryAssumption` says what that takes: the medium blocks are aligned, also at the
end of the address space, and the address space is larger than the code flash plus `MediumSize` for each
block of a bank. Then a count that wrapped stays out of the range of real addresses: with 8 small blocks, one medium
block of 8 and a modulus of 72 a refused count would come round to an accepted one. On the RX65N the left side is 2^32 and the
right one is a few MB.

**OtaUpdate.** `IInv` is `TypeOK /\ PayloadIntact /\ UsedIsHeld /\ OneOwner /\ HandKnown /\
PoolUnused`. The invariant names the owners that `BuffersConserved` counts. `PoolUnused` is needed
because the job topics are subscribed before the pool is cleared: a buffer that was given out
before would be lost then.

**Defender.** `IInv` is `TypeOK /\ LoopEntered /\ CallbacksRemoved /\ CountedUnderLock /\
BufferCurrent /\ ResponseRecent /\ StatusFollows`. `StatusIsRecent` needs `ResponseRecent`, which
follows a response from the callback through the next report to the wait that it ends;
`ReportWellFormed` needs the lock to be held from the count of a section to its last block
(`CountedUnderLock`): then the blocks that were counted are those of the list, of which the last is
in it.

**TlsTransport.** `IInv` is `TypeOK /\ HandleExact /\ ThreadHasSocket /\ SessionReset /\
SocketConnected`. That no thread is in its select when the socket is closed follows from the
handle being an exact account of the thread up to its deletion (`HandleExact`), for which the agent
waits.

Only model-checked:

* liveness under fairness, which the prover does not do: `PendingConcluded`, `CloseReturns`,
  `StopReturns`, `BufferComesBack`, `ReportConcluded`, and the fairness of
  `ImplementsService`, whose safety part is `DriverImplementsService`;
* the violation of `WaitingMessageNotified` and the further statements of section 3, which TLC
  refutes.

## 5. Assumptions and what is left out

* Agent: coreMQTT-Agent is external; a command is acknowledged at most once, and CancelAll
  concludes everything.
* Shadow: no response is so late that its token, the tick count modulo 1000000 (1000 s),
  has come round: a response is dropped when its token is given out again. Topic strings and the
  subscriptions at the start are left out.
* Store: values keep the type of their default; no exhaustion of the heap; no command before
  `KVStore_init`. littlefs: a file exists once it is opened with `LFS_O_CREAT`, its contents
  change when it is synchronised, a file whose write failed is not synchronised, and a failed
  synchronisation leaves the file as it was.
* OTA platform layer: PKCS #11 certificate lookup left out; the bytes in the fragment list are those
  of one image. A flashing task that was woken has run before the agent creates the next file
  or accepts an image under test: these come with events that the agent has waited for, or allocate memory
  first, which ends with a switch.
* Flash driver: only what the platform layer uses. Left out: reset on request, blank check, lock bits, access
  window, bank toggle, ROM cache and data flash; a clock that `flash_init_fcu` refuses (it is constant).
  The error interrupt has the lower vector and is taken before a ready interrupt.
* OTA update task: the OTA agent library is external and is not shut down but by itself;
  `vSuspendOTAUpdate` and `vResumeOTAUpdate` have no caller.
* Defender: names, addresses and counters in the report are left out, and the id of a report does not
  come round. lwIP keeps only listening blocks in the list of TCP ports, which the collector filters
  when it counts and not when it lists. The encoder is not relied on to compare a list with the length
  it was given.
* TLS: `pxNotifyThreadCtx` is set before the first connection, as the agent does. A thread that was about to
  delete itself when the next one got its stack and control block does not run again; what the
  kernel's lists are then (it is on one of them twice) is not in the sources. `mbedtls_transport_setsockopt` has no caller.

### Not modelled

* The command line, its commands, and the UART console cannot be reached in this port:
  `xInitConsoleUart` always returns `pdFALSE`, so `Task_CLI` deletes itself before it reads a
  command or creates a console thread. `platform_logging.c` is empty, so that of logging only
  the formatting of a line is left.
* `app_main.c` is a straight sequence of task creations; the waits for its event bits are the first
  steps of the modelled tasks.
* The PKI objects and the ports of mbedtls are sequential adapters; the cryptography is out of reach.
* Reading sensors, the file system port, hooks and stubs are I/O or empty.
* `src/target` is to nine tenths vendor code: four copies of the register header `iodefine.h`
  (84,000 lines), start-up code, pin tables, and drivers for Ethernet, serial lines and the ADC that
  nothing under `src/` calls; `src/lib` has configuration headers. They have no behaviour of
  this program to model, so the map covers a small share of all lines of the repository while it
  covers most of those of the components above.

## 6. Plan

Done, the most important behaviour first: the command traffic with its proofs, the
subscription manager on top of it, the shadow task, the key value store, the OTA platform layer, the
TLS transport, the Defender task with its collector, the OTA update task, and the flash driver with the
service it implements; then the proofs of the safety properties of all of them, and of the
refinements of `ConfigStore`, `FlashService` and `RequestService`.

To come: ownership of PKCS #11 sessions on the failure paths of the PKI objects; the composition of
`OtaPal` with `FlashService` in place of its own model of the flash.
