----------------------------- MODULE OtaUpdate ------------------------------
(***************************************************************************)
(* ota_update_task.c: the task that subscribes to the job topics, starts   *)
(* the OTA agent and cleans up when it has stopped; the callbacks of the   *)
(* job and the stream topics, which the MQTT agent runs and which copy a   *)
(* message into an event buffer; and the callback of the OTA agent that    *)
(* gives the buffer back.                                                  *)
(*                                                                         *)
(* The OTA agent (the library and its task) is external.  It is known      *)
(* here by what it calls: the MQTT interface, with which it subscribes to  *)
(* topics of its own, and otaAppCallback.  Its event queue may be full,    *)
(* and it may stop at any time.  A blocking publish of the OTA agent is    *)
(* TimedPublish of AgentCommands, what it writes to flash is OtaPal.       *)
(***************************************************************************)
EXTENDS Integers, Sequences, FiniteSets

CONSTANTS NumBuffers,   \* otaconfigMAX_NUM_OTA_DATA_BUFFERS
          QueueLength,  \* the length of the event queue of the OTA agent
          MaxMessages,  \* bound: messages of the broker
          NoMessage

ASSUME SizesAssumption ==
  /\ NumBuffers \in Nat \ {0} /\ QueueLength \in Nat \ {0} /\ MaxMessages \in Nat
  /\ NoMessage \notin 1 .. MaxMessages

Buffers == 1 .. NumBuffers
Messages == 1 .. MaxMessages
NoBuffer == 0
Topics == {"get", "notify", "stream"}

\* "accepted" and "notify" are subscribed by the task, with a wildcard for the
\* thing name, "job" and "stream" by the OTA agent for this thing.
Filters == {"accepted", "notify", "job", "stream"}
Matches(filter, topic) ==
  <<filter, topic>> \in {<<"accepted", "get">>, <<"notify", "notify">>,
                         <<"job", "notify">>, <<"stream", "stream">>}

VARIABLES
  pc,          \* where vOTAUpdateTask is
  handle,      \* xMQTTAgentHandle # NULL
  subscribed,  \* xMQTTStatus = MQTTSuccess
  named,       \* pcThingName # NULL
  registered,  \* filters whose callback is registered
  lock,        \* eventBufferPool.lock: "none" before it is created
  used,        \* bufferUsed of the event buffers
  data,        \* the message that an event buffer holds
  events,      \* the event queue of the OTA agent: buffers, NoBuffer for its own
  signalled,   \* the messages that these events were signalled for
  agent,       \* the OTA agent: its step, and the event it has in hand
  delivery,    \* the message that the MQTT agent dispatches, filters left
  received,    \* messages received
  leaked,      \* buffers whose event the OTA agent has refused
  fault        \* an assertion has failed: where

pool == <<lock, used, data>>
queue == <<events, signalled>>
task == <<pc, handle, subscribed, named>>
vars == <<task, registered, pool, queue, agent, delivery, received, leaked, fault>>

NoEvent == [buffer |-> NoBuffer, message |-> NoMessage]
NoDelivery ==
  [message |-> NoMessage, topic |-> "get", own |-> FALSE, fits |-> TRUE, todo |-> {}]

TypeOK ==
  /\ pc \in {"start", "connect", "subAccepted", "subNotify", "pool", "init", "create",
             "loop", "exit", "deleted"}
  /\ handle \in BOOLEAN /\ subscribed \in BOOLEAN /\ named \in BOOLEAN
  /\ registered \subseteq Filters
  /\ lock \in {"none", "free", "taken"}
  /\ used \in [Buffers -> BOOLEAN]
  /\ data \in [Buffers -> Messages \cup {NoMessage}]
  /\ events \in Seq(Buffers \cup {NoBuffer}) /\ Len(events) <= QueueLength
  /\ signalled \in Seq(Messages \cup {NoMessage}) /\ Len(signalled) = Len(events)
  /\ agent \in [at : {"none", "ready", "idle", "process", "free", "stopped"},
                buffer : Buffers \cup {NoBuffer}, message : Messages \cup {NoMessage}]
  /\ delivery \in [message : Messages \cup {NoMessage}, topic : Topics, own : BOOLEAN,
                   fits : BOOLEAN, todo : SUBSET Filters]
  /\ received \in 0 .. MaxMessages
  /\ leaked \subseteq Buffers
  /\ fault \in {"none", "lock", "name"}

-----------------------------------------------------------------------------
(* vOTAUpdateTask.  A step that fails ends in "exit".                      *)

GetThingName ==
  /\ pc = "start"
  /\ \/ named' = TRUE /\ pc' = "connect"
     \/ named' = FALSE /\ pc' = "exit"
  /\ UNCHANGED <<handle, subscribed, registered, pool, queue, agent, delivery, received,
                 leaked, fault>>

\* The wait for the connection has a timeout, after which the task goes on
\* without subscriptions of its own.
WaitConnected ==
  /\ pc = "connect"
  /\ \/ handle' = TRUE /\ pc' = "subAccepted"
     \/ handle' = FALSE /\ pc' = "pool"
  /\ UNCHANGED <<subscribed, named, registered, pool, queue, agent, delivery, received,
                 leaked, fault>>

\* MqttAgent_SubscribeSync: the callback stays registered when the request
\* fails, and is not registered when there is no free slot.
SubscribeSync(filter, next) ==
  \/ /\ pc' = next /\ subscribed' = TRUE
     /\ registered' = registered \cup {filter}
  \/ /\ pc' = "exit" /\ subscribed' = FALSE
     /\ registered' \in {registered, registered \cup {filter}}

SubscribeAccepted ==
  /\ pc = "subAccepted"
  /\ SubscribeSync("accepted", "subNotify")
  /\ UNCHANGED <<handle, named, pool, queue, agent, delivery, received, leaked, fault>>

SubscribeNotify ==
  /\ pc = "subNotify"
  /\ SubscribeSync("notify", "pool")
  /\ UNCHANGED <<handle, named, pool, queue, agent, delivery, received, leaked, fault>>

\* Mutant: the last buffer is left out.
PoolInitOneShort ==
  /\ pc = "pool"
  /\ used' = [b \in 1 .. NumBuffers - 1 |-> FALSE]
  /\ lock' = "free" /\ pc' = "init"
  /\ UNCHANGED <<handle, subscribed, named, registered, data, queue, agent, delivery,
                 received, leaked, fault>>

\* prvOTAEventBufferPoolInit clears the pool and creates its mutex, which
\* may fail.
PoolInit ==
  /\ pc = "pool"
  /\ used' = [b \in Buffers |-> FALSE]
  /\ \/ lock' = "free" /\ pc' = "init"
     \/ lock' = "none" /\ pc' = "exit"
  /\ UNCHANGED <<handle, subscribed, named, registered, data, queue, agent, delivery,
                 received, leaked, fault>>

\* OTA_Init creates the event queue.
AgentInit ==
  /\ pc = "init"
  /\ \/ pc' = "create" /\ agent' = [agent EXCEPT !.at = "ready"]
     \/ pc' = "exit" /\ UNCHANGED agent
  /\ UNCHANGED <<handle, subscribed, named, registered, pool, queue, delivery, received,
                 leaked, fault>>

\* The task of the OTA agent is created and gets its start event.
AgentCreate ==
  /\ pc = "create"
  /\ \/ /\ pc' = "loop" /\ agent' = [agent EXCEPT !.at = "idle"]
        /\ IF Len(events) < QueueLength
             THEN /\ events' = Append(events, NoBuffer)
                  /\ signalled' = Append(signalled, NoMessage)
             ELSE UNCHANGED queue
     \/ pc' = "exit" /\ UNCHANGED <<agent, queue>>
  /\ UNCHANGED <<handle, subscribed, named, registered, pool, delivery, received, leaked,
                 fault>>

\* The loop ends when OTA_GetState() is OtaAgentStateStopped.
LoopEnds ==
  /\ pc = "loop"
  /\ agent.at = "stopped"
  /\ pc' = "exit"
  /\ UNCHANGED <<handle, subscribed, named, registered, pool, queue, agent, delivery, received,
                 leaked, fault>>

\* One of the two subscriptions is given up, if the last one had succeeded;
\* the thing name is freed.
Exit ==
  /\ pc = "exit"
  /\ registered' = IF subscribed THEN registered \ {"accepted"} ELSE registered
  /\ named' = FALSE
  /\ pc' = "deleted"
  /\ UNCHANGED <<handle, subscribed, pool, queue, agent, delivery, received, leaked, fault>>

-----------------------------------------------------------------------------
(* The MQTT agent dispatches a message to the callbacks of all the filters *)
(* that match.                                                             *)

\* own: the topic has the thing name of this device.  fits: the payload is no
\* larger than an event buffer (OTA_DATA_BLOCK_SIZE).
Receive(topic, own, fits) ==
  /\ delivery.todo = {}
  /\ received < MaxMessages
  /\ received' = received + 1
  /\ delivery' = [message |-> received', topic |-> topic, own |-> own, fits |-> fits,
                  todo |-> {f \in registered :
                              Matches(f, topic) /\ (own \/ f \in {"accepted", "notify"})}]
  /\ UNCHANGED <<task, registered, pool, queue, agent, leaked, fault>>

Dispatched(f) == delivery' = [delivery EXCEPT !.todo = @ \ {f}]

\* configASSERT( pcThingName != NULL ) of the job callback; the callback of
\* the stream reads the name without asking.
NameMissing(f) ==
  /\ ~named
  /\ fault' = "name"
  /\ Dispatched(f)
  /\ UNCHANGED <<task, registered, pool, queue, agent, received, leaked>>

\* prvMatchClientIdentifierInTopic finds another thing, or the payload is too
\* large.
Ignored(f) ==
  /\ named /\ ~(delivery.own /\ delivery.fits)
  /\ Dispatched(f)
  /\ UNCHANGED <<task, registered, pool, queue, agent, received, leaked, fault>>

\* The mutex that prvOTAEventBufferGet takes does not exist yet.
LockMissing(f) ==
  /\ named /\ delivery.own /\ delivery.fits
  /\ lock = "none"
  /\ fault' = "lock"
  /\ Dispatched(f)
  /\ UNCHANGED <<task, registered, pool, queue, agent, received, leaked>>

\* No event buffer is free: the message is dropped.
NoBufferFree(f) ==
  /\ named /\ delivery.own /\ delivery.fits
  /\ lock = "free"
  /\ \A b \in Buffers : used[b]
  /\ Dispatched(f)
  /\ UNCHANGED <<task, registered, pool, queue, agent, received, leaked, fault>>

\* Mutant: the buffer is not marked as used.
SignalUnmarked(f) ==
  /\ named /\ delivery.own /\ delivery.fits
  /\ lock = "free"
  /\ \E b \in Buffers :
       /\ ~used[b] /\ \A c \in 1 .. b - 1 : used[c]
       /\ data' = [data EXCEPT ![b] = delivery.message]
       /\ IF agent.at # "none" /\ Len(events) < QueueLength
            THEN /\ events' = Append(events, b)
                 /\ signalled' = Append(signalled, delivery.message)
                 /\ UNCHANGED leaked
            ELSE leaked' = leaked \cup {b} /\ UNCHANGED queue
  /\ Dispatched(f)
  /\ UNCHANGED <<task, registered, lock, used, agent, received, fault>>

\* prvOTAEventBufferGet takes the first free buffer, the message is copied
\* and signalled.  The result of OTA_SignalEvent is not looked at: when the
\* queue is full, or OTA_Init has not created it, the buffer stays used.
Signal(f) ==
  /\ named /\ delivery.own /\ delivery.fits
  /\ lock = "free"
  /\ \E b \in Buffers :
       /\ ~used[b] /\ \A c \in 1 .. b - 1 : used[c]
       /\ used' = [used EXCEPT ![b] = TRUE]
       /\ data' = [data EXCEPT ![b] = delivery.message]
       /\ IF agent.at # "none" /\ Len(events) < QueueLength
            THEN /\ events' = Append(events, b)
                 /\ signalled' = Append(signalled, delivery.message)
                 /\ UNCHANGED leaked
            ELSE leaked' = leaked \cup {b} /\ UNCHANGED queue
  /\ Dispatched(f)
  /\ UNCHANGED <<task, registered, lock, agent, received, fault>>

\* prvProcessIncomingJobMessage and prvProcessIncomingData.
ProcessIncoming(f) ==
  /\ f \in delivery.todo
  /\ \/ NameMissing(f) \/ Ignored(f) \/ LockMissing(f) \/ NoBufferFree(f) \/ Signal(f)

-----------------------------------------------------------------------------
(* The OTA agent.                                                          *)

AgentTakes ==
  /\ agent.at = "idle"
  /\ events # <<>>
  /\ agent' = [at |-> "process", buffer |-> Head(events), message |-> Head(signalled)]
  /\ events' = Tail(events) /\ signalled' = Tail(signalled)
  /\ UNCHANGED <<task, registered, pool, delivery, received, leaked, fault>>

\* An event without a buffer; one with a buffer ends in the callback
\* otaAppCallback( OtaJobEventProcessed ).
AgentProcessed ==
  /\ agent.at = "process"
  /\ agent.buffer = NoBuffer
  /\ agent' = [agent EXCEPT !.at = "idle"]
  /\ UNCHANGED <<task, registered, pool, queue, delivery, received, leaked, fault>>

\* prvOTAEventBufferFree takes the mutex ...
BufferFreeLocks ==
  /\ agent.at = "process"
  /\ agent.buffer # NoBuffer
  /\ lock = "free"
  /\ lock' = "taken"
  /\ agent' = [agent EXCEPT !.at = "free"]
  /\ UNCHANGED <<task, registered, used, data, queue, delivery, received, leaked, fault>>

\* Mutant: the mutex is not given back.
BufferFreeKeepsLock ==
  /\ agent.at = "free"
  /\ used' = [used EXCEPT ![agent.buffer] = FALSE]
  /\ agent' = [at |-> "idle", buffer |-> NoBuffer, message |-> NoMessage]
  /\ UNCHANGED <<task, registered, lock, data, queue, delivery, received, leaked, fault>>

\* Mutant: the buffer stays used.
BufferFreeForgets ==
  /\ agent.at = "free"
  /\ lock' = "free"
  /\ agent' = [at |-> "idle", buffer |-> NoBuffer, message |-> NoMessage]
  /\ UNCHANGED <<task, registered, used, data, queue, delivery, received, leaked, fault>>

\* ... marks the buffer as free and gives the mutex back.
BufferFree ==
  /\ agent.at = "free"
  /\ used' = [used EXCEPT ![agent.buffer] = FALSE]
  /\ lock' = "free"
  /\ agent' = [at |-> "idle", buffer |-> NoBuffer, message |-> NoMessage]
  /\ UNCHANGED <<task, registered, data, queue, delivery, received, leaked, fault>>

\* prvMQTTSubscribe, prvMQTTUnsubscribe: filters of the OTA agent.
MQTTSubscribe(f) ==
  /\ agent.at = "idle" /\ f \in {"job", "stream"} \ registered
  /\ registered' = registered \cup {f}
  /\ UNCHANGED <<task, pool, queue, agent, delivery, received, leaked, fault>>

MQTTUnsubscribe(f) ==
  /\ agent.at = "idle" /\ f \in {"job", "stream"} \cap registered
  /\ registered' = registered \ {f}
  /\ UNCHANGED <<task, pool, queue, agent, delivery, received, leaked, fault>>

\* An event of the OTA agent's own: a timer, a request of the application.
AgentEvent ==
  /\ agent.at \in {"idle", "process"} /\ Len(events) < QueueLength
  /\ events' = Append(events, NoBuffer) /\ signalled' = Append(signalled, NoMessage)
  /\ UNCHANGED <<task, registered, pool, agent, delivery, received, leaked, fault>>

AgentStops ==
  /\ agent.at = "idle"
  /\ agent' = [agent EXCEPT !.at = "stopped"]
  /\ UNCHANGED <<task, registered, pool, queue, delivery, received, leaked, fault>>

-----------------------------------------------------------------------------

Init ==
  /\ pc = "start"
  /\ handle = FALSE /\ subscribed = FALSE /\ named = FALSE
  /\ registered = {}
  /\ lock = "none"
  /\ used = [b \in Buffers |-> FALSE]
  /\ data = [b \in Buffers |-> NoMessage]
  /\ events = <<>> /\ signalled = <<>>
  /\ agent = [at |-> "none", buffer |-> NoBuffer, message |-> NoMessage]
  /\ delivery = NoDelivery
  /\ received = 0
  /\ leaked = {}
  /\ fault = "none"

TaskStep ==
  \/ GetThingName \/ WaitConnected \/ SubscribeAccepted \/ SubscribeNotify \/ PoolInit
  \/ AgentInit \/ AgentCreate \/ LoopEnds \/ Exit

ProcessStep == AgentTakes \/ AgentProcessed \/ BufferFreeLocks \/ BufferFree

AgentStep ==
  \/ ProcessStep \/ AgentEvent \/ AgentStops
  \/ \E f \in Filters : MQTTSubscribe(f) \/ MQTTUnsubscribe(f)

MqttStep ==
  \/ \E topic \in Topics, own, fits \in BOOLEAN : Receive(topic, own, fits)
  \/ \E f \in Filters : ProcessIncoming(f)

\* A failed assertion stops the device.
Next == fault = "none" /\ (TaskStep \/ AgentStep \/ MqttStep)

Spec == Init /\ [][Next]_vars

\* The task of the OTA agent runs when it has an event to process.
FairSpec == Spec /\ WF_vars(fault = "none" /\ ProcessStep)

-----------------------------------------------------------------------------
(* Properties.                                                             *)

\* The OTA agent finds in an event buffer the message that the event was
\* signalled for, although the MQTT agent fills buffers while it works.
PayloadIntact ==
  /\ \A i \in DOMAIN events : events[i] # NoBuffer => data[events[i]] = signalled[i]
  /\ agent.buffer # NoBuffer => data[agent.buffer] = agent.message

\* An event buffer is used exactly if one event refers to it, in the queue
\* or in the hands of the OTA agent, or if its event was refused.
BuffersConserved ==
  \A b \in Buffers :
    LET holders == Cardinality({i \in DOMAIN events : events[i] = b})
                   + Cardinality({x \in {agent.buffer} : x = b})
                   + Cardinality({x \in leaked : x = b})
    IN  holders = IF used[b] THEN 1 ELSE 0

\* A buffer whose event was taken by the queue comes back to the pool, unless
\* the OTA agent stops first.
BufferComesBack ==
  \A b \in Buffers :
    (used[b] /\ b \notin leaked)
      ~> (~used[b] \/ agent.at \in {"ready", "stopped"} \/ fault # "none")

\* configASSERT( pcThingName != NULL ) in prvProcessIncomingJobMessage.
\* Refuted: the task frees the name and leaves a callback registered.
ThingNamePresent == fault # "name"

\* The mutex exists when a message is received.  Refuted: the job topics are
\* subscribed before the pool is initialised.
PoolReady == fault # "lock"

\* Every event buffer that is taken comes back.  Refuted: the result of
\* OTA_SignalEvent is not looked at.
NothingLeaked == leaked = {}
=============================================================================
