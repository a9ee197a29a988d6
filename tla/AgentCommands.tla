--------------------------- MODULE AgentCommands ---------------------------
(***************************************************************************)
(* The command traffic of the MQTT agent: the pool of command structures   *)
(* (freertos_command_pool.c), the agent's message queue and its task       *)
(* notification (prvAgentMessageSend, prvAgentMessageReceive,              *)
(* prvSocketRecvReadyCallback in mqtt_agent_task.c), the tasks that post a *)
(* command and wait for its completion, and the agent task, whose command  *)
(* loop and CancelAll belong to the external coreMQTT-Agent library and    *)
(* are modelled from how vMQTTAgentTask uses them.                         *)
(*                                                                         *)
(* A task posts a command in four steps that other tasks interleave with:  *)
(* clear its own notification, take a command from the pool, put it in the *)
(* queue, notify the agent; then it waits for the completion callback to   *)
(* notify it back.  SyncTasks wait for ever (MqttAgent_SubscribeSync,      *)
(* MqttAgent_UnSubscribeSync); TimedTasks give up after a timeout          *)
(* (prvMQTTPublish of the OTA task, prvPublishAndWaitForAck).              *)
(***************************************************************************)
EXTENDS Integers, Sequences, FiniteSets

CONSTANTS PoolSize,      \* MQTT_COMMAND_CONTEXTS_POOL_SIZE
          QueueLength,   \* MQTT_AGENT_COMMAND_QUEUE_LENGTH
          SyncTasks,     \* tasks whose wait has no timeout
          TimedTasks,    \* tasks whose wait has a timeout
          NoTask         \* no task: the context of a command nobody uses

ASSUME PoolSizeAssumption == PoolSize \in Nat \ {0}
ASSUME QueueLengthAssumption == QueueLength \in Nat \ {0}
ASSUME TasksAssumption ==
  /\ SyncTasks \cap TimedTasks = {}
  /\ NoTask \notin SyncTasks \cup TimedTasks

Tasks == SyncTasks \cup TimedTasks

\* &commandStructurePool[ c ] for every valid index c, and the NULL pointer.
Commands == 0 .. PoolSize - 1
NoCommand == -1

\* The two flags of the agent's notification value.
SOCKET_RECV == "SOCKET_RECV"
M_QUEUE == "M_QUEUE"

VARIABLES
  pool,      \* xCommandPoolQueue: the free commands, a FIFO
  queue,     \* xAgentMessageCtx.xQueue: the posted commands, a FIFO
  flags,     \* notification value of the agent task (pending iff not empty)
  pc,        \* pc[t]: where task t is in its request
  request,   \* request[t]: command of t's current request, or NoCommand
  answer,    \* answer[t]: the command whose completion notified t, or none
  owner,     \* owner[c]: task named by the completion context of c
  inScope,   \* inScope[c]: the caller's frame, with c's arguments, is live
  apc,       \* where the agent task is
  held,      \* the command the agent took from the queue, or NoCommand
  pending    \* commands sent to the broker that wait for their ack

taskVars == <<pc, request, answer, owner, inScope>>
agentVars == <<apc, held, pending>>
vars == <<pool, queue, flags, pc, request, answer, owner, inScope, apc, held, pending>>

TaskStates == {"ready", "get", "send", "notify", "wait"}
AgentStates == {"tls", "drainBefore", "cancelBefore", "connect", "receive",
                "process", "loop", "drainAfter", "cancelAfter"}

Elements(s) == {s[i] : i \in DOMAIN s}

TypeOK ==
  /\ pool \in Seq(Commands)
  /\ queue \in Seq(Commands)
  /\ flags \subseteq {SOCKET_RECV, M_QUEUE}
  /\ pc \in [Tasks -> TaskStates]
  /\ request \in [Tasks -> Commands \cup {NoCommand}]
  /\ answer \in [Tasks -> Commands \cup {NoCommand}]
  /\ owner \in [Commands -> Tasks \cup {NoTask}]
  /\ inScope \in [Commands -> BOOLEAN]
  /\ apc \in AgentStates
  /\ held \in Commands \cup {NoCommand}
  /\ pending \in SUBSET Commands

-----------------------------------------------------------------------------
(* The command pool.                                                       *)

\* Mutant: the pointers are taken one element too far.
InitialPoolOffByOne == [i \in 1 .. PoolSize |-> i]

\* Agent_InitializePool: every structure is put into the queue, in order.
InitialPool == [i \in 1 .. PoolSize |-> i - 1]

\* The bounds check of Agent_ReleaseCommand, which admits one index too many.
BelongsToPool(c) == c >= 0 /\ c <= PoolSize

\* Agent_ReleaseCommand: a foreign pointer is refused; xQueueSend with no
\* block time fails when the queue of PoolSize elements is full.
Released(p, c) ==
  IF BelongsToPool(c) /\ Len(p) < PoolSize THEN Append(p, c) ELSE p

-----------------------------------------------------------------------------
(* Completion of a command: the callback notifies the task named in the    *)
(* command's context (eSetValueWithOverwrite), then the command is given   *)
(* back to the pool.                                                       *)

\* Mutant: the callback ends without xTaskNotifyIndexed.
ConcludeSilently(c) ==
  /\ answer' = answer
  /\ pool' = Released(pool, c)
  /\ owner' = [owner EXCEPT ![c] = NoTask]
  /\ inScope' = [inScope EXCEPT ![c] = FALSE]

Conclude(c) ==
  /\ answer' = [answer EXCEPT ![owner[c]] = c]
  /\ pool' = Released(pool, c)
  /\ owner' = [owner EXCEPT ![c] = NoTask]
  /\ inScope' = [inScope EXCEPT ![c] = FALSE]

-----------------------------------------------------------------------------
(* The requesting tasks.                                                   *)

\* xTaskNotifyStateClear before the request is posted.
ClearNotification(t) ==
  /\ pc[t] = "ready"
  /\ pc' = [pc EXCEPT ![t] = "get"]
  /\ answer' = [answer EXCEPT ![t] = NoCommand]
  /\ UNCHANGED <<pool, queue, flags, request, owner, inScope, agentVars>>

\* Agent_GetCommand: the head of the pool, filled in with the caller's
\* arguments and completion context.
GetCommand(t) ==
  /\ pc[t] = "get"
  /\ pool # <<>>
  /\ pool' = Tail(pool)
  /\ pc' = [pc EXCEPT ![t] = "send"]
  /\ request' = [request EXCEPT ![t] = Head(pool)]
  /\ owner' = [owner EXCEPT ![Head(pool)] = t]
  /\ inScope' = [inScope EXCEPT ![Head(pool)] = TRUE]
  /\ UNCHANGED <<queue, flags, answer, agentVars>>

\* Agent_GetCommand times out on an empty pool: the request fails.
GetCommandFails(t) ==
  /\ pc[t] = "get"
  /\ pool = <<>>
  /\ pc' = [pc EXCEPT ![t] = "ready"]
  /\ UNCHANGED <<pool, queue, flags, request, answer, owner, inScope, agentVars>>

\* prvAgentMessageSend, the queue part.
Send(t) ==
  /\ pc[t] = "send"
  /\ Len(queue) < QueueLength
  /\ queue' = Append(queue, request[t])
  /\ pc' = [pc EXCEPT ![t] = "notify"]
  /\ UNCHANGED <<pool, flags, request, answer, owner, inScope, agentVars>>

\* prvAgentMessageSend when the queue stays full for the whole block time:
\* it still notifies the agent, returns false, and the library gives the
\* command back to the pool.
SendFails(t) ==
  /\ pc[t] = "send"
  /\ Len(queue) >= QueueLength
  /\ flags' = flags \cup {M_QUEUE}
  /\ pool' = Released(pool, request[t])
  /\ owner' = [owner EXCEPT ![request[t]] = NoTask]
  /\ inScope' = [inScope EXCEPT ![request[t]] = FALSE]
  /\ pc' = [pc EXCEPT ![t] = "ready"]
  /\ request' = [request EXCEPT ![t] = NoCommand]
  /\ UNCHANGED <<queue, answer, agentVars>>

\* prvAgentMessageSend, the notification of the agent task.
NotifyAgent(t) ==
  /\ pc[t] = "notify"
  /\ flags' = flags \cup {M_QUEUE}
  /\ pc' = [pc EXCEPT ![t] = "wait"]
  /\ UNCHANGED <<pool, queue, request, answer, owner, inScope, agentVars>>

\* t returns from its call: the frame that held the arguments of what it
\* posted is gone.
Return(t) ==
  /\ pc' = [pc EXCEPT ![t] = "ready"]
  /\ request' = [request EXCEPT ![t] = NoCommand]
  /\ inScope' = [c \in Commands |-> inScope[c] /\ owner[c] # t]

\* xTaskNotifyWait returns with the value of the notification.
Answered(t) ==
  /\ pc[t] = "wait"
  /\ answer[t] # NoCommand
  /\ answer' = [answer EXCEPT ![t] = NoCommand]
  /\ Return(t)
  /\ UNCHANGED <<pool, queue, flags, owner, agentVars>>

\* Mutant: the caller that times out frees the command it posted.
TimeoutReleases(t) ==
  /\ t \in TimedTasks
  /\ pc[t] = "wait"
  /\ answer[t] = NoCommand
  /\ Return(t)
  /\ pool' = Released(pool, request[t])
  /\ UNCHANGED <<queue, flags, answer, owner, agentVars>>

\* Mutant: the synchronous requests get a timeout too.
TimeoutAnyTask(t) ==
  /\ pc[t] = "wait"
  /\ answer[t] = NoCommand
  /\ Return(t)
  /\ UNCHANGED <<pool, queue, flags, answer, owner, agentVars>>

\* xTaskNotifyWait runs into its timeout; the command stays where it is.
Timeout(t) ==
  /\ t \in TimedTasks
  /\ pc[t] = "wait"
  /\ answer[t] = NoCommand
  /\ Return(t)
  /\ UNCHANGED <<pool, queue, flags, answer, owner, agentVars>>

-----------------------------------------------------------------------------
(* The agent task.                                                         *)

\* prvAgentMessageReceive on the flags it was notified with: nothing on a
\* timeout (no flag) or when socket data is flagged, else one command.
Receivable == flags # {} /\ SOCKET_RECV \notin flags /\ queue # <<>>

Receive ==
  /\ flags' = {}
  /\ IF Receivable
       THEN held' = Head(queue) /\ queue' = Tail(queue)
       ELSE held' = NoCommand /\ queue' = queue

\* The network stack reports data: prvSocketRecvReadyCallback.
SocketRecvReady ==
  /\ apc # "tls"
  /\ flags' = flags \cup {SOCKET_RECV}
  /\ UNCHANGED <<pool, queue, taskVars, agentVars>>

\* mbedtls_transport_connect succeeds; MQTTAgent_CancelAll comes first.
TlsConnected ==
  /\ apc = "tls"
  /\ apc' = "drainBefore"
  /\ UNCHANGED <<pool, queue, flags, taskVars, held, pending>>

\* MQTTAgent_CancelAll, first part: conclude what the receive function still
\* delivers, until it delivers nothing.
Drain ==
  /\ apc \in {"drainBefore", "drainAfter"}
  /\ held = NoCommand
  /\ Receivable
  /\ Receive
  /\ UNCHANGED <<pool, taskVars, apc, pending>>

DrainDone ==
  /\ apc \in {"drainBefore", "drainAfter"}
  /\ held = NoCommand
  /\ ~Receivable
  /\ Receive
  /\ apc' = IF apc = "drainBefore" THEN "cancelBefore" ELSE "cancelAfter"
  /\ UNCHANGED <<pool, taskVars, pending>>

DrainConclude ==
  /\ apc \in {"drainBefore", "drainAfter"}
  /\ held # NoCommand
  /\ Conclude(held)
  /\ held' = NoCommand
  /\ UNCHANGED <<queue, flags, pc, request, apc, pending>>

\* MQTTAgent_CancelAll, second part: conclude every command that waits for
\* an acknowledgement.
CancelPending ==
  /\ apc \in {"cancelBefore", "cancelAfter"}
  /\ \E c \in pending :
       /\ Conclude(c)
       /\ pending' = pending \ {c}
  /\ UNCHANGED <<queue, flags, pc, request, apc, held>>

CancelDone ==
  /\ apc \in {"cancelBefore", "cancelAfter"}
  /\ pending = {}
  /\ apc' = IF apc = "cancelBefore" THEN "connect" ELSE "tls"
  /\ UNCHANGED <<pool, queue, flags, taskVars, held, pending>>

\* MQTT_Connect and the session handling: the command loop starts, or the
\* connection is torn down again.
MqttConnected ==
  /\ apc = "connect"
  /\ apc' \in {"receive", "drainAfter"}
  /\ UNCHANGED <<pool, queue, flags, taskVars, held, pending>>

\* MQTTAgent_CommandLoop: wait for a notification, at most for the event
\* queue wait time.
LoopReceive ==
  /\ apc = "receive"
  /\ Receive
  /\ apc' = "process"
  /\ UNCHANGED <<pool, taskVars, pending>>

\* Nothing was received: only the process loop runs.
ProcessNothing ==
  /\ apc = "process"
  /\ held = NoCommand
  /\ apc' = "loop"
  /\ UNCHANGED <<pool, queue, flags, taskVars, held, pending>>

\* The command's packet is sent; SUBSCRIBE, UNSUBSCRIBE and PUBLISH above
\* QoS0 wait for their acknowledgement.
ProcessAwaitAck ==
  /\ apc = "process"
  /\ held # NoCommand
  /\ pending' = pending \cup {held}
  /\ held' = NoCommand
  /\ apc' = "loop"
  /\ UNCHANGED <<pool, queue, flags, taskVars>>

\* A QoS0 publish is complete once sent; a failed send ends the loop.
ProcessConclude ==
  /\ apc = "process"
  /\ held # NoCommand
  /\ Conclude(held)
  /\ held' = NoCommand
  /\ apc' \in {"loop", "drainAfter"}
  /\ UNCHANGED <<queue, flags, pc, request, pending>>

\* MQTT_ProcessLoop receives an acknowledgement.
ProcessAck ==
  /\ apc = "loop"
  /\ \E c \in pending :
       /\ Conclude(c)
       /\ pending' = pending \ {c}
  /\ UNCHANGED <<queue, flags, pc, request, apc, held>>

\* The process loop has nothing more to read.
LoopAgain ==
  /\ apc = "loop"
  /\ apc' = "receive"
  /\ UNCHANGED <<pool, queue, flags, taskVars, held, pending>>

\* Mutant: CancelAll is not called when the command loop ends.
LoopFailsNoCancel ==
  /\ apc = "loop"
  /\ apc' = "tls"
  /\ UNCHANGED <<pool, queue, flags, taskVars, held, pending>>

\* The connection is lost: MQTTAgent_CommandLoop returns, CancelAll follows.
LoopFails ==
  /\ apc = "loop"
  /\ apc' = "drainAfter"
  /\ UNCHANGED <<pool, queue, flags, taskVars, held, pending>>

-----------------------------------------------------------------------------
Init ==
  /\ pool = InitialPool
  /\ queue = <<>>
  /\ flags = {}
  /\ pc = [t \in Tasks |-> "ready"]
  /\ request = [t \in Tasks |-> NoCommand]
  /\ answer = [t \in Tasks |-> NoCommand]
  /\ owner = [c \in Commands |-> NoTask]
  /\ inScope = [c \in Commands |-> FALSE]
  /\ apc = "tls"
  /\ held = NoCommand
  /\ pending = {}

TaskNext(t) ==
  \/ ClearNotification(t) \/ GetCommand(t) \/ GetCommandFails(t)
  \/ Send(t) \/ SendFails(t) \/ NotifyAgent(t)
  \/ Answered(t) \/ Timeout(t)

CancelNext == Drain \/ DrainDone \/ DrainConclude \/ CancelPending \/ CancelDone

LoopNext ==
  \/ LoopReceive \/ ProcessNothing \/ ProcessAwaitAck \/ ProcessConclude
  \/ ProcessAck \/ LoopAgain \/ LoopFails

Next ==
  \/ \E t \in Tasks : TaskNext(t)
  \/ SocketRecvReady
  \/ TlsConnected \/ MqttConnected \/ CancelNext \/ LoopNext

Spec == Init /\ [][Next]_vars

(* The agent task keeps running (it has work or its bounded waits expire), *)
(* and a broker that got a packet acknowledges it unless the connection    *)
(* breaks, which the keep-alive of MQTT_ProcessLoop detects.  Requesting   *)
(* tasks cannot keep the drain of CancelAll busy for ever: the agent runs  *)
(* at priority 10 and they at 1 to 6 (vInitTask), so they do not run       *)
(* between two of its receives.  Nothing is assumed of the requesting      *)
(* tasks, of the socket callback, or of the network ever accepting a       *)
(* connection (TlsConnected).                                              *)
AgentProgress == MqttConnected \/ CancelNext \/ LoopNext

BrokerAnswers(c) == (ProcessAck /\ c \notin pending') \/ LoopFails

FairSpec ==
  /\ Spec
  /\ WF_vars(AgentProgress)
  /\ SF_vars(DrainDone)
  /\ \A c \in Commands : SF_vars(BrokerAnswers(c))

-----------------------------------------------------------------------------
(* Properties.                                                             *)

Distinct(s) == \A i, j \in DOMAIN s : s[i] = s[j] => i = j

HeldByTasks == {request[t] : t \in {u \in Tasks : pc[u] = "send"}}
HeldByAgent == {held} \ {NoCommand}
InFlight == Elements(queue) \cup HeldByAgent \cup pending

(* Agent_GetCommand / Agent_ReleaseCommand: every command structure is in  *)
(* exactly one place - free, with one task that is about to post it, in    *)
(* the queue, with the agent, or waiting for an ack.  None leaks and none  *)
(* is released or posted twice, whatever fails or is cancelled.            *)
PoolConserved ==
  /\ Distinct(pool) /\ Distinct(queue)
  /\ Elements(pool) \cup HeldByTasks \cup InFlight = Commands
  /\ Elements(pool) \cap (HeldByTasks \cup InFlight) = {}
  /\ HeldByTasks \cap InFlight = {}
  /\ Elements(queue) \cap (HeldByAgent \cup pending) = {}
  /\ HeldByAgent \cap pending = {}
  /\ \A t, u \in Tasks :
       pc[t] = "send" /\ pc[u] = "send" /\ request[t] = request[u] => t = u

(* A task that calls xQueueSendToBack in prvAgentMessageSend never finds   *)
(* the queue full when the queue is as long as the pool is large, as       *)
(* core_mqtt_config.h has it: posting never blocks and never fails.        *)
QueueNeverFull ==
  QueueLength >= PoolSize =>
    \A t \in Tasks : pc[t] = "send" => Len(queue) < QueueLength

(* prvSubscribeRqCallback, prvAgentRequestCallback: a task that waits      *)
(* without a timeout is never orphaned - its command is still in flight    *)
(* with its completion context intact, or the answer has arrived.          *)
NoOrphan ==
  \A t \in SyncTasks :
    pc[t] \in {"notify", "wait"} /\ answer[t] = NoCommand =>
      request[t] \in InFlight /\ owner[request[t]] = t

(* The notification a synchronous request returns with is the completion   *)
(* of that very request, never of an earlier one (mqtt_agent_task.c clears *)
(* the notification state first and then waits with no timeout).           *)
AnswerIsForRequest ==
  \A t \in SyncTasks :
    pc[t] # "ready" /\ answer[t] # NoCommand => answer[t] = request[t]

\* A synchronous request as RequestService sees it: from the post to the
\* return of the wait.
Waiting(t) == pc[t] \in {"notify", "wait"}

RS == INSTANCE RequestService WITH
        Clients <- SyncTasks, Tickets <- Commands, NoTicket <- NoCommand,
        ticket <- [t \in SyncTasks |-> IF Waiting(t) THEN request[t] ELSE NoCommand],
        reply <- [t \in SyncTasks |-> IF Waiting(t) THEN answer[t] ELSE NoCommand]

(* MqttAgent_SubscribeSync, MqttAgent_UnSubscribeSync: with commands that  *)
(* are reused, tasks that time out and connections that are cancelled      *)
(* around it, a synchronous request keeps to RequestService - no other     *)
(* open request has its command, it is answered at most once and only by   *)
(* that command, and the call returns with this answer and not without.    *)
SyncRequests == RS!RequestSpec

(* A command that waits for its acknowledgement is eventually concluded    *)
(* and back in the pool: by the ack, or by the MQTTAgent_CancelAll that    *)
(* vMQTTAgentTask calls whenever the command loop ends.                    *)
PendingConcluded == \A c \in Commands : (c \in pending) ~> (c \in Elements(pool))

-----------------------------------------------------------------------------
(* Statements of the repository that the code does not keep.               *)

(* prvAgentMessageSend: "Notify the agent that a message is waiting".  When *)
(* the agent blocks for a notification, a message that waits in the queue  *)
(* has been or is about to be notified.                                    *)
WaitingMessageNotified ==
  apc = "receive" /\ queue # <<>> =>
    flags # {} \/ \E t \in Tasks : pc[t] = "notify"

(* ota_update_task.c, prvMQTTPublish: "Wait for command to complete so     *)
(* MQTTSubscribeInfo_t remains in scope for the duration of the command."  *)
ArgumentsInScope == \A c \in InFlight : inScope[c]

(* motion_sensors_publish.c, prvPublishCommandCallback: "so the receiving  *)
(* task can check the value it set in the context matches the value it     *)
(* receives in the notification".                                          *)
TimedAnswerIsForRequest ==
  \A t \in TimedTasks :
    pc[t] = "wait" /\ answer[t] # NoCommand => answer[t] = request[t]

=============================================================================
