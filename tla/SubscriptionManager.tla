------------------------ MODULE SubscriptionManager ------------------------
(***************************************************************************)
(* The subscription manager of mqtt_agent_task.c: the tables of topic      *)
(* filters, their SUBACK states and reference counts, the list of          *)
(* callbacks, the mutex that guards them, the two blocking calls           *)
(* MqttAgent_SubscribeSync and MqttAgent_UnSubscribeSync, and the part of  *)
(* vMQTTAgentTask that keeps the mutex from them while it is disconnected. *)
(*                                                                         *)
(* A section of code that runs under the mutex is one step, except that    *)
(* SubscribeSync reads pxSubAckStatus[] in two places while                *)
(* prvSendSubRequest of another task writes it with no lock.  A task with  *)
(* its callback and callback context is one client: no task of the         *)
(* repository registers two callbacks for one filter.  The way of a        *)
(* request through the agent's queue is the subject of AgentCommands; here *)
(* it is queued, sent, and answered or cancelled.                          *)
(***************************************************************************)
EXTENDS Integers, Sequences, FiniteSets

CONSTANTS MaxSubscriptions,  \* MQTT_AGENT_MAX_SUBSCRIPTIONS
          MaxCallbacks,      \* MQTT_AGENT_MAX_CALLBACKS
          Tasks,             \* the tasks that subscribe
          Filters,           \* topic filters
          Prefix,            \* <<f, g>>: the text of f is a prefix of g's
          Uses,              \* Uses[t]: the filters that t subscribes to
          QoS,               \* the QoS values that tasks request
          HeapMayFail,       \* whether pvPortMalloc may return NULL
          MaxLosses,         \* bound: how often the connection is lost
          NoFilter,          \* pTopicFilter = NULL
          NoTask, Agent      \* the mutex is free, or held by the agent

ASSUME SizesAssumption ==
  /\ MaxSubscriptions \in Nat \ {0} /\ MaxCallbacks \in Nat \ {0}
  /\ MaxLosses \in Nat /\ HeapMayFail \in BOOLEAN
ASSUME PrefixAssumption == \A f \in Filters : <<f, f>> \in Prefix
ASSUME UsesAssumption == Uses \in [Tasks -> SUBSET Filters] /\ QoS \subseteq 0 .. 2
ASSUME NamesAssumption ==
  NoFilter \notin Filters /\ {NoTask, Agent} \cap Tasks = {} /\ NoTask # Agent

Slots == 1 .. MaxSubscriptions
NoSlot == 0
Entries == 1 .. MaxCallbacks

\* pxSubAckStatus: MQTTSubAckFailure, a value of the broker, or the word that
\* memset leaves (0x80808080, which is none of the enumeration's values).
SubAck == {"failure", "granted", "filled"}

EmptySub == [filter |-> NoFilter, qos |-> 0]

\* A SubCallbackElement_t; sub is NoSlot for NULL.  asked is history: the
\* filter the client registered the callback for.
EmptyCb == [task |-> NoTask, sub |-> NoSlot, asked |-> NoFilter]

VARIABLES
  subs,        \* pxSubscriptions
  suback,      \* pxSubAckStatus
  cbCount,     \* pulSubCbCount
  callbacks,   \* pxCallbacks
  subTotal,    \* uxSubscriptionCount
  cbTotal,     \* uxCallbackCount
  mutex,       \* the holder of xMutex
  call,        \* call[t]: the call that t is in, and its local variables
  agent,       \* where vMQTTAgentTask is
  clean,       \* xConnectInfo.cleanSession
  losses,      \* lost connections
  broker,      \* the filters that the broker holds for this client
  acked        \* history: filters granted and not unsubscribed since

tables == <<subs, suback, cbCount, callbacks, subTotal, cbTotal>>
agentState == <<agent, clean, losses>>
world == <<broker, acked>>
vars == <<tables, mutex, call, agentState, world>>

\* A call; local variables that are dead have their value in Idle.  pc, the
\* filter and QoS argument, uxTargetSubIdx, uxTargetCbIdx, ulCallbackCount, the
\* filter in the packet, the answer to a subscribe.
Idle == [pc |-> "idle", filter |-> NoFilter, qos |-> 0, slot |-> NoSlot, entry |-> 0,
         count |-> 0, packet |-> NoFilter, answer |-> "none"]

SubStates == {"populate", "check", "subQueued", "subSent", "subAnswered"}
UnsubStates == {"unsubQueued", "unsubSent", "remove"}

TypeOK ==
  /\ subs \in [Slots -> [filter : Filters \cup {NoFilter}, qos : 0 .. 2]]
  /\ suback \in [Slots -> SubAck]
  /\ cbCount \in [Slots -> Nat]
  /\ callbacks \in [Entries -> [task : Tasks \cup {NoTask}, sub : Slots \cup {NoSlot},
                                asked : Filters \cup {NoFilter}]]
  /\ subTotal \in 0 .. MaxSubscriptions
  /\ cbTotal \in 0 .. MaxCallbacks
  /\ mutex \in Tasks \cup {NoTask, Agent}
  /\ call \in [Tasks -> [pc : {"idle"} \cup SubStates \cup UnsubStates,
                         filter : Filters \cup {NoFilter}, qos : 0 .. 2,
                         slot : Slots \cup {NoSlot}, entry : Entries \cup {0}, count : Nat,
                         packet : Filters \cup {NoFilter},
                         answer : {"none", "granted", "refused", "cancelled"}]]
  /\ agent \in {"disconnected", "loop", "publish", "relock"}
  /\ clean \in BOOLEAN
  /\ losses \in 0 .. MaxLosses
  /\ broker \subseteq Filters
  /\ acked \subseteq Filters

-----------------------------------------------------------------------------
(* The searches of MqttAgent_SubscribeSync.                                *)

Occupied(i) == subs[i].filter # NoFilter
First(S, none) == IF S = {} THEN none ELSE CHOOSE i \in S : \A j \in S : i <= j

FirstEmptySlot == First({i \in Slots : ~Occupied(i)}, NoSlot)

\* strncmp over the length of the stored filter: a stored filter matches all
\* the filters it is a prefix of, and an empty slot, of length 0, matches any
\* filter once the first empty slot is taken.
SlotMatches(i, f) ==
  IF Occupied(i) THEN <<subs[i].filter, f>> \in Prefix ELSE i # FirstEmptySlot

MatchingSlot(f) == First({i \in Slots : SlotMatches(i, f)}, NoSlot)

TargetSlot(f) == IF MatchingSlot(f) # NoSlot THEN MatchingSlot(f) ELSE FirstEmptySlot

\* prvGetNewQoS.
NewQoS(current, requested) == IF current = requested THEN current ELSE 1

RequestedQoS(f, q) ==
  IF MatchingSlot(f) # NoSlot THEN NewQoS(subs[MatchingSlot(f)].qos, q) ELSE q

\* The slots whose SUBACK state the search resets to trigger a subscribe: the
\* first empty slot unless the match is found before it, and the matching
\* slot when the QoS changes.
ResetBySearch(f, q) ==
  LET m == MatchingSlot(f)
  IN  {i \in Slots : \/ i = FirstEmptySlot /\ (m = NoSlot \/ i < m)
                     \/ i = m /\ subs[i].qos # RequestedQoS(f, q)}

\* prvMatchCbCtx for the calling task.
EntryMatches(j, t, s) == callbacks[j].sub = s /\ callbacks[j].task = t

\* Mutant: the first free entry, whether the client is registered or not.
TargetEntryFree(t, s) == First({j \in Entries : callbacks[j].sub = NoSlot}, 0)

TargetEntry(t, s) ==
  LET same == {j \in Entries : EntryMatches(j, t, s)}
  IN  IF same # {} THEN First(same, 0)
      ELSE First({j \in Entries : callbacks[j].sub = NoSlot}, 0)

-----------------------------------------------------------------------------
(* Compression of the two lists.                                           *)

\* An element of S and its place among them, counted from 1.
PlaceIn(S, i) == Cardinality({j \in S : j <= i})
ElementAt(S, k) == CHOOSE i \in S : PlaceIn(S, i) = k

OccupiedSlots == {i \in Slots : Occupied(i)}

\* prvCompressSubscriptionList and prvUpdateCallbackRefs: occupied slots move
\* down in order, with the callbacks that point to them; pulSubCbCount and
\* pxSubAckStatus stay where they are.
CompressedSubs ==
  [k \in Slots |->
    IF k <= Cardinality(OccupiedSlots) THEN subs[ElementAt(OccupiedSlots, k)]
    ELSE IF Occupied(k) THEN EmptySub ELSE subs[k]]

CompressedRefs ==
  [j \in Entries |->
    IF callbacks[j].sub \in OccupiedSlots
      THEN [callbacks[j] EXCEPT !.sub = PlaceIn(OccupiedSlots, @)]
      ELSE callbacks[j]]

\* prvCompressCallbackList: the used entries move to the front, in order.
CompressedCallbacks(cbs) ==
  LET used == {j \in Entries : cbs[j].sub # NoSlot}
  IN  [k \in Entries |->
        IF k <= Cardinality(used) THEN cbs[ElementAt(used, k)] ELSE EmptyCb]

UsedEntries(cbs) == Cardinality({j \in Entries : cbs[j].sub # NoSlot})

-----------------------------------------------------------------------------
(* MqttAgent_SubscribeSync.                                                *)

\* Mutant: the mutex is not taken for the search.
SubscribeUnlocked(t, f, q) ==
  /\ call[t] = Idle
  /\ mutex = NoTask
  /\ LET s == TargetSlot(f)
         e == IF s = NoSlot THEN 0 ELSE TargetEntry(t, s)
     IN  /\ e # 0
         /\ call' = [call EXCEPT ![t] = [Idle EXCEPT !.pc = "populate", !.filter = f,
                      !.qos = RequestedQoS(f, q), !.slot = s, !.entry = e]]
  /\ UNCHANGED <<tables, mutex, agentState, world>>

\* Lock the mutex and find a slot and a callback entry; without one of them
\* the call returns MQTTNoMemory.
Subscribe(t, f, q) ==
  /\ call[t] = Idle
  /\ mutex = NoTask
  /\ suback' = [i \in Slots |-> IF i \in ResetBySearch(f, q) THEN "failure" ELSE suback[i]]
  /\ LET s == TargetSlot(f)
         e == IF s = NoSlot THEN 0 ELSE TargetEntry(t, s)
     IN  IF e = 0
           THEN UNCHANGED <<mutex, call>>
           ELSE /\ mutex' = t
                /\ call' = [call EXCEPT ![t] = [Idle EXCEPT !.pc = "populate", !.filter = f,
                              !.qos = RequestedQoS(f, q), !.slot = s, !.entry = e]]
  /\ UNCHANGED <<subs, cbCount, callbacks, subTotal, cbTotal, agentState, world>>

\* Fill in the slot (its filter is a copy on the heap, which may fail) and
\* the callback entry, and unlock.
Populate(t) ==
  LET c == call[t]
      request == suback[c.slot] = "failure"
      new == request /\ ~Occupied(c.slot)
  IN
  /\ c.pc = "populate"
  /\ \E allocated \in BOOLEAN :
       LET ok == ~new \/ allocated
           register == ok /\ callbacks[c.entry].sub = NoSlot
       IN
       /\ allocated \/ (new /\ HeapMayFail)
       /\ subs' = IF ~request THEN subs
                  ELSE [subs EXCEPT ![c.slot] =
                         [filter |-> IF new /\ allocated THEN c.filter ELSE @.filter,
                          qos |-> c.qos]]
       /\ subTotal' = IF new /\ allocated THEN subTotal + 1 ELSE subTotal
       /\ IF register
            THEN /\ callbacks' = [callbacks EXCEPT ![c.entry] =
                                   [task |-> t, sub |-> c.slot, asked |-> c.filter]]
                 /\ cbCount' = [cbCount EXCEPT ![c.slot] = @ + 1]
                 /\ cbTotal' = cbTotal + 1
            ELSE UNCHANGED <<callbacks, cbCount, cbTotal>>
       /\ call' = [call EXCEPT ![t] = IF ~ok THEN Idle
                                        ELSE [c EXCEPT !.pc = "check", !.qos = 0, !.entry = 0]]
  /\ mutex' = NoTask
  /\ UNCHANGED <<suback, agentState, world>>

\* Without the mutex: nothing more to do unless the state says failure.
AlreadySubscribed(t) ==
  /\ call[t].pc = "check"
  /\ suback[call[t].slot] # "failure"
  /\ call' = [call EXCEPT ![t] = Idle]
  /\ UNCHANGED <<tables, mutex, agentState, world>>

\* prvSendSubRequest: the command is posted, or there is no command to post.
PostSubscribe(t) ==
  /\ call[t].pc = "check"
  /\ suback[call[t].slot] = "failure"
  /\ call' \in {[call EXCEPT ![t].pc = "subQueued"], [call EXCEPT ![t] = Idle]}
  /\ UNCHANGED <<tables, mutex, agentState, world>>

\* prvSendSubRequest gets its notification and stores the SUBACK code, with
\* no lock.  A cancelled command has no codes, which reads as code 0: granted.
SubscribeReturns(t) ==
  /\ call[t].pc = "subAnswered"
  /\ suback' = [suback EXCEPT ![call[t].slot] =
                  IF call[t].answer = "refused" THEN "failure" ELSE "granted"]
  /\ call' = [call EXCEPT ![t] = Idle]
  /\ UNCHANGED <<subs, cbCount, callbacks, subTotal, cbTotal, mutex, agentState, world>>

-----------------------------------------------------------------------------
(* MqttAgent_UnSubscribeSync.                                              *)

\* Mutant: the count is decremented without the test for zero.
UnsubscribeNoTest(t, f) ==
  LET s == First({i \in Slots : subs[i].filter = f}, NoSlot)
  IN
  /\ call[t] = Idle
  /\ mutex = NoTask
  /\ s # NoSlot
  /\ cbCount' = [cbCount EXCEPT ![s] = @ - 1]
  /\ call' = [call EXCEPT ![t] = [Idle EXCEPT !.pc = "remove", !.filter = f, !.count = cbCount[s]]]
  /\ UNCHANGED <<subs, suback, callbacks, subTotal, cbTotal, mutex, agentState, world>>

\* First locked section: give up one reference; the last one is unsubscribed
\* at the broker, if there is a command to post.
Unsubscribe(t, f) ==
  LET s == First({i \in Slots : subs[i].filter = f}, NoSlot)
      n == IF s = NoSlot THEN 0 ELSE cbCount[s]
  IN
  /\ call[t] = Idle
  /\ mutex = NoTask
  /\ cbCount' = IF n = 0 THEN cbCount ELSE [cbCount EXCEPT ![s] = n - 1]
  /\ \E pc \in IF n = 1 THEN {"unsubQueued", "remove"} ELSE {"remove"} :
       call' = [call EXCEPT ![t] = [Idle EXCEPT !.pc = pc, !.filter = f, !.count = n]]
  /\ UNCHANGED <<subs, suback, callbacks, subTotal, cbTotal, mutex, agentState, world>>

\* Mutant: the callbacks are not compressed after one is removed.
RemoveNoCompress(t) ==
  LET c == call[t]
      s == First({i \in Slots : cbCount[i] = 0 /\ subs[i].filter = c.filter}, NoSlot)
      e == First({j \in Entries : EntryMatches(j, t, s)}, 0)
  IN
  /\ c.pc = "remove"
  /\ mutex = NoTask
  /\ callbacks' = IF e = 0 THEN callbacks ELSE [callbacks EXCEPT ![e] = EmptyCb]
  /\ cbTotal' = IF e = 0 THEN cbTotal ELSE cbTotal - 1
  /\ IF e # 0 /\ c.count = 1
       THEN /\ subs' = [subs EXCEPT ![s] = EmptySub]
            /\ suback' = [suback EXCEPT ![s] = "failure"]
            /\ subTotal' = subTotal - 1
       ELSE UNCHANGED <<subs, suback, subTotal>>
  /\ call' = [call EXCEPT ![t] = Idle]
  /\ UNCHANGED <<cbCount, mutex, agentState, world>>

\* Second locked section: if the filter has a slot with no reference left,
\* drop the caller's callback, and free the slot if the caller held the last
\* reference.  Whether the request succeeded makes no difference.
Remove(t) ==
  LET c == call[t]
      s == First({i \in Slots : cbCount[i] = 0 /\ subs[i].filter = c.filter}, NoSlot)
      e == First({j \in Entries : EntryMatches(j, t, s)}, 0)
      removed == CompressedCallbacks([callbacks EXCEPT ![e] = EmptyCb])
  IN
  /\ c.pc = "remove"
  /\ mutex = NoTask
  /\ callbacks' = IF e = 0 THEN callbacks ELSE removed
  /\ cbTotal' = IF e = 0 THEN cbTotal ELSE UsedEntries(removed)
  /\ IF e # 0 /\ c.count = 1
       THEN /\ subs' = [subs EXCEPT ![s] = EmptySub]
            /\ suback' = [suback EXCEPT ![s] = "failure"]
            /\ subTotal' = subTotal - 1
       ELSE UNCHANGED <<subs, suback, subTotal>>
  /\ call' = [call EXCEPT ![t] = Idle]
  /\ UNCHANGED <<cbCount, mutex, agentState, world>>

-----------------------------------------------------------------------------
(* The requests in the agent (external: MQTTAgent_CommandLoop, CancelAll). *)

Queued(t) == call[t].pc \in {"subQueued", "unsubQueued"}
Sent(t) == call[t].pc \in {"subSent", "unsubSent"}
IsSubscribe(t) == call[t].pc \in SubStates

\* Completion of t's request: prvSubscribeRqCallback, prvAgentRequestCallback.
Concluded(t, answer) ==
  [call[t] EXCEPT !.pc = IF IsSubscribe(t) THEN "subAnswered" ELSE "remove",
                  !.answer = IF IsSubscribe(t) THEN answer ELSE "none",
                  !.packet = NoFilter]

\* The agent sends the packet of a request.  The command of a subscribe holds
\* a pointer to the slot, so the packet has the filter that is there now; the
\* library refuses to send an empty one.
Transmit(t) ==
  /\ agent = "loop"
  /\ Queued(t)
  /\ LET packet == IF IsSubscribe(t) THEN subs[call[t].slot].filter ELSE call[t].filter
     IN  call' = [call EXCEPT ![t] =
                   IF packet = NoFilter THEN Concluded(t, "cancelled")
                   ELSE [@ EXCEPT !.pc = IF IsSubscribe(t) THEN "subSent" ELSE "unsubSent",
                                  !.packet = packet]]
  /\ UNCHANGED <<tables, mutex, agentState, world>>

SubAcked(t) ==
  /\ agent = "loop"
  /\ call[t].pc = "subSent"
  /\ \E answer \in {"granted", "refused"} :
       /\ call' = [call EXCEPT ![t] = Concluded(t, answer)]
       /\ LET new == IF answer = "granted" THEN {call[t].packet} ELSE {}
          IN  broker' = broker \cup new /\ acked' = acked \cup new
  /\ UNCHANGED <<tables, mutex, agentState>>

UnsubAcked(t) ==
  /\ agent = "loop"
  /\ call[t].pc = "unsubSent"
  /\ call' = [call EXCEPT ![t] = Concluded(t, "granted")]
  /\ broker' = broker \ {call[t].packet}
  /\ acked' = acked \ {call[t].packet}
  /\ UNCHANGED <<tables, mutex, agentState>>

\* MQTTAgent_CancelAll concludes every request that was sent, and those that
\* it still receives from the queue (AgentCommands tells why not all).
Cancelled(T) ==
  call' = [t \in Tasks |-> IF t \in T \/ Sent(t) THEN Concluded(t, "cancelled") ELSE call[t]]

CancelAll == \E T \in SUBSET {t \in Tasks : Queued(t)} : Cancelled(T)

-----------------------------------------------------------------------------
(* vMQTTAgentTask.                                                         *)

\* memset( pxSubAckStatus, MQTTSubAckFailure, ... ) writes bytes into words.
StatusReset == suback' = [i \in Slots |-> "filled"]

\* MQTT_Connect or MQTTAgent_ResumeSession fails: the mutex is kept.
ConnectFails ==
  /\ agent = "disconnected"
  /\ CancelAll
  /\ StatusReset
  /\ UNCHANGED <<subs, cbCount, callbacks, subTotal, cbTotal, mutex, agentState, world>>

\* The first connection: prvSubscriptionManagerCtxReset, unlock.
ConnectClean ==
  /\ agent = "disconnected"
  /\ clean
  /\ CancelAll
  /\ subs' = [i \in Slots |-> EmptySub]
  /\ suback' = [i \in Slots |-> "failure"]
  /\ cbCount' = [i \in Slots |-> 0]
  /\ callbacks' = [j \in Entries |-> EmptyCb]
  /\ subTotal' = 0
  /\ cbTotal' = 0
  /\ mutex' = NoTask
  /\ agent' = "loop"
  /\ clean' = FALSE
  /\ broker' = {}
  /\ acked' = {}
  /\ UNCHANGED losses

\* The broker resumes the session: nothing unlocks the mutex.
ConnectResumed ==
  /\ agent = "disconnected"
  /\ ~clean
  /\ CancelAll
  /\ agent' = "loop"
  /\ UNCHANGED <<tables, mutex, clean, losses, world>>

\* The broker has no session: prvHandleResubscribe compresses the list and,
\* its status being MQTTBadParameter from the start, only unlocks.
ConnectNoSession ==
  /\ agent = "disconnected"
  /\ ~clean
  /\ CancelAll
  /\ subs' = CompressedSubs
  /\ callbacks' = CompressedRefs
  /\ subTotal' = Cardinality(OccupiedSlots)
  /\ mutex' = NoTask
  /\ agent' = "loop"
  /\ broker' = {}
  /\ UNCHANGED <<suback, cbCount, cbTotal, clean, losses, acked>>

\* MQTTAgent_CommandLoop returns: CancelAll, disconnect.
ConnectionLost ==
  /\ agent = "loop"
  /\ losses < MaxLosses
  /\ losses' = losses + 1
  /\ CancelAll
  /\ agent' = "relock"
  /\ UNCHANGED <<tables, mutex, clean, world>>

\* Mutant: the agent does not wait for the mutex before it goes on.
RelockUnlocked ==
  /\ agent = "relock"
  /\ StatusReset
  /\ agent' = "disconnected"
  /\ UNCHANGED <<subs, cbCount, callbacks, subTotal, cbTotal, mutex, call, clean, losses, world>>

\* The mutex is taken unless the agent has it, and the states are reset.
Relock ==
  /\ agent = "relock"
  /\ mutex \in {NoTask, Agent}
  /\ mutex' = Agent
  /\ StatusReset
  /\ agent' = "disconnected"
  /\ UNCHANGED <<subs, cbCount, callbacks, subTotal, cbTotal, call, clean, losses, world>>

\* prvIncomingPublishCallback: lock, run the callbacks of the matching
\* filters, unlock.  The callbacks leave the tables alone.
IncomingPublish ==
  /\ agent = "loop"
  /\ agent' = "publish"
  /\ UNCHANGED <<tables, mutex, call, clean, losses, world>>

PublishHandled ==
  /\ agent = "publish"
  /\ mutex = NoTask
  /\ agent' = "loop"
  /\ UNCHANGED <<tables, mutex, call, clean, losses, world>>

-----------------------------------------------------------------------------
\* prvSubscriptionManagerCtxInit: the agent takes the mutex and resets.
Init ==
  /\ subs = [i \in Slots |-> EmptySub]
  /\ suback = [i \in Slots |-> "failure"]
  /\ cbCount = [i \in Slots |-> 0]
  /\ callbacks = [j \in Entries |-> EmptyCb]
  /\ subTotal = 0
  /\ cbTotal = 0
  /\ mutex = Agent
  /\ call = [t \in Tasks |-> Idle]
  /\ agent = "disconnected"
  /\ clean = TRUE
  /\ losses = 0
  /\ broker = {}
  /\ acked = {}

TaskNext(t) ==
  \/ \E f \in Uses[t], q \in QoS : Subscribe(t, f, q)
  \/ Populate(t) \/ AlreadySubscribed(t) \/ PostSubscribe(t) \/ SubscribeReturns(t)
  \/ \E f \in Uses[t] : Unsubscribe(t, f)
  \/ Remove(t)

RequestNext(t) == Transmit(t) \/ SubAcked(t) \/ UnsubAcked(t)

AgentNext ==
  \/ ConnectFails \/ ConnectClean \/ ConnectResumed \/ ConnectNoSession
  \/ ConnectionLost \/ Relock \/ IncomingPublish \/ PublishHandled

Next == AgentNext \/ \E t \in Tasks : TaskNext(t) \/ RequestNext(t)

Spec == Init /\ [][Next]_vars

-----------------------------------------------------------------------------
(* Properties.                                                             *)

InCall(t) == call[t].pc # "idle"

(* The assertions MUTEX_IS_OWNED of vMQTTAgentTask: from the loss of the   *)
(* connection until it is back the agent holds the mutex, and a task that  *)
(* fills in the tables holds it then, alone.                               *)
LockDiscipline ==
  /\ agent = "disconnected" => mutex = Agent
  /\ \A t \in Tasks : call[t].pc = "populate" <=> mutex = t

(* uxCallbackCount, prvCompressCallbackList and uxSubscriptionCount: the   *)
(* callbacks in use are the first uxCallbackCount entries of the list,     *)
(* with no hole and no entry left over, and uxSubscriptionCount is the     *)
(* number of slots in use, after any sequence of calls and reconnects.     *)
CountsExact ==
  /\ \A j \in Entries : callbacks[j].sub # NoSlot <=> j <= cbTotal
  /\ subTotal = Cardinality(OccupiedSlots)

(* Compressing, freeing and reusing slots never change the filter of one   *)
(* that somebody refers to: a callback stays with the filter that its      *)
(* client asked for, and the slot that prvSendSubRequest gives the agent a *)
(* pointer to holds the caller's filter until the request is answered.     *)
SlotKeepsFilter ==
  /\ \A j \in Entries : LET c == callbacks[j] IN
       c.sub # NoSlot => subs[c.sub].filter = c.asked
  /\ \A t \in Tasks :
       call[t].pc \in {"check", "subQueued", "subSent", "subAnswered"} =>
         subs[call[t].slot].filter = call[t].filter

(* pulSubCbCount is the number of callbacks on the slot, less the ones     *)
(* that a call of UnSubscribeSync has given up and not yet removed.        *)
RefCountExact ==
  \A i \in Slots :
    cbCount[i] + Cardinality({t \in Tasks :
                   /\ call[t].pc \in UnsubStates /\ call[t].count > 0
                   /\ i = First({k \in Slots : subs[k].filter = call[t].filter}, NoSlot)})
      = Cardinality({j \in Entries : callbacks[j].sub = i})

-----------------------------------------------------------------------------
(* Statements of the repository that the code does not keep.               *)

(* vMQTTAgentTask: "Re-subscribe to all the previously subscribed topics   *)
(* if there is no existing session."                                       *)
Resubscribed ==
  agent = "loop" /\ (\A t \in Tasks : ~InCall(t)) => acked \subseteq broker

(* vMQTTAgentTask: "Wait for any subscription related calls to complete".  *)
CallsComplete == agent = "disconnected" => \A t \in Tasks : ~InCall(t)

(* xLockSubCtx asserts that the mutex is not owned by the task that locks. *)
NoSelfLock == ~(agent = "publish" /\ mutex = Agent)

(* subscription_manager.h, MqttAgent_UnSubscribeSync: "Remove the specified *)
(* callback from the given topic filter."                                  *)
UnsubscribeRemoves ==
  [][\A t \in Tasks :
       call[t].pc = "remove" /\ call'[t].pc = "idle" =>
         \A j \in Entries : ~(callbacks'[j].task = t /\ callbacks'[j].asked = call[t].filter)]_vars

(* subscription_manager.h, MqttAgent_SubscribeSync: "Add a callback for a  *)
(* given topic filter. Subscribe if not already subscribed."               *)
SubscribedOrRequested ==
  [][\A t \in Tasks :
       AlreadySubscribed(t) =>
         \/ call[t].filter \in broker
         \/ \E u \in Tasks \ {t} : InCall(u) /\ call[u].filter = call[t].filter]_vars

=============================================================================
