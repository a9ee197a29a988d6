------------------------------ MODULE Defender ------------------------------
(***************************************************************************)
(* defender_task.c and defender_metrics_collector_lwip.c: the task that    *)
(* collects the metrics of the network stack into a report, publishes it   *)
(* and waits for the PUBACK and for the response of the Device Defender    *)
(* service.                                                                *)
(*                                                                         *)
(* Three actors share its state.  The MQTT agent, whose priority is the    *)
(* higher one, completes publishes and runs the two response callbacks;    *)
(* each is one step that may come between any two steps of the task.  The  *)
(* network stack changes its lists of control blocks whenever the task     *)
(* does not hold the core lock.  The service may answer late, in any       *)
(* order, to somebody else (the filters have a wildcard for the thing) or  *)
(* never.                                                                  *)
(***************************************************************************)
EXTENDS Integers, FiniteSets

CONSTANTS MaxReports,  \* bound: reports that the task makes
          MaxPcbs,     \* bound: control blocks in a list of the stack
          MaxInbound,  \* bound: responses on their way
          NULL

ASSUME BoundsAssumption ==
  MaxReports \in Nat \ {0} /\ MaxPcbs \in Nat /\ MaxInbound \in Nat \ {0}

Reports == 1 .. MaxReports
Sections == 1 .. 3     \* "tp", "up" and "tc" of the report
Flaws == {"torn", "short"}
Topics == {"accepted", "rejected"}
Success == 0           \* MQTTSuccess
Failure == 1           \* any other MQTTStatus_t

VARIABLES
  pc,          \* where vDefenderAgentTask is
  report,      \* the number of the report at hand (its id is the tick count)
  section,     \* the section of the report that is encoded
  counted,     \* ulPortCount, ulConnCount; 0 out of their scope
  lock,        \* LOCK_TCPIP_CORE is held by the task
  pcbs,        \* the length of the list of the stack that the next section reads
  buffer,      \* pucReportBuffer: whose report, and whether a list in it is torn
               \* (more blocks than announced, or none of them) or short (fewer)
  waiting,     \* xWaitingForCallback
  puback,      \* the notification of NOTIFY_IDX_PUBACK, NULL when there is none
  response,    \* that of NOTIFY_IDX_ACCEPTED_REJECTED
  result,      \* what prvPublishDeviceMetricsReport returned, and why
  status,      \* the response that ended the wait of this report, NULL if none did
  registered,  \* the topics whose callback is registered, with &xCtx
  queued,      \* publish commands in the agent that are not sent yet
  pending,     \* publishes that were sent and not acknowledged
  inbound      \* responses of the service on their way

encoding == <<section, counted, lock, buffer>>
mqtt == <<queued, pending, inbound>>
outcome == <<result, status>>
vars == <<pc, report, encoding, pcbs, waiting, puback, response, outcome,
          registered, mqtt>>

NoResult == [ok |-> FALSE, acked |-> FALSE]
Response == [report : Reports \cup {NULL}, topic : Topics]
\* A response with, as history, the report that the task was at when it came
\* and whether the wait for it was over.
Notification ==
  [report : Reports \cup {NULL}, topic : Topics, during : Reports, late : BOOLEAN]

TypeOK ==
  /\ pc \in {"start", "ready", "subRejected", "header", "stats", "count", "append",
             "close", "publish", "waitPuback", "waitResponse", "clear", "sleep",
             "unsubAccepted", "unsubRejected", "deleted"}
  /\ report \in 0 .. MaxReports
  /\ section \in Sections
  /\ counted \in 0 .. MaxPcbs
  /\ lock \in BOOLEAN /\ waiting \in BOOLEAN
  /\ pcbs \in 0 .. MaxPcbs
  /\ buffer \in [report : 0 .. MaxReports, lists : SUBSET Flaws]
  /\ puback \in [report : Reports, code : {Success, Failure}] \cup {NULL}
  /\ response \in Notification \cup {NULL}
  /\ result \in [ok : BOOLEAN, acked : BOOLEAN]
  /\ status \in Notification \cup {NULL}
  /\ registered \subseteq Topics
  /\ queued \subseteq Reports /\ pending \subseteq Reports
  /\ inbound \subseteq Response

-----------------------------------------------------------------------------
(* The start of vDefenderAgentTask, and its end.                           *)

\* Without a thing name, or when a topic string cannot be built, nothing is
\* subscribed; either way the task first waits for the agent.
Start ==
  /\ pc = "start"
  /\ pc' \in {"ready", "unsubAccepted"}
  /\ UNCHANGED <<report, encoding, pcbs, waiting, puback, response, outcome,
                 registered, mqtt>>

\* MqttAgent_SubscribeSync: the callback stays registered when the request
\* fails, and is not registered when there is no free slot.
SubscribeSync(topic, next) ==
  \/ pc' = next /\ registered' = registered \cup {topic}
  \/ pc' = "unsubAccepted" /\ registered' \in {registered, registered \cup {topic}}

SubscribeAccepted ==
  /\ pc = "ready"
  /\ SubscribeSync("accepted", "subRejected")
  /\ UNCHANGED <<report, encoding, pcbs, waiting, puback, response, outcome, mqtt>>

SubscribeRejected ==
  /\ pc = "subRejected"
  /\ SubscribeSync("rejected", "header")
  /\ UNCHANGED <<report, encoding, pcbs, waiting, puback, response, outcome, mqtt>>

\* MqttAgent_UnSubscribeSync removes the callback of a topic that no other
\* task uses, whether its request succeeds or not.
UnsubscribeAccepted ==
  /\ pc = "unsubAccepted"
  /\ registered' = registered \ {"accepted"}
  /\ pc' = "unsubRejected"
  /\ UNCHANGED <<report, encoding, pcbs, waiting, puback, response, outcome, mqtt>>

\* Mutant: the second topic is only left when its subscription succeeded,
\* which it never did on this path.
UnsubscribeRejectedSkipped ==
  /\ pc = "unsubRejected"
  /\ pc' = "deleted"
  /\ UNCHANGED <<report, encoding, pcbs, waiting, puback, response, outcome,
                 registered, mqtt>>

\* The second topic; then prvClearCtx frees the strings and the task, whose
\* stack holds xCtx, deletes itself.
UnsubscribeRejected ==
  /\ pc = "unsubRejected"
  /\ registered' = registered \ {"rejected"}
  /\ pc' = "deleted"
  /\ UNCHANGED <<report, encoding, pcbs, waiting, puback, response, outcome, mqtt>>

-----------------------------------------------------------------------------
(* A report is encoded.  An error skips what is left of the report and its *)
(* publication, but not the wait for the response.                         *)

Encoded(next) == pc' \in {next, "waitResponse"}

\* The encoder starts at the beginning of the one buffer: id and version.
EncodeHeader ==
  /\ pc = "header"
  /\ report < MaxReports
  /\ report' = report + 1
  /\ buffer' = [report |-> report', lists |-> {}]
  /\ Encoded("stats")
  /\ UNCHANGED <<section, counted, lock, pcbs, waiting, puback, response, outcome,
                 registered, mqtt>>

\* xGetNetworkStats adds the counters up under the lock.
GetNetworkStats ==
  /\ pc = "stats"
  /\ ~lock
  /\ Encoded("count")
  /\ UNCHANGED <<report, encoding, pcbs, waiting, puback, response,
                 outcome, registered, mqtt>>

\* Mutant: the lock is only held while the blocks are counted.
CountPortsUnlocks ==
  /\ pc = "count"
  /\ ~lock
  /\ lock' = FALSE
  /\ counted' = pcbs
  /\ pc' = "append"
  /\ UNCHANGED <<report, section, pcbs, buffer, waiting, puback, response,
                 outcome, registered, mqtt>>

\* Take the lock and count the blocks; the number is encoded, and with it
\* the length of the array.  Of the TCP ports only those that listen count,
\* which are all that lwIP keeps in that list.
CountPorts ==
  /\ pc = "count"
  /\ ~lock
  /\ lock' = TRUE
  /\ counted' = pcbs
  /\ pc' = "append"
  /\ UNCHANGED <<report, section, pcbs, buffer, waiting, puback, response,
                 outcome, registered, mqtt>>

\* Mutant: the lock is kept when a block cannot be encoded.
AppendFailsLocked ==
  /\ pc = "append"
  /\ pc' = "waitResponse"
  /\ UNCHANGED <<report, encoding, pcbs, waiting, puback, response, outcome,
                 registered, mqtt>>

\* The last block of the list, or what is around the list, cannot be encoded:
\* the buffer is too small, or an address or a name cannot be written.
AppendFails ==
  /\ pc = "append"
  /\ lock' = FALSE
  /\ section' = 1
  /\ counted' = 0
  /\ pc' = "waitResponse"
  /\ UNCHANGED <<report, pcbs, buffer, waiting, puback, response,
                 outcome, registered, mqtt>>

\* A map for each block, as the list is now.  xError is overwritten by the next
\* block, so that only the last one has to succeed; a block that fails leaves
\* no map.  The encoder (external) is not relied on to compare the number of
\* maps with the length that the array was given.
Appended == IF counted = 0 \/ pcbs = 0 THEN {0} ELSE 1 .. pcbs

Lists(listed) ==
  [buffer EXCEPT !.lists =
    @ \cup (IF listed > counted \/ (counted > 0 /\ listed = 0) THEN {"torn"} ELSE {})
      \cup (IF listed < counted THEN {"short"} ELSE {})]

\* Mutant: a fourth section is looked for.
AppendPortsOneMore ==
  /\ pc = "append"
  /\ \E listed \in Appended : buffer' = Lists(listed)
  /\ lock' = FALSE
  /\ counted' = 0
  /\ section' = section + 1
  /\ pc' = IF section \in Sections THEN "count" ELSE "close"
  /\ UNCHANGED <<report, pcbs, waiting, puback, response, outcome,
                 registered, mqtt>>

\* Append the blocks and give the lock back.
AppendPorts ==
  /\ pc = "append"
  /\ \E listed \in Appended : buffer' = Lists(listed)
  /\ lock' = FALSE
  /\ counted' = 0
  /\ section' = IF section + 1 \in Sections THEN section + 1 ELSE 1
  /\ pc' = IF section + 1 \in Sections THEN "count" ELSE "close"
  /\ UNCHANGED <<report, pcbs, waiting, puback, response, outcome,
                 registered, mqtt>>

CloseReport ==
  /\ pc = "close"
  /\ Encoded("publish")
  /\ UNCHANGED <<report, encoding, pcbs, waiting, puback, response, outcome,
                 registered, mqtt>>

-----------------------------------------------------------------------------
(* The report is published and its response awaited.                       *)

\* prvPublishDeviceMetricsReport: the command is queued, or no command is free.
PublishReport ==
  /\ pc = "publish"
  /\ waiting' = TRUE
  /\ \/ queued' = queued \cup {report} /\ pc' = "waitPuback"
     \/ queued' = queued /\ pc' = "waitResponse"
  /\ UNCHANGED <<report, encoding, pcbs, puback, response, outcome, registered,
                 pending, inbound>>

PubackTaken ==
  /\ pc = "waitPuback"
  /\ puback # NULL
  /\ result' = [ok |-> puback.code = Success, acked |-> TRUE]
  /\ puback' = NULL
  /\ pc' = "waitResponse"
  /\ UNCHANGED <<report, encoding, pcbs, waiting, response, status, registered, mqtt>>

\* xTaskNotifyWaitIndexed stores the value of the notification, which the
\* last wait has cleared, also when it gives up: ulStatus is MQTTSuccess.
PubackTimesOut ==
  /\ pc = "waitPuback"
  /\ puback = NULL
  /\ result' = [ok |-> TRUE, acked |-> FALSE]
  /\ pc' = "waitResponse"
  /\ UNCHANGED <<report, encoding, pcbs, waiting, puback, response, status,
                 registered, mqtt>>

\* The result of the publication is not looked at any more.
ResponseTaken ==
  /\ pc = "waitResponse"
  /\ response # NULL
  /\ status' = response
  /\ response' = NULL
  /\ result' = NoResult
  /\ pc' = "clear"
  /\ UNCHANGED <<report, encoding, pcbs, waiting, puback, registered, mqtt>>

ResponseTimesOut ==
  /\ pc = "waitResponse"
  /\ response = NULL
  /\ result' = NoResult
  /\ pc' = "clear"
  /\ UNCHANGED <<report, encoding, pcbs, waiting, puback, response, status,
                 registered, mqtt>>

\* Mutant: the flag is left set until the next report.
StopWaitingKeepsFlag ==
  /\ pc = "clear"
  /\ pc' = "sleep"
  /\ UNCHANGED <<report, encoding, pcbs, waiting, puback, response, outcome,
                 registered, mqtt>>

StopWaiting ==
  /\ pc = "clear"
  /\ waiting' = FALSE
  /\ pc' = "sleep"
  /\ UNCHANGED <<report, encoding, pcbs, puback, response, outcome, registered, mqtt>>

\* vTaskDelay( MS_BETWEEN_REPORTS ), and the next turn of the loop.
Wake ==
  /\ pc = "sleep"
  /\ report < MaxReports
  /\ status' = NULL
  /\ pc' = "header"
  /\ UNCHANGED <<report, encoding, pcbs, waiting, puback, response, result,
                 registered, mqtt>>

-----------------------------------------------------------------------------
(* The MQTT agent, the service and the network stack.                      *)

\* The agent sends what the buffer holds now; the service answers on one of
\* the topics, or not at all.
SendPublish(r) ==
  /\ r \in queued
  /\ queued' = queued \ {r}
  /\ pending' = pending \cup {r}
  /\ \/ UNCHANGED inbound
     \/ \E topic \in Topics :
          /\ Cardinality(inbound) < MaxInbound
          /\ inbound' = inbound \cup {[report |-> buffer.report, topic |-> topic]}
  /\ UNCHANGED <<pc, report, encoding, pcbs, waiting, puback, response, outcome,
                 registered>>

\* prvPublishOpCb: the PUBACK came, or the connection was lost and the
\* command cancelled, before or after it was sent.
PublishOpCb(r, code) ==
  /\ r \in pending \/ (r \in queued /\ code = Failure)
  /\ queued' = queued \ {r}
  /\ pending' = pending \ {r}
  /\ puback' = IF waiting THEN [report |-> r, code |-> code] ELSE puback
  /\ UNCHANGED <<pc, report, encoding, pcbs, waiting, response, outcome, registered,
                 inbound>>

\* The service answers the report of another thing.
ForeignResponse(topic) ==
  /\ inbound = {}
  /\ inbound' = {[report |-> NULL, topic |-> topic]}
  /\ UNCHANGED <<pc, report, encoding, pcbs, waiting, puback, response, outcome,
                 registered, queued, pending>>

\* prvReportAcceptedCallback and prvReportRejectedCallback, which differ in
\* the status only: prvValidateDefenderResponse accepts everything.
ReportCallback(m) ==
  /\ m \in inbound
  /\ inbound' = inbound \ {m}
  /\ response' = IF m.topic \in registered /\ waiting
                 THEN [report |-> m.report, topic |-> m.topic, during |-> report,
                       late |-> pc = "clear"]
                 ELSE response
  /\ UNCHANGED <<pc, report, encoding, pcbs, waiting, puback, outcome, registered,
                 queued, pending>>

\* The stack opens or closes a connection or a port, with the core locked.
PcbsChange(n) ==
  /\ ~lock
  /\ n # pcbs
  /\ pcbs' = n
  /\ UNCHANGED <<pc, report, encoding, waiting, puback, response, outcome, registered,
                 mqtt>>

-----------------------------------------------------------------------------

Init ==
  /\ pc = "start"
  /\ report = 0
  /\ section = 1
  /\ counted = 0
  /\ lock = FALSE
  /\ pcbs = 0
  /\ buffer = [report |-> 0, lists |-> {}]
  /\ waiting = FALSE
  /\ puback = NULL
  /\ response = NULL
  /\ result = NoResult
  /\ status = NULL
  /\ registered = {}
  /\ queued = {}
  /\ pending = {}
  /\ inbound = {}

\* The steps of the task from one report to the next.
TaskStep ==
  \/ EncodeHeader \/ GetNetworkStats \/ CountPorts \/ AppendPorts \/ AppendFails
  \/ CloseReport \/ PublishReport \/ PubackTaken \/ PubackTimesOut
  \/ ResponseTaken \/ ResponseTimesOut \/ StopWaiting \/ Wake

Next ==
  \/ Start \/ SubscribeAccepted \/ SubscribeRejected
  \/ UnsubscribeAccepted \/ UnsubscribeRejected
  \/ TaskStep
  \/ \E r \in Reports : SendPublish(r)
  \/ \E r \in Reports, code \in {Success, Failure} : PublishOpCb(r, code)
  \/ \E topic \in Topics : ForeignResponse(topic)
  \/ \E m \in inbound : ReportCallback(m)
  \/ \E n \in 0 .. MaxPcbs : PcbsChange(n)

Spec == Init /\ [][Next]_vars

\* The scheduler runs the task again once it is ready, and every wait of the
\* loop has a timeout.
FairSpec == Spec /\ WF_vars(TaskStep)

-----------------------------------------------------------------------------
(* Properties.                                                             *)

\* xGetListeningTcpPorts and the others count and list under one lock: what is
\* published is the report at hand, and although the stack opens and closes
\* connections between the sections and errors of single blocks are lost, no
\* list has more blocks than it announces, and none that announces some is
\* empty.
ReportWellFormed == pc = "publish" => buffer.report = report /\ "torn" \notin buffer.lists

\* The notification of the response is not cleared before a report, so
\* xWaitingForCallback alone keeps old responses out: one that ends a wait
\* came since the report at hand was published, or in the moment between the
\* end of the wait before and the clearing of the flag.
StatusIsRecent ==
  pc \in {"clear", "sleep"} /\ status # NULL =>
    \/ status.during = report
    \/ status.during = report - 1 /\ status.late

\* Once the context on the stack of the task is gone no callback that uses
\* it is registered, whichever of the two subscriptions has failed and how.
NoDanglingContext == pc = "deleted" => registered = {}

\* A report, once begun, is concluded: no PUBACK or response that fails to
\* come, and no error while it is encoded, stops the task.
ReportConcluded ==
  \A n \in Reports :
    (report = n /\ pc = "stats") ~> (report = n /\ pc = "sleep")

\* The number in a section is that of its list.  Refuted by a block whose error
\* the next block of the loop overwrites.
ListsComplete == pc = "publish" => "short" \notin buffer.lists

\* prvPublishDeviceMetricsReport: "true if the report is published
\* successfully; false otherwise."  Refuted by the wait that gives up.
PublishedIsAcked == result.ok => result.acked

\* prvReportAcceptedCallback: "Check if the response is valid and is for the
\* report we published."  Refuted by late and by other things' responses.
ResponseIsForReport ==
  pc \in {"clear", "sleep"} /\ status # NULL => status.report = report

\* The buffer belongs to the report whose publish is waiting to be sent.
\* Refuted once the wait for the PUBACK has given up.
BufferInUse == \A r \in queued : buffer.report = r
=============================================================================
