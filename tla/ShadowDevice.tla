---------------------------- MODULE ShadowDevice ----------------------------
(***************************************************************************)
(* shadow_device_task.c: the task that reports the powerOn state to the    *)
(* device shadow, and the three callbacks that the MQTT agent task runs    *)
(* for messages of the shadow service.  The agent has the higher priority  *)
(* (vInitTask), so a callback is one step that may come between any two    *)
(* steps of the shadow task.                                               *)
(*                                                                         *)
(* The service is external: it accepts or rejects the updates it gets,     *)
(* its responses may be late, out of order or lost, and it sends deltas    *)
(* when somebody changes the desired state.                                *)
(***************************************************************************)
EXTENDS Integers, Sequences

CONSTANTS TokenWrap,    \* the modulus of a client token (1000000)
          MaxVersion,   \* bound: versions of the desired state
          MaxQueued,    \* bound: publish commands that wait in the agent
          MaxNotified,  \* bound: the notification count of the task
          Foreign       \* whether other clients' updates are answered too

ASSUME BoundsAssumption ==
  /\ TokenWrap \in Nat \ {0} /\ MaxVersion \in Nat
  /\ MaxQueued \in Nat \ {0} /\ MaxNotified \in Nat \ {0} /\ Foreign \in BOOLEAN

PowerOn == {0, 1}
InvalidPowerOn == 2          \* shadowexampleINVALID_POWERON_STATE
Tokens == 0 .. TokenWrap - 1
NoDoc == [state |-> InvalidPowerOn, token |-> 0]

VARIABLES
  pc,         \* where vShadowDeviceTask is
  current,    \* ulCurrentPowerOnState
  reported,   \* ulReportedPowerOnState
  token,      \* ulClientToken
  doc,        \* pcUpdateDocument: the state and the token in it, NoDoc when cleared
  notified,   \* the notification count of the task
  version,    \* ulCurrentVersion of the delta callback
  tick,       \* xTaskGetTickCount() when the next report is made, modulo TokenWrap
  queued,     \* publish commands in the agent: they all point to doc
  responses,  \* responses on their way
  deltas,     \* deltas on their way
  desired,    \* desired[v]: the desired state in version v of the shadow
  shadow      \* the reported state that the service has stored

device == <<pc, current, reported, token, doc, notified, version, tick>>
service == <<responses, deltas, desired, shadow>>
vars == <<device, queued, service>>

Response == [kind : {"accepted", "rejected"}, token : Tokens, state : PowerOn]
\* Another client's update, whose token is no number (strtoul makes it 0) and
\* whose document has no reported state.
ForeignResponse == [kind |-> "foreign", token |-> 0, state |-> InvalidPowerOn]

TypeOK ==
  /\ pc \in {"check", "format", "publish", "wait", "timedOut", "clear"}
  /\ current \in PowerOn
  /\ reported \in PowerOn \cup {InvalidPowerOn}
  /\ token \in Tokens
  /\ doc \in [state : PowerOn, token : Tokens] \cup {NoDoc}
  /\ notified \in 0 .. MaxNotified
  /\ version \in 0 .. MaxVersion
  /\ tick \in Tokens
  /\ queued \in 0 .. MaxQueued
  /\ responses \subseteq Response \cup {ForeignResponse}
  /\ desired \in Seq(PowerOn \cup {InvalidPowerOn}) /\ Len(desired) <= MaxVersion
  /\ deltas \subseteq DOMAIN desired
  /\ shadow \in PowerOn

-----------------------------------------------------------------------------
(* vShadowDeviceTask.                                                      *)

\* Mutant: the token is the tick count itself.
NewTokenNoModulus ==
  /\ pc = "check"
  /\ current # reported
  /\ token' = tick
  /\ tick' = tick + 1
  /\ responses' = {r \in responses : r.token # token'}
  /\ doc' = NoDoc
  /\ pc' = "format"
  /\ UNCHANGED <<current, reported, notified, version, queued, deltas, desired, shadow>>

\* A report is due: create its client token and clear the buffer.  A token
\* comes back after TokenWrap ticks, which no response takes to arrive.
NewToken ==
  /\ pc = "check"
  /\ current # reported
  /\ token' = tick
  /\ tick' = (tick + 1) % TokenWrap
  /\ responses' = {r \in responses : r.token # token'}
  /\ doc' = NoDoc
  /\ pc' = "format"
  /\ UNCHANGED <<current, reported, notified, version, queued, deltas, desired, shadow>>

\* Write the document, with the state as it is now.
FormatReport ==
  /\ pc = "format"
  /\ doc' = [state |-> current, token |-> token]
  /\ pc' = "publish"
  /\ UNCHANGED <<current, reported, token, notified, version, tick, queued, service>>

\* MQTTAgent_Publish: the command is added, or no command structure is free.
PublishReport ==
  /\ pc = "publish"
  /\ \/ queued < MaxQueued /\ queued' = queued + 1 /\ pc' = "wait"
     \/ queued' = queued /\ pc' = "clear"
  /\ UNCHANGED <<current, reported, token, doc, notified, version, tick, service>>

\* ulTaskNotifyTake( pdFALSE, ... ) decrements the count.
ResponseTaken ==
  /\ pc = "wait"
  /\ notified > 0
  /\ notified' = notified - 1
  /\ pc' = "clear"
  /\ UNCHANGED <<current, reported, token, doc, version, tick, queued, service>>

WaitTimesOut ==
  /\ pc = "wait"
  /\ notified = 0
  /\ pc' = "timedOut"
  /\ UNCHANGED <<current, reported, token, doc, notified, version, tick, queued, service>>

\* The reported state is unknown: report again.
Invalidate ==
  /\ pc = "timedOut"
  /\ reported' = InvalidPowerOn
  /\ pc' = "clear"
  /\ UNCHANGED <<current, token, doc, notified, version, tick, queued, service>>

\* Then the task sleeps (shadowMS_BETWEEN_REPORTS).
ClearToken ==
  /\ pc = "clear"
  /\ token' = 0
  /\ pc' = "check"
  /\ UNCHANGED <<current, reported, doc, notified, version, tick, queued, service>>

-----------------------------------------------------------------------------
(* The callbacks.                                                          *)

\* Mutant: the state is taken outside the test of the version.
DeltaCallbackAnyVersion(v) ==
  /\ v \in deltas
  /\ deltas' \in {deltas, deltas \ {v}}
  /\ version' = IF v <= version THEN version ELSE v
  /\ current' = IF desired[v] = InvalidPowerOn THEN current ELSE desired[v]
  /\ UNCHANGED <<pc, reported, token, doc, notified, tick, queued, responses, desired, shadow>>

\* prvIncomingPublishUpdateDeltaCallback: a newer version is remembered, and
\* its state taken if it has one.  A delta may be delivered again.
DeltaCallback(v) ==
  /\ v \in deltas
  /\ deltas' \in {deltas, deltas \ {v}}
  /\ IF v <= version
       THEN UNCHANGED <<version, current>>
       ELSE /\ version' = v
            /\ current' = IF desired[v] = InvalidPowerOn THEN current ELSE desired[v]
  /\ UNCHANGED <<pc, reported, token, doc, notified, tick, queued, responses, desired, shadow>>

\* Mutant: the state is taken from every accepted response.
AcceptedCallbackAnyToken(r) ==
  /\ r \in responses /\ r.kind # "rejected"
  /\ responses' = responses \ {r}
  /\ reported' = IF r.kind = "accepted" THEN r.state ELSE reported
  /\ IF r.token # token
       THEN UNCHANGED notified
       ELSE notified < MaxNotified /\ notified' = notified + 1
  /\ UNCHANGED <<pc, current, token, doc, version, tick, queued, deltas, desired, shadow>>

\* prvIncomingPublishUpdateAcceptedCallback: a response with the token of the
\* context brings the reported state, if it has one, and wakes the task.
AcceptedCallback(r) ==
  /\ r \in responses /\ r.kind # "rejected"
  /\ responses' = responses \ {r}
  /\ IF r.token # token
       THEN UNCHANGED <<reported, notified>>
       ELSE /\ notified < MaxNotified
            /\ notified' = notified + 1
            /\ reported' = IF r.kind = "accepted" THEN r.state ELSE reported
  /\ UNCHANGED <<pc, current, token, doc, version, tick, queued, deltas, desired, shadow>>

\* prvIncomingPublishUpdateRejectedCallback.
RejectedCallback(r) ==
  /\ r \in responses /\ r.kind = "rejected"
  /\ responses' = responses \ {r}
  /\ IF r.token # token
       THEN UNCHANGED notified
       ELSE notified < MaxNotified /\ notified' = notified + 1
  /\ UNCHANGED <<pc, current, reported, token, doc, version, tick, queued, deltas, desired, shadow>>

-----------------------------------------------------------------------------
(* The agent and the shadow service (external).                            *)

\* The agent sends the document of a queued command as it is now.  The
\* service answers a whole document and drops one that is no JSON.
ServiceAnswers(kind) ==
  /\ queued > 0
  /\ queued' = queued - 1
  /\ IF doc = NoDoc
       THEN UNCHANGED <<responses, shadow>>
       ELSE /\ responses' = responses \cup {[kind |-> kind, token |-> doc.token, state |-> doc.state]}
            /\ shadow' = IF kind = "accepted" THEN doc.state ELSE shadow
  /\ UNCHANGED <<device, deltas, desired>>

ResponseLost ==
  /\ \E r \in responses : responses' = responses \ {r}
  /\ UNCHANGED <<device, queued, deltas, desired, shadow>>

\* The service answers the update of another client.
ForeignUpdate ==
  /\ Foreign
  /\ responses' = responses \cup {ForeignResponse}
  /\ UNCHANGED <<device, queued, deltas, desired, shadow>>

\* Somebody changes the desired state; some documents have no powerOn.
DesiredChanges ==
  /\ Len(desired) < MaxVersion
  /\ \E s \in PowerOn \cup {InvalidPowerOn} : desired' = Append(desired, s)
  /\ deltas' = deltas \cup {Len(desired')}
  /\ UNCHANGED <<device, queued, responses, shadow>>

-----------------------------------------------------------------------------

\* xShadowCtx = { 0 }, and the tick count is anything.
Init ==
  /\ pc = "check" /\ current = 0 /\ reported = 0 /\ token = 0 /\ doc = NoDoc
  /\ notified = 0 /\ version = 0 /\ tick \in Tokens
  /\ queued = 0 /\ responses = {} /\ deltas = {} /\ desired = <<>> /\ shadow = 0

TaskStep ==
  NewToken \/ FormatReport \/ PublishReport \/ ResponseTaken \/ WaitTimesOut
    \/ Invalidate \/ ClearToken

AnyResponse == Response \cup {ForeignResponse}

Next ==
  \/ TaskStep
  \/ \E v \in 1 .. MaxVersion : DeltaCallback(v)
  \/ \E r \in AnyResponse : AcceptedCallback(r) \/ RejectedCallback(r)
  \/ \E kind \in {"accepted", "rejected"} : ServiceAnswers(kind)
  \/ ResponseLost \/ ForeignUpdate \/ DesiredChanges

Spec == Init /\ [][Next]_vars

\* The task and the agent are scheduled.
FairSpec == Spec /\ WF_vars(TaskStep) /\ WF_vars(\E kind \in {"accepted", "rejected"} : ServiceAnswers(kind))

-----------------------------------------------------------------------------
(* Properties.                                                             *)

\* prvIncomingPublishUpdateDeltaCallback: whatever the order in which deltas
\* arrive, and however often, the power state is that of the newest one
\* received.
CurrentIsLatest ==
  version > 0 /\ desired[version] # InvalidPowerOn => current = desired[version]

\* prvIncomingPublishUpdateAcceptedCallback: the reported state is the one in
\* the document of the report that is waited for, never that of an earlier
\* report whose answer comes late.
TakenFromAnswer ==
  [][reported' # reported /\ reported' # InvalidPowerOn /\ token # 0
       => doc = [state |-> reported', token |-> token]]_vars

\* The comment on ulReportedPowerOnState: an update is sent initially.
InitialUpdateSent == <>(pc = "publish")

\* The comment in the callbacks: a response that is not for the task does not
\* match its token, so that it never wakes it.
OnlyOwnResponseWakes ==
  [][(ForeignResponse \in responses \ responses') => notified' = notified]_vars

\* The comment on the timeout: a report that is accepted late is sent again,
\* so that an idle task and the service agree on the reported state.
InSync ==
  pc = "check" /\ current = reported /\ queued = 0 /\ responses = {}
    => shadow = reported

=============================================================================
