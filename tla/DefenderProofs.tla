-------------------------- MODULE DefenderProofs --------------------------
(***************************************************************************)
(* Proofs about Defender for every number of reports, of control blocks    *)
(* and of responses on their way: what is published is well formed, what   *)
(* ends a wait is recent, and the context outlives all who use it.         *)
(***************************************************************************)
EXTENDS Defender, TLAPS

-----------------------------------------------------------------------------
(* The inductive invariant.  StatusIsRecent alone is not inductive: the    *)
(* notification that becomes the status is set while an earlier report is  *)
(* at hand, so the invariant follows it from the callback to the wait.     *)

\* vDefenderAgentTask outside its loop, and from the first byte of a report
\* to its publication.
OutsideLoop ==
  {"start", "ready", "subRejected", "unsubAccepted", "unsubRejected", "deleted"}
BeingEncoded == {"stats", "count", "append", "close", "publish"}
Waits == {"waitPuback", "waitResponse"}

(* Nothing is published before the loop, which the task never leaves, and  *)
(* xWaitingForCallback is only set while a response is awaited.            *)
LoopEntered ==
  /\ pc \in OutsideLoop => report = 0
  /\ pc \in BeingEncoded \cup Waits \cup {"clear", "sleep"} => report # 0
  /\ report = 0 => queued = {}
  /\ waiting => pc \in Waits \cup {"clear"}

(* The two unsubscriptions take one callback each.                         *)
CallbacksRemoved ==
  /\ pc = "unsubRejected" => registered \subseteq {"rejected"}
  /\ pc = "deleted" => registered = {}

(* LOCK_TCPIP_CORE is held from the count of a section to its last block,  *)
(* so that the list is as long as when it was counted.                     *)
CountedUnderLock ==
  /\ lock = (pc = "append")
  /\ pc = "append" => counted = pcbs

(* The one buffer holds the report at hand, with no torn list in it.       *)
BufferCurrent ==
  /\ buffer.report = report
  /\ pc \in BeingEncoded => "torn" \notin buffer.lists

(* A response that is not taken yet came during the report at hand; while  *)
(* the next one is made it may still be one that came too late.            *)
ResponseRecent ==
  response # NULL =>
    \/ pc \in {"clear", "sleep", "header"} /\ response.during = report /\ response.late = TRUE
    \/ pc \in BeingEncoded /\ response.during = report - 1 /\ response.late = TRUE
    \/ pc \in Waits /\ response.during = report
    \/ pc \in Waits /\ response.during = report - 1 /\ response.late = TRUE

(* The status is reset with each report and set by what ends its wait.     *)
StatusFollows ==
  /\ pc \notin {"clear", "sleep"} => status = NULL
  /\ pc \in {"clear", "sleep"} /\ status # NULL =>
       \/ status.during = report
       \/ status.during = report - 1 /\ status.late = TRUE

IInv ==
  /\ TypeOK /\ LoopEntered /\ CallbacksRemoved /\ CountedUnderLock
  /\ BufferCurrent /\ ResponseRecent /\ StatusFollows

LEMMA InitIInv == Init => IInv
<1> SUFFICES ASSUME Init PROVE IInv
  OBVIOUS
<1>1. 0 \in 0 .. MaxReports /\ 0 \in 0 .. MaxPcbs /\ 1 \in Sections
  BY BoundsAssumption DEF Sections
<1>2. TypeOK
  BY <1>1 DEF Init, TypeOK, NoResult
<1>3. /\ LoopEntered /\ CallbacksRemoved /\ CountedUnderLock
      /\ BufferCurrent /\ ResponseRecent /\ StatusFollows
  BY DEF Init, LoopEntered, CallbacksRemoved, CountedUnderLock, BufferCurrent, ResponseRecent,
     StatusFollows, OutsideLoop, BeingEncoded, Waits
<1> QED
  BY <1>2, <1>3 DEF IInv

-----------------------------------------------------------------------------
(* One lemma for each group of actions.                                    *)

(* The start of the task and its end.                                      *)
LEMMA BoundaryIInv ==
  ASSUME IInv, Start \/ SubscribeAccepted \/ SubscribeRejected
               \/ UnsubscribeAccepted \/ UnsubscribeRejected
  PROVE  IInv'
<1> USE DEF IInv, encoding, mqtt, outcome
<1>1. CASE Start
  <2>1. TypeOK'
    BY <1>1 DEF Start, TypeOK
  <2>2. LoopEntered' /\ CallbacksRemoved' /\ CountedUnderLock'
    BY <1>1 DEF Start, TypeOK, LoopEntered, CallbacksRemoved, CountedUnderLock,
       OutsideLoop, BeingEncoded, Waits, Topics
  <2>3. BufferCurrent'
    BY <1>1 DEF Start, TypeOK, BufferCurrent, CountedUnderLock, BeingEncoded
  <2>4. ResponseRecent' /\ StatusFollows'
    BY <1>1 DEF Start, TypeOK, LoopEntered, ResponseRecent, StatusFollows,
       OutsideLoop, BeingEncoded, Waits
  <2> QED
    BY <2>1, <2>2, <2>3, <2>4
<1>2. CASE SubscribeAccepted
  <2>1. TypeOK'
    BY <1>2 DEF SubscribeAccepted, SubscribeSync, TypeOK, Topics
  <2>2. LoopEntered' /\ CallbacksRemoved' /\ CountedUnderLock'
    BY <1>2 DEF SubscribeAccepted, SubscribeSync, TypeOK, LoopEntered, CallbacksRemoved,
       CountedUnderLock,
       OutsideLoop, BeingEncoded, Waits, Topics
  <2>3. BufferCurrent'
    BY <1>2 DEF SubscribeAccepted, SubscribeSync, TypeOK, BufferCurrent, CountedUnderLock,
       BeingEncoded
  <2>4. ResponseRecent' /\ StatusFollows'
    BY <1>2 DEF SubscribeAccepted, SubscribeSync, TypeOK, LoopEntered, ResponseRecent,
       StatusFollows,
       OutsideLoop, BeingEncoded, Waits
  <2> QED
    BY <2>1, <2>2, <2>3, <2>4
<1>3. CASE SubscribeRejected
  <2>1. TypeOK'
    BY <1>3 DEF SubscribeRejected, SubscribeSync, TypeOK, Topics
  <2>2. LoopEntered' /\ CallbacksRemoved' /\ CountedUnderLock'
    BY <1>3 DEF SubscribeRejected, SubscribeSync, TypeOK, LoopEntered, CallbacksRemoved,
       CountedUnderLock,
       OutsideLoop, BeingEncoded, Waits, Topics
  <2>3. BufferCurrent'
    BY <1>3 DEF SubscribeRejected, SubscribeSync, TypeOK, BufferCurrent, CountedUnderLock,
       BeingEncoded
  <2>4. ResponseRecent' /\ StatusFollows'
    BY <1>3 DEF SubscribeRejected, SubscribeSync, TypeOK, LoopEntered, ResponseRecent,
       StatusFollows,
       OutsideLoop, BeingEncoded, Waits
  <2> QED
    BY <2>1, <2>2, <2>3, <2>4
<1>4. CASE UnsubscribeAccepted
  <2>1. TypeOK'
    BY <1>4 DEF UnsubscribeAccepted, TypeOK
  <2>2. LoopEntered' /\ CallbacksRemoved' /\ CountedUnderLock'
    BY <1>4 DEF UnsubscribeAccepted, TypeOK, LoopEntered, CallbacksRemoved, CountedUnderLock,
       OutsideLoop, BeingEncoded, Waits, Topics
  <2>3. BufferCurrent'
    BY <1>4 DEF UnsubscribeAccepted, TypeOK, BufferCurrent, CountedUnderLock, BeingEncoded
  <2>4. ResponseRecent' /\ StatusFollows'
    BY <1>4 DEF UnsubscribeAccepted, TypeOK, LoopEntered, ResponseRecent, StatusFollows,
       OutsideLoop, BeingEncoded, Waits
  <2> QED
    BY <2>1, <2>2, <2>3, <2>4
<1>5. CASE UnsubscribeRejected
  <2>1. TypeOK'
    BY <1>5 DEF UnsubscribeRejected, TypeOK
  <2>2. LoopEntered' /\ CallbacksRemoved' /\ CountedUnderLock'
    BY <1>5 DEF UnsubscribeRejected, TypeOK, LoopEntered, CallbacksRemoved, CountedUnderLock,
       OutsideLoop, BeingEncoded, Waits, Topics
  <2>3. BufferCurrent'
    BY <1>5 DEF UnsubscribeRejected, TypeOK, BufferCurrent, CountedUnderLock, BeingEncoded
  <2>4. ResponseRecent' /\ StatusFollows'
    BY <1>5 DEF UnsubscribeRejected, TypeOK, LoopEntered, ResponseRecent, StatusFollows,
       OutsideLoop, BeingEncoded, Waits
  <2> QED
    BY <2>1, <2>2, <2>3, <2>4
<1> QED
  BY <1>1, <1>2, <1>3, <1>4, <1>5

(* A report is encoded.                                                    *)
LEMMA EncodeIInv ==
  ASSUME IInv, EncodeHeader \/ GetNetworkStats \/ CountPorts \/ AppendPorts
               \/ AppendFails \/ CloseReport
  PROVE  IInv'
<1> USE DEF IInv, encoding, mqtt, outcome
<1>1. CASE EncodeHeader
  <2>1. report' \in 0 .. MaxReports
    BY <1>1, BoundsAssumption DEF EncodeHeader, TypeOK
  <2>2. TypeOK'
    BY <1>1, <2>1 DEF EncodeHeader, Encoded, TypeOK
  <2>3. LoopEntered' /\ CallbacksRemoved' /\ CountedUnderLock'
    BY <1>1 DEF EncodeHeader, Encoded, TypeOK, LoopEntered, CallbacksRemoved, CountedUnderLock,
       OutsideLoop, BeingEncoded, Waits, Topics
  <2>4. BufferCurrent'
    BY <1>1 DEF EncodeHeader, Encoded, TypeOK, BufferCurrent, CountedUnderLock, BeingEncoded
  <2>5. ResponseRecent' /\ StatusFollows'
    BY <1>1 DEF EncodeHeader, Encoded, TypeOK, LoopEntered, ResponseRecent, StatusFollows,
       OutsideLoop, BeingEncoded, Waits
  <2> QED
    BY <2>2, <2>3, <2>4, <2>5
<1>2. CASE GetNetworkStats
  <2>1. TypeOK'
    BY <1>2 DEF GetNetworkStats, Encoded, TypeOK
  <2>2. LoopEntered' /\ CallbacksRemoved' /\ CountedUnderLock'
    BY <1>2 DEF GetNetworkStats, Encoded, TypeOK, LoopEntered, CallbacksRemoved, CountedUnderLock,
       OutsideLoop, BeingEncoded, Waits, Topics
  <2>3. BufferCurrent'
    BY <1>2 DEF GetNetworkStats, Encoded, TypeOK, BufferCurrent, CountedUnderLock, BeingEncoded
  <2>4. ResponseRecent' /\ StatusFollows'
    BY <1>2 DEF GetNetworkStats, Encoded, TypeOK, LoopEntered, ResponseRecent, StatusFollows,
       OutsideLoop, BeingEncoded, Waits
  <2> QED
    BY <2>1, <2>2, <2>3, <2>4
<1>3. CASE CountPorts
  <2>1. TypeOK'
    BY <1>3 DEF CountPorts, TypeOK
  <2>2. LoopEntered' /\ CallbacksRemoved' /\ CountedUnderLock'
    BY <1>3 DEF CountPorts, TypeOK, LoopEntered, CallbacksRemoved, CountedUnderLock,
       OutsideLoop, BeingEncoded, Waits, Topics
  <2>3. BufferCurrent'
    BY <1>3 DEF CountPorts, TypeOK, BufferCurrent, CountedUnderLock, BeingEncoded
  <2>4. ResponseRecent' /\ StatusFollows'
    BY <1>3 DEF CountPorts, TypeOK, LoopEntered, ResponseRecent, StatusFollows,
       OutsideLoop, BeingEncoded, Waits
  <2> QED
    BY <2>1, <2>2, <2>3, <2>4
<1>4. CASE AppendPorts
  <2>1. /\ section' \in Sections
        /\ buffer' \in [report : 0 .. MaxReports, lists : SUBSET Flaws]
        /\ counted' \in 0 .. MaxPcbs
    BY <1>4, BoundsAssumption DEF AppendPorts, Lists, TypeOK, Sections, Flaws
  <2>2. TypeOK'
    BY <1>4, <2>1 DEF AppendPorts, TypeOK
  <2>3. LoopEntered' /\ CallbacksRemoved' /\ CountedUnderLock'
    BY <1>4 DEF AppendPorts, TypeOK, LoopEntered, CallbacksRemoved, CountedUnderLock,
       OutsideLoop, BeingEncoded, Waits, Topics
  <2>4. BufferCurrent'
    <3>1. PICK listed \in Appended : buffer' = Lists(listed)
      BY <1>4 DEF AppendPorts
    <3>2. ~(listed > counted \/ (counted > 0 /\ listed = 0))
      BY <1>4, <3>1 DEF AppendPorts, Appended, TypeOK, CountedUnderLock
    <3>3. buffer'.report = buffer.report
          /\ ("torn" \in buffer'.lists => "torn" \in buffer.lists)
      BY <3>1, <3>2 DEF Lists, TypeOK
    <3> QED
      BY <1>4, <3>3 DEF AppendPorts, BufferCurrent, BeingEncoded
  <2>5. ResponseRecent' /\ StatusFollows'
    BY <1>4 DEF AppendPorts, TypeOK, LoopEntered, ResponseRecent, StatusFollows,
       OutsideLoop, BeingEncoded, Waits
  <2> QED
    BY <2>2, <2>3, <2>4, <2>5
<1>5. CASE AppendFails
  <2>1. section' \in Sections /\ counted' \in 0 .. MaxPcbs
    BY <1>5, BoundsAssumption DEF AppendFails, Sections
  <2>2. TypeOK'
    BY <1>5, <2>1 DEF AppendFails, TypeOK
  <2>3. LoopEntered' /\ CallbacksRemoved' /\ CountedUnderLock'
    BY <1>5 DEF AppendFails, TypeOK, LoopEntered, CallbacksRemoved, CountedUnderLock,
       OutsideLoop, BeingEncoded, Waits, Topics
  <2>4. BufferCurrent'
    BY <1>5 DEF AppendFails, TypeOK, BufferCurrent, CountedUnderLock, BeingEncoded
  <2>5. ResponseRecent' /\ StatusFollows'
    BY <1>5 DEF AppendFails, TypeOK, LoopEntered, ResponseRecent, StatusFollows,
       OutsideLoop, BeingEncoded, Waits
  <2> QED
    BY <2>2, <2>3, <2>4, <2>5
<1>6. CASE CloseReport
  <2>1. TypeOK'
    BY <1>6 DEF CloseReport, Encoded, TypeOK
  <2>2. LoopEntered' /\ CallbacksRemoved' /\ CountedUnderLock'
    BY <1>6 DEF CloseReport, Encoded, TypeOK, LoopEntered, CallbacksRemoved, CountedUnderLock,
       OutsideLoop, BeingEncoded, Waits, Topics
  <2>3. BufferCurrent'
    BY <1>6 DEF CloseReport, Encoded, TypeOK, BufferCurrent, CountedUnderLock, BeingEncoded
  <2>4. ResponseRecent' /\ StatusFollows'
    BY <1>6 DEF CloseReport, Encoded, TypeOK, LoopEntered, ResponseRecent, StatusFollows,
       OutsideLoop, BeingEncoded, Waits
  <2> QED
    BY <2>1, <2>2, <2>3, <2>4
<1> QED
  BY <1>1, <1>2, <1>3, <1>4, <1>5, <1>6

(* It is published and its response awaited.                               *)
LEMMA PublishIInv ==
  ASSUME IInv, PublishReport \/ PubackTaken \/ PubackTimesOut \/ ResponseTaken
               \/ ResponseTimesOut \/ StopWaiting \/ Wake
  PROVE  IInv'
<1> USE DEF IInv, encoding, mqtt, outcome
<1>1. CASE PublishReport
  <2>1. report \in Reports
    BY <1>1 DEF PublishReport, TypeOK, LoopEntered, BeingEncoded, Reports
  <2>2. TypeOK'
    BY <1>1, <2>1 DEF PublishReport, TypeOK
  <2>3. LoopEntered' /\ CallbacksRemoved' /\ CountedUnderLock'
    BY <1>1 DEF PublishReport, TypeOK, LoopEntered, CallbacksRemoved, CountedUnderLock,
       OutsideLoop, BeingEncoded, Waits, Topics
  <2>4. BufferCurrent'
    BY <1>1 DEF PublishReport, TypeOK, BufferCurrent, CountedUnderLock, BeingEncoded
  <2>5. ResponseRecent' /\ StatusFollows'
    BY <1>1 DEF PublishReport, TypeOK, LoopEntered, ResponseRecent, StatusFollows,
       OutsideLoop, BeingEncoded, Waits
  <2> QED
    BY <2>2, <2>3, <2>4, <2>5
<1>2. CASE PubackTaken
  <2>1. TypeOK'
    BY <1>2 DEF PubackTaken, TypeOK
  <2>2. LoopEntered' /\ CallbacksRemoved' /\ CountedUnderLock'
    BY <1>2 DEF PubackTaken, TypeOK, LoopEntered, CallbacksRemoved, CountedUnderLock,
       OutsideLoop, BeingEncoded, Waits, Topics
  <2>3. BufferCurrent'
    BY <1>2 DEF PubackTaken, TypeOK, BufferCurrent, CountedUnderLock, BeingEncoded
  <2>4. ResponseRecent' /\ StatusFollows'
    BY <1>2 DEF PubackTaken, TypeOK, LoopEntered, ResponseRecent, StatusFollows,
       OutsideLoop, BeingEncoded, Waits
  <2> QED
    BY <2>1, <2>2, <2>3, <2>4
<1>3. CASE PubackTimesOut
  <2>1. TypeOK'
    BY <1>3 DEF PubackTimesOut, TypeOK
  <2>2. LoopEntered' /\ CallbacksRemoved' /\ CountedUnderLock'
    BY <1>3 DEF PubackTimesOut, TypeOK, LoopEntered, CallbacksRemoved, CountedUnderLock,
       OutsideLoop, BeingEncoded, Waits, Topics
  <2>3. BufferCurrent'
    BY <1>3 DEF PubackTimesOut, TypeOK, BufferCurrent, CountedUnderLock, BeingEncoded
  <2>4. ResponseRecent' /\ StatusFollows'
    BY <1>3 DEF PubackTimesOut, TypeOK, LoopEntered, ResponseRecent, StatusFollows,
       OutsideLoop, BeingEncoded, Waits
  <2> QED
    BY <2>1, <2>2, <2>3, <2>4
<1>4. CASE ResponseTaken
  <2>1. TypeOK'
    BY <1>4 DEF ResponseTaken, TypeOK, NoResult
  <2>2. LoopEntered' /\ CallbacksRemoved' /\ CountedUnderLock'
    BY <1>4 DEF ResponseTaken, TypeOK, LoopEntered, CallbacksRemoved, CountedUnderLock,
       OutsideLoop, BeingEncoded, Waits, Topics
  <2>3. BufferCurrent'
    BY <1>4 DEF ResponseTaken, TypeOK, BufferCurrent, CountedUnderLock, BeingEncoded
  <2>4. ResponseRecent' /\ StatusFollows'
    BY <1>4 DEF ResponseTaken, TypeOK, LoopEntered, ResponseRecent, StatusFollows,
       OutsideLoop, BeingEncoded, Waits
  <2> QED
    BY <2>1, <2>2, <2>3, <2>4
<1>5. CASE ResponseTimesOut
  <2>1. TypeOK'
    BY <1>5 DEF ResponseTimesOut, TypeOK, NoResult
  <2>2. LoopEntered' /\ CallbacksRemoved' /\ CountedUnderLock'
    BY <1>5 DEF ResponseTimesOut, TypeOK, LoopEntered, CallbacksRemoved, CountedUnderLock,
       OutsideLoop, BeingEncoded, Waits, Topics
  <2>3. BufferCurrent'
    BY <1>5 DEF ResponseTimesOut, TypeOK, BufferCurrent, CountedUnderLock, BeingEncoded
  <2>4. ResponseRecent' /\ StatusFollows'
    BY <1>5 DEF ResponseTimesOut, TypeOK, LoopEntered, ResponseRecent, StatusFollows,
       OutsideLoop, BeingEncoded, Waits
  <2> QED
    BY <2>1, <2>2, <2>3, <2>4
<1>6. CASE StopWaiting
  <2>1. TypeOK'
    BY <1>6 DEF StopWaiting, TypeOK
  <2>2. LoopEntered' /\ CallbacksRemoved' /\ CountedUnderLock'
    BY <1>6 DEF StopWaiting, TypeOK, LoopEntered, CallbacksRemoved, CountedUnderLock,
       OutsideLoop, BeingEncoded, Waits, Topics
  <2>3. BufferCurrent'
    BY <1>6 DEF StopWaiting, TypeOK, BufferCurrent, CountedUnderLock, BeingEncoded
  <2>4. ResponseRecent' /\ StatusFollows'
    BY <1>6 DEF StopWaiting, TypeOK, LoopEntered, ResponseRecent, StatusFollows,
       OutsideLoop, BeingEncoded, Waits
  <2> QED
    BY <2>1, <2>2, <2>3, <2>4
<1>7. CASE Wake
  <2>1. TypeOK'
    BY <1>7 DEF Wake, TypeOK
  <2>2. LoopEntered' /\ CallbacksRemoved' /\ CountedUnderLock'
    BY <1>7 DEF Wake, TypeOK, LoopEntered, CallbacksRemoved, CountedUnderLock,
       OutsideLoop, BeingEncoded, Waits, Topics
  <2>3. BufferCurrent'
    BY <1>7 DEF Wake, TypeOK, BufferCurrent, CountedUnderLock, BeingEncoded
  <2>4. ResponseRecent' /\ StatusFollows'
    BY <1>7 DEF Wake, TypeOK, LoopEntered, ResponseRecent, StatusFollows,
       OutsideLoop, BeingEncoded, Waits
  <2> QED
    BY <2>1, <2>2, <2>3, <2>4
<1> QED
  BY <1>1, <1>2, <1>3, <1>4, <1>5, <1>6, <1>7

(* The MQTT agent, the service and the stack.                              *)
LEMMA AgentIInv ==
  ASSUME IInv, \/ \E r \in Reports : SendPublish(r)
               \/ \E r \in Reports, code \in {Success, Failure} : PublishOpCb(r, code)
               \/ \E topic \in Topics : ForeignResponse(topic)
               \/ \E m \in inbound : ReportCallback(m)
               \/ \E n \in 0 .. MaxPcbs : PcbsChange(n)
  PROVE  IInv'
<1> USE DEF IInv, encoding, mqtt, outcome
<1>1. CASE \E r \in Reports : SendPublish(r)
  <2>1. TypeOK'
    BY <1>1 DEF SendPublish, TypeOK, Response, Reports, LoopEntered, BufferCurrent
  <2>2. LoopEntered' /\ CallbacksRemoved' /\ CountedUnderLock'
    BY <1>1 DEF SendPublish, TypeOK, LoopEntered, CallbacksRemoved, CountedUnderLock,
       OutsideLoop, BeingEncoded, Waits, Topics
  <2>3. BufferCurrent'
    BY <1>1 DEF SendPublish, TypeOK, BufferCurrent, CountedUnderLock, BeingEncoded
  <2>4. ResponseRecent' /\ StatusFollows'
    BY <1>1 DEF SendPublish, TypeOK, LoopEntered, ResponseRecent, StatusFollows,
       OutsideLoop, BeingEncoded, Waits
  <2> QED
    BY <2>1, <2>2, <2>3, <2>4
<1>2. CASE \E r \in Reports, code \in {Success, Failure} : PublishOpCb(r, code)
  <2>1. TypeOK'
    BY <1>2 DEF PublishOpCb, TypeOK
  <2>2. LoopEntered' /\ CallbacksRemoved' /\ CountedUnderLock'
    BY <1>2 DEF PublishOpCb, TypeOK, LoopEntered, CallbacksRemoved, CountedUnderLock,
       OutsideLoop, BeingEncoded, Waits, Topics
  <2>3. BufferCurrent'
    BY <1>2 DEF PublishOpCb, TypeOK, BufferCurrent, CountedUnderLock, BeingEncoded
  <2>4. ResponseRecent' /\ StatusFollows'
    BY <1>2 DEF PublishOpCb, TypeOK, LoopEntered, ResponseRecent, StatusFollows,
       OutsideLoop, BeingEncoded, Waits
  <2> QED
    BY <2>1, <2>2, <2>3, <2>4
<1>3. CASE \E topic \in Topics : ForeignResponse(topic)
  <2>1. TypeOK'
    BY <1>3 DEF ForeignResponse, TypeOK, Response
  <2>2. LoopEntered' /\ CallbacksRemoved' /\ CountedUnderLock'
    BY <1>3 DEF ForeignResponse, TypeOK, LoopEntered, CallbacksRemoved, CountedUnderLock,
       OutsideLoop, BeingEncoded, Waits, Topics
  <2>3. BufferCurrent'
    BY <1>3 DEF ForeignResponse, TypeOK, BufferCurrent, CountedUnderLock, BeingEncoded
  <2>4. ResponseRecent' /\ StatusFollows'
    BY <1>3 DEF ForeignResponse, TypeOK, LoopEntered, ResponseRecent, StatusFollows,
       OutsideLoop, BeingEncoded, Waits
  <2> QED
    BY <2>1, <2>2, <2>3, <2>4
<1>4. CASE \E m \in inbound : ReportCallback(m)
  <2>1. TypeOK'
    BY <1>4 DEF ReportCallback, TypeOK, Response, Notification, Reports, LoopEntered, Waits,
       OutsideLoop
  <2>2. LoopEntered' /\ CallbacksRemoved' /\ CountedUnderLock'
    BY <1>4 DEF ReportCallback, TypeOK, LoopEntered, CallbacksRemoved, CountedUnderLock,
       OutsideLoop, BeingEncoded, Waits, Topics
  <2>3. BufferCurrent'
    BY <1>4 DEF ReportCallback, TypeOK, BufferCurrent, CountedUnderLock, BeingEncoded
  <2>4. ResponseRecent' /\ StatusFollows'
    BY <1>4 DEF ReportCallback, TypeOK, LoopEntered, ResponseRecent, StatusFollows,
       OutsideLoop, BeingEncoded, Waits
  <2> QED
    BY <2>1, <2>2, <2>3, <2>4
<1>5. CASE \E n \in 0 .. MaxPcbs : PcbsChange(n)
  <2>1. TypeOK'
    BY <1>5 DEF PcbsChange, TypeOK
  <2>2. LoopEntered' /\ CallbacksRemoved' /\ CountedUnderLock'
    BY <1>5 DEF PcbsChange, TypeOK, LoopEntered, CallbacksRemoved, CountedUnderLock,
       OutsideLoop, BeingEncoded, Waits, Topics
  <2>3. BufferCurrent'
    BY <1>5 DEF PcbsChange, TypeOK, BufferCurrent, CountedUnderLock, BeingEncoded
  <2>4. ResponseRecent' /\ StatusFollows'
    BY <1>5 DEF PcbsChange, TypeOK, LoopEntered, ResponseRecent, StatusFollows,
       OutsideLoop, BeingEncoded, Waits
  <2> QED
    BY <2>1, <2>2, <2>3, <2>4
<1> QED
  BY <1>1, <1>2, <1>3, <1>4, <1>5

LEMMA NextIInv == IInv /\ [Next]_vars => IInv'
<1> SUFFICES ASSUME IInv, [Next]_vars PROVE IInv'
  OBVIOUS
<1>1. CASE UNCHANGED vars
  BY <1>1 DEF vars, encoding, outcome, mqtt, IInv, TypeOK, LoopEntered, CallbacksRemoved,
     CountedUnderLock, BufferCurrent, ResponseRecent, StatusFollows
<1>2. CASE TaskStep
  BY <1>2, EncodeIInv, PublishIInv DEF TaskStep
<1> QED
  BY <1>1, <1>2, BoundaryIInv, AgentIInv DEF Next

THEOREM IInvHolds == Spec => []IInv
<1>1. Init => IInv
  BY InitIInv
<1>2. IInv /\ [Next]_vars => IInv'
  BY NextIInv
<1> QED
  BY <1>1, <1>2, PTL DEF Spec

-----------------------------------------------------------------------------
(* The properties that the run checks.                                     *)

(* The context of the task, its notifications and the traffic of the agent *)
(* keep their types.                                                       *)
THEOREM DefenderTypes == Spec => []TypeOK
<1>1. IInv => TypeOK
  BY DEF IInv
<1> QED
  BY <1>1, IInvHolds, PTL

(* xGetListeningTcpPorts and the others: what is published is the report   *)
(* at hand, with no list that is longer than it announces or that is empty *)
(* although it announces some, whatever the stack does meanwhile and       *)
(* whichever blocks could not be encoded.                                  *)
THEOREM ReportsAreWellFormed == Spec => []ReportWellFormed
<1>1. IInv => ReportWellFormed
  BY DEF IInv, TypeOK, BufferCurrent, BeingEncoded, ReportWellFormed
<1> QED
  BY <1>1, IInvHolds, PTL

(* xWaitingForCallback: a response that ends a wait came since the report  *)
(* was published, or in the moment before the flag of the wait before it   *)
(* was cleared; none is older.                                             *)
THEOREM StatusesAreRecent == Spec => []StatusIsRecent
<1>1. IInv => StatusIsRecent
  BY DEF IInv, StatusFollows, StatusIsRecent
<1> QED
  BY <1>1, IInvHolds, PTL

(* vDefenderAgentTask: when the context on its stack is gone no callback   *)
(* that uses it is registered, whichever subscription has failed.          *)
THEOREM ContextOutlivesUsers == Spec => []NoDanglingContext
<1>1. IInv => NoDanglingContext
  BY DEF IInv, CallbacksRemoved, NoDanglingContext
<1> QED
  BY <1>1, IInvHolds, PTL

=============================================================================
