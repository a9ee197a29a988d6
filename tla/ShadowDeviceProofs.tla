------------------------ MODULE ShadowDeviceProofs ------------------------
(***************************************************************************)
(* Proofs about ShadowDevice for every modulus of the client tokens and    *)
(* every bound: the power state follows the newest delta in whatever order *)
(* the deltas arrive, and the reported state is taken from the answer to   *)
(* the report that is waited for.                                          *)
(***************************************************************************)
EXTENDS ShadowDevice, SequenceTheorems, TLAPS

-----------------------------------------------------------------------------
(* Facts about the constants and the history of desired states.            *)

(* A tick count modulo TokenWrap is a token, and so is the 0 that says     *)
(* that no report is waited for.                                           *)
LEMMA TokenFacts ==
  /\ 0 \in Tokens
  /\ \A t \in Tokens : (t + 1) % TokenWrap \in Tokens
<1>1. TokenWrap \in Nat /\ TokenWrap > 0
  BY BoundsAssumption
<1>2. 0 \in Tokens
  BY <1>1 DEF Tokens
<1>3. ASSUME NEW t \in Tokens PROVE (t + 1) % TokenWrap \in Tokens
  <2>1. t + 1 \in Nat
    BY <1>1 DEF Tokens
  <2>2. (t + 1) % TokenWrap \in 0 .. TokenWrap - 1
    BY <1>1, <2>1
  <2> QED
    BY <2>2 DEF Tokens
<1> QED
  BY <1>2, <1>3

(* The desired state gets a version more; the ones before it are kept.     *)
LEMMA DesiredAppended ==
  ASSUME NEW S, NEW s \in Seq(S), NEW e \in S
  PROVE  /\ Append(s, e) \in Seq(S) /\ Len(Append(s, e)) = Len(s) + 1 /\ Len(s) \in Nat
         /\ DOMAIN s = 1 .. Len(s) /\ DOMAIN Append(s, e) = 1 .. Len(s) + 1
         /\ \A i \in 1 .. Len(s) : Append(s, e)[i] = s[i]
BY AppendProperties, LenProperties

-----------------------------------------------------------------------------
(* The inductive invariant.  TakenFromAnswer needs to know that a response *)
(* with the token of the context was made from the document as it is now.  *)

(* The delta callback has only seen versions that were made.               *)
VersionKnown == version <= Len(desired)

(* The document is cleared when a token is made, and written once for it.  *)
DocClearedFirst ==
  pc = "format" =>
    /\ doc = NoDoc
    /\ token # 0 => \A r \in responses : r.token # token

(* Every response on its way with the token of the context repeats the     *)
(* document; a response of an earlier report has another token.            *)
AnswersMatch ==
  token # 0 =>
    \A r \in responses : r.token = token => doc = [state |-> r.state, token |-> r.token]

IInv == TypeOK /\ CurrentIsLatest /\ VersionKnown /\ DocClearedFirst /\ AnswersMatch

LEMMA InitIInv == Init => IInv
<1> SUFFICES ASSUME Init PROVE IInv
  OBVIOUS
<1>1. TypeOK
  <2>1. /\ desired \in Seq(PowerOn \cup {InvalidPowerOn}) /\ Len(desired) = 0
        /\ deltas \subseteq DOMAIN desired
    BY DEF Init
  <2>2. notified \in 0 .. MaxNotified /\ queued \in 0 .. MaxQueued /\ version \in 0 .. MaxVersion
        /\ Len(desired) <= MaxVersion
    BY <2>1, BoundsAssumption DEF Init
  <2>3. current \in PowerOn /\ reported \in PowerOn /\ shadow \in PowerOn
    BY DEF Init, PowerOn
  <2> QED
    BY <2>1, <2>2, <2>3, TokenFacts DEF Init, TypeOK
<1> QED
  BY <1>1 DEF Init, IInv, CurrentIsLatest, VersionKnown, DocClearedFirst, AnswersMatch

-----------------------------------------------------------------------------
(* One lemma for the task, the callbacks and the service.                  *)

(* vShadowDeviceTask.                                                      *)
LEMMA TaskIInv ==
  ASSUME IInv, TaskStep
  PROVE  IInv'
<1> USE DEF IInv, service
<1>1. CASE NewToken
  <2>1. TypeOK'
    BY <1>1, TokenFacts DEF NewToken, TypeOK
  <2> QED
    BY <1>1, <2>1 DEF NewToken, CurrentIsLatest, VersionKnown, DocClearedFirst, AnswersMatch
<1>2. CASE FormatReport
  <2>1. TypeOK'
    BY <1>2 DEF FormatReport, TypeOK
  <2> QED
    BY <1>2, <2>1 DEF FormatReport, CurrentIsLatest, VersionKnown, DocClearedFirst, AnswersMatch
<1>3. CASE PublishReport
  <2>1. queued' \in 0 .. MaxQueued
    BY <1>3, BoundsAssumption DEF PublishReport, TypeOK
  <2>2. TypeOK'
    BY <1>3, <2>1 DEF PublishReport, TypeOK
  <2> QED
    BY <1>3, <2>2 DEF PublishReport, CurrentIsLatest, VersionKnown, DocClearedFirst, AnswersMatch
<1>4. CASE ResponseTaken
  <2>1. notified' \in 0 .. MaxNotified
    BY <1>4, BoundsAssumption DEF ResponseTaken, TypeOK
  <2>2. TypeOK'
    BY <1>4, <2>1 DEF ResponseTaken, TypeOK
  <2> QED
    BY <1>4, <2>2 DEF ResponseTaken, CurrentIsLatest, VersionKnown, DocClearedFirst, AnswersMatch
<1>5. CASE WaitTimesOut
  <2>1. TypeOK'
    BY <1>5 DEF WaitTimesOut, TypeOK
  <2> QED
    BY <1>5, <2>1 DEF WaitTimesOut, CurrentIsLatest, VersionKnown, DocClearedFirst, AnswersMatch
<1>6. CASE Invalidate
  <2>1. TypeOK'
    BY <1>6 DEF Invalidate, TypeOK
  <2> QED
    BY <1>6, <2>1 DEF Invalidate, CurrentIsLatest, VersionKnown, DocClearedFirst, AnswersMatch
<1>7. CASE ClearToken
  <2>1. TypeOK'
    BY <1>7, TokenFacts DEF ClearToken, TypeOK
  <2> QED
    BY <1>7, <2>1 DEF ClearToken, CurrentIsLatest, VersionKnown, DocClearedFirst, AnswersMatch
<1> QED
  BY <1>1, <1>2, <1>3, <1>4, <1>5, <1>6, <1>7 DEF TaskStep

(* The delta callback takes a state only with a newer version, so that the *)
(* state belongs to the greatest version that has arrived.                 *)
LEMMA DeltaIInv ==
  ASSUME IInv, NEW v \in 1 .. MaxVersion, DeltaCallback(v)
  PROVE  IInv'
<1> USE DEF IInv, DeltaCallback
<1>1. /\ v \in 1 .. Len(desired) /\ Len(desired) \in Nat
      /\ desired[v] \in PowerOn \cup {InvalidPowerOn}
  <2>1. v \in DOMAIN desired
    BY DEF TypeOK
  <2> QED
    BY <2>1, LenProperties, ElementOfSeq DEF TypeOK
<1>2. TypeOK'
  <2>1. version' \in 0 .. MaxVersion
    BY BoundsAssumption DEF TypeOK
  <2>2. current' \in PowerOn
    BY <1>1 DEF TypeOK
  <2>3. deltas' \subseteq DOMAIN desired'
    BY DEF TypeOK
  <2> QED
    BY <2>1, <2>2, <2>3 DEF TypeOK
<1>3. VersionKnown' /\ CurrentIsLatest'
  BY <1>1 DEF TypeOK, VersionKnown, CurrentIsLatest
<1> QED
  BY <1>2, <1>3 DEF DocClearedFirst, AnswersMatch

(* The accepted and the rejected callback use up a response.               *)
LEMMA ResponseIInv ==
  ASSUME IInv, NEW r \in AnyResponse, AcceptedCallback(r) \/ RejectedCallback(r)
  PROVE  IInv'
<1> USE DEF IInv
<1>1. notified' \in 0 .. MaxNotified
  BY BoundsAssumption DEF AcceptedCallback, RejectedCallback, TypeOK
<1>2. CASE AcceptedCallback(r)
  <2>1. r.kind = "accepted" => r.state \in PowerOn
    BY DEF AnyResponse, Response, ForeignResponse
  <2>2. TypeOK'
    BY <1>1, <1>2, <2>1 DEF AcceptedCallback, TypeOK
  <2> QED
    BY <1>2, <2>2 DEF AcceptedCallback, CurrentIsLatest, VersionKnown, DocClearedFirst,
       AnswersMatch
<1>3. CASE RejectedCallback(r)
  <2>1. TypeOK'
    BY <1>1, <1>3 DEF RejectedCallback, TypeOK
  <2> QED
    BY <1>3, <2>1 DEF RejectedCallback, CurrentIsLatest, VersionKnown, DocClearedFirst,
       AnswersMatch
<1> QED
  BY <1>2, <1>3

(* What the agent sends, and what the service answers, is the document as  *)
(* it is now: a response with the token of the context matches it.         *)
LEMMA AnswerIInv ==
  ASSUME IInv, NEW kind \in {"accepted", "rejected"}, ServiceAnswers(kind)
  PROVE  IInv'
<1> USE DEF IInv, ServiceAnswers, device
<1> DEFINE answer == [kind |-> kind, token |-> doc.token, state |-> doc.state]
<1>1. queued' \in 0 .. MaxQueued
  BY BoundsAssumption DEF TypeOK
<1>2. CASE doc = NoDoc
  <2>1. TypeOK'
    BY <1>1, <1>2 DEF TypeOK
  <2> QED
    BY <1>2, <2>1 DEF CurrentIsLatest, VersionKnown, DocClearedFirst, AnswersMatch
<1>3. CASE doc # NoDoc
  <2>1. doc \in [state : PowerOn, token : Tokens]
    BY <1>3 DEF TypeOK
  <2>2. answer \in Response /\ doc = [state |-> answer.state, token |-> answer.token]
    BY <2>1 DEF Response
  <2>3. responses' = responses \cup {answer} /\ shadow' \in PowerOn
    BY <1>3, <2>1 DEF TypeOK
  <2>4. TypeOK'
    BY <1>1, <2>2, <2>3 DEF TypeOK
  <2>5. AnswersMatch'
    BY <2>2, <2>3 DEF AnswersMatch
  <2> QED
    BY <1>3, <2>4, <2>5 DEF CurrentIsLatest, VersionKnown, DocClearedFirst
<1> QED
  BY <1>2, <1>3

(* A response is lost, another client's update is answered, or the desired *)
(* state changes.                                                          *)
LEMMA ServiceIInv ==
  ASSUME IInv, ResponseLost \/ ForeignUpdate \/ DesiredChanges
  PROVE  IInv'
<1> USE DEF IInv, device
<1>1. CASE ResponseLost
  <2>1. TypeOK'
    BY <1>1 DEF ResponseLost, TypeOK
  <2> QED
    BY <1>1, <2>1 DEF ResponseLost, CurrentIsLatest, VersionKnown, DocClearedFirst, AnswersMatch
<1>2. CASE ForeignUpdate
  <2>1. TypeOK'
    BY <1>2 DEF ForeignUpdate, TypeOK
  <2> QED
    BY <1>2, <2>1 DEF ForeignUpdate, ForeignResponse, CurrentIsLatest, VersionKnown,
       DocClearedFirst, AnswersMatch
<1>3. CASE DesiredChanges
  <2>1. PICK s \in PowerOn \cup {InvalidPowerOn} : desired' = Append(desired, s)
    BY <1>3 DEF DesiredChanges
  <2>2. /\ desired' \in Seq(PowerOn \cup {InvalidPowerOn})
        /\ Len(desired') = Len(desired) + 1 /\ Len(desired) \in Nat
        /\ DOMAIN desired = 1 .. Len(desired) /\ DOMAIN desired' = 1 .. Len(desired) + 1
        /\ \A i \in 1 .. Len(desired) : desired'[i] = desired[i]
    BY <2>1, DesiredAppended DEF TypeOK
  <2>3. Len(desired') <= MaxVersion /\ deltas' \subseteq DOMAIN desired'
    BY <1>3, <2>2, BoundsAssumption DEF DesiredChanges, TypeOK
  <2>4. TypeOK'
    BY <1>3, <2>2, <2>3 DEF DesiredChanges, TypeOK
  <2>5. VersionKnown' /\ CurrentIsLatest'
    BY <1>3, <2>2 DEF DesiredChanges, TypeOK, VersionKnown, CurrentIsLatest
  <2> QED
    BY <1>3, <2>4, <2>5 DEF DesiredChanges, DocClearedFirst, AnswersMatch
<1> QED
  BY <1>1, <1>2, <1>3

LEMMA NextIInv == IInv /\ [Next]_vars => IInv'
<1> SUFFICES ASSUME IInv, [Next]_vars PROVE IInv'
  OBVIOUS
<1>1. CASE UNCHANGED vars
  BY <1>1 DEF vars, device, service, IInv, TypeOK, CurrentIsLatest, VersionKnown,
     DocClearedFirst, AnswersMatch
<1> QED
  BY <1>1, TaskIInv, DeltaIInv, ResponseIInv, AnswerIInv, ServiceIInv DEF Next

THEOREM IInvHolds == Spec => []IInv
<1>1. Init => IInv
  BY InitIInv
<1>2. IInv /\ [Next]_vars => IInv'
  BY NextIInv
<1> QED
  BY <1>1, <1>2, PTL DEF Spec

-----------------------------------------------------------------------------
(* The properties that the run checks.                                     *)

(* xShadowCtx and the traffic with the service keep their types.           *)
THEOREM ShadowTypes == Spec => []TypeOK
<1>1. IInv => TypeOK
  BY DEF IInv
<1> QED
  BY <1>1, IInvHolds, PTL

(* prvIncomingPublishUpdateDeltaCallback: whatever the order in which the  *)
(* deltas arrive, and however often, the power state is that of the newest *)
(* one received.                                                           *)
THEOREM NewestDeltaWins == Spec => []CurrentIsLatest
<1>1. IInv => CurrentIsLatest
  BY DEF IInv
<1> QED
  BY <1>1, IInvHolds, PTL

(* Only the accepted callback takes a state as reported, and only that of  *)
(* a response with the token of the context.                               *)
LEMMA ReportedSteps ==
  ASSUME IInv, [Next]_vars, reported' # reported, reported' # InvalidPowerOn, token # 0
  PROVE  doc = [state |-> reported', token |-> token]
<1>1. PICK r \in AnyResponse : AcceptedCallback(r)
  BY DEF Next, vars, device, service, TaskStep, NewToken, FormatReport, PublishReport,
     ResponseTaken, WaitTimesOut, Invalidate, ClearToken, DeltaCallback, RejectedCallback,
     ServiceAnswers, ResponseLost, ForeignUpdate, DesiredChanges
<1>2. r \in responses /\ r.token = token /\ reported' = r.state
  BY <1>1 DEF AcceptedCallback
<1> QED
  BY <1>2 DEF IInv, AnswersMatch

(* prvIncomingPublishUpdateAcceptedCallback: the reported state is the one *)
(* in the document of the report that is waited for, never that of an      *)
(* earlier report whose answer comes late.                                 *)
THEOREM ReportedFromAnswer == Spec => TakenFromAnswer
<1>1. IInv /\ [Next]_vars =>
        [reported' # reported /\ reported' # InvalidPowerOn /\ token # 0
           => doc = [state |-> reported', token |-> token]]_vars
  BY ReportedSteps
<1> QED
  BY <1>1, IInvHolds, PTL DEF Spec, TakenFromAnswer

=============================================================================
