-------------------------- MODULE OtaUpdateProofs --------------------------
(***************************************************************************)
(* Proofs about OtaUpdate for every number of event buffers, every length  *)
(* of the event queue and every number of messages: an event buffer has at *)
(* most one owner, and the OTA agent finds in it what it was signalled.    *)
(***************************************************************************)
EXTENDS OtaUpdate, FiniteSetTheorems, SequenceTheorems, TLAPS

-----------------------------------------------------------------------------
(* Facts about the event queue.                                            *)

(* NULL is not the address of an event buffer.                             *)
LEMMA NoBufferIsNone == NoBuffer \notin Buffers
BY SizesAssumption DEF NoBuffer, Buffers

(* The queue of the OTA agent is a FIFO.                                   *)
LEMMA TailFacts ==
  ASSUME NEW S, NEW s \in Seq(S), s # <<>>
  PROVE  /\ Len(s) \in Nat \ {0} /\ DOMAIN s = 1 .. Len(s) /\ Head(s) = s[1] /\ s[1] \in S
         /\ Tail(s) \in Seq(S) /\ Len(Tail(s)) = Len(s) - 1
         /\ DOMAIN Tail(s) = 1 .. Len(s) - 1
         /\ \A i \in 1 .. Len(s) - 1 : Tail(s)[i] = s[i + 1]
<1>1. /\ Head(s) \in S /\ Tail(s) \in Seq(S) /\ Len(Tail(s)) = Len(s) - 1
      /\ \A i \in 1 .. Len(Tail(s)) : Tail(s)[i] = s[i + 1]
  BY HeadTailProperties
<1>2. Len(s) \in Nat /\ Len(s) # 0 /\ DOMAIN s = 1 .. Len(s)
  BY LenProperties, EmptySeq
<1>3. Head(s) = s[1]
  OBVIOUS
<1>4. DOMAIN Tail(s) = 1 .. Len(s) - 1
  BY <1>1, LenProperties
<1> QED
  BY <1>1, <1>2, <1>3, <1>4

LEMMA AppendFacts ==
  ASSUME NEW S, NEW s \in Seq(S), NEW e \in S
  PROVE  /\ Len(s) \in Nat /\ DOMAIN s = 1 .. Len(s)
         /\ Append(s, e) \in Seq(S) /\ Len(Append(s, e)) = Len(s) + 1
         /\ DOMAIN Append(s, e) = 1 .. Len(s) + 1
         /\ \A i \in 1 .. Len(s) : Append(s, e)[i] = s[i]
         /\ Append(s, e)[Len(s) + 1] = e
BY AppendProperties, LenProperties

-----------------------------------------------------------------------------
(* The inductive invariant.  BuffersConserved counts the owners of each    *)
(* buffer; the invariant names them instead.  It is not inductive without  *)
(* what the hand of the OTA agent holds at each of its steps, and without  *)
(* knowing that no buffer is used when the pool is cleared, although the   *)
(* job topics are subscribed before that.                                  *)

Held(b) == (\E i \in DOMAIN events : events[i] = b) \/ agent.buffer = b \/ b \in leaked

(* A buffer is marked as used exactly while somebody has it.               *)
UsedIsHeld == \A b \in Buffers : (used[b] => Held(b)) /\ (Held(b) => used[b])

(* Nobody has a buffer that another has.                                   *)
OneOwner ==
  /\ \A i, j \in DOMAIN events : events[i] # NoBuffer /\ events[i] = events[j] => i = j
  /\ \A i \in DOMAIN events :
       events[i] # NoBuffer => events[i] # agent.buffer /\ events[i] \notin leaked
  /\ agent.buffer \notin leaked

(* otaAppCallback: the OTA agent has a buffer only while it processes an   *)
(* event, and the mutex while it frees it; before it is created there is   *)
(* nothing in its hands.                                                   *)
HandKnown ==
  /\ pc \in {"start", "connect", "subAccepted", "subNotify", "pool", "init"} => agent.at = "none"
  /\ pc = "create" => agent.at = "ready"
  /\ agent.at \in {"none", "ready", "idle", "stopped"} => agent.buffer = NoBuffer
  /\ agent.at = "free" => agent.buffer # NoBuffer

(* Until prvOTAEventBufferPoolInit has created the mutex no buffer is      *)
(* given out.                                                              *)
PoolUnused ==
  /\ pc \in {"start", "connect", "subAccepted", "subNotify", "pool"} => lock = "none"
  /\ lock = "none" => \A b \in Buffers : ~used[b]

IInv == TypeOK /\ PayloadIntact /\ UsedIsHeld /\ OneOwner /\ HandKnown /\ PoolUnused

LEMMA InitIInv == Init => IInv
<1> SUFFICES ASSUME Init PROVE IInv
  OBVIOUS
<1>1. TypeOK
  <2>1. /\ <<>> \in Seq(Buffers \cup {NoBuffer}) /\ <<>> \in Seq(Messages \cup {NoMessage})
        /\ Len(<<>>) <= QueueLength /\ 0 \in 0 .. MaxMessages
    BY SizesAssumption
  <2> QED
    BY <2>1 DEF Init, TypeOK, NoDelivery, Topics
<1>2. /\ DOMAIN events = {} /\ agent.buffer = NoBuffer /\ agent.at = "none" /\ leaked = {}
      /\ pc = "start"
  BY DEF Init
<1>3. PayloadIntact /\ OneOwner /\ HandKnown
  BY <1>2 DEF PayloadIntact, OneOwner, HandKnown
<1>4. UsedIsHeld
  BY <1>2, NoBufferIsNone DEF Init, UsedIsHeld, Held
<1>5. PoolUnused
  BY <1>2 DEF Init, PoolUnused
<1> QED
  BY <1>1, <1>3, <1>4, <1>5 DEF IInv

-----------------------------------------------------------------------------
(* Steps that leave the buffers and their owners alone.                    *)

(* A step that moves no buffer preserves what is said of them.             *)
LEMMA SameOwners ==
  ASSUME IInv, UNCHANGED <<used, data, events, signalled, leaked>>, agent'.buffer = agent.buffer,
         agent'.message = agent.message
  PROVE  PayloadIntact' /\ UsedIsHeld' /\ OneOwner'
<1>1. PayloadIntact'
  BY DEF IInv, PayloadIntact
<1>2. UsedIsHeld'
  BY DEF IInv, UsedIsHeld, Held
<1>3. OneOwner'
  BY DEF IInv, OneOwner
<1> QED
  BY <1>1, <1>2, <1>3

AgentType ==
  [at : {"none", "ready", "idle", "process", "free", "stopped"},
   buffer : Buffers \cup {NoBuffer}, message : Messages \cup {NoMessage}]

(* vOTAUpdateTask, but for the steps below.                                *)
LEMMA TaskIInv ==
  ASSUME IInv, GetThingName \/ WaitConnected \/ SubscribeAccepted \/ SubscribeNotify
               \/ LoopEnds \/ Exit
  PROVE  IInv'
<1>1. UNCHANGED <<lock, used, data, events, signalled, agent, leaked, delivery, received, fault>>
  BY DEF GetThingName, WaitConnected, SubscribeAccepted, SubscribeNotify, LoopEnds, Exit, pool,
     queue
<1>2. registered' \subseteq Filters
  BY DEF IInv, TypeOK, Filters, SubscribeSync, GetThingName, WaitConnected, SubscribeAccepted,
     SubscribeNotify, LoopEnds, Exit
<1>3. /\ pc' \in {"connect", "exit", "subAccepted", "pool", "subNotify", "deleted"}
      /\ pc' \in {"connect", "subAccepted", "subNotify", "pool"} =>
           pc \in {"start", "connect", "subAccepted", "subNotify"}
  BY DEF SubscribeSync, GetThingName, WaitConnected, SubscribeAccepted, SubscribeNotify, LoopEnds,
     Exit
<1>4. handle' \in BOOLEAN /\ subscribed' \in BOOLEAN /\ named' \in BOOLEAN
  BY DEF IInv, TypeOK, SubscribeSync, GetThingName, WaitConnected, SubscribeAccepted,
     SubscribeNotify, LoopEnds, Exit
<1>5. TypeOK'
  BY <1>1, <1>2, <1>3, <1>4 DEF IInv, TypeOK
<1>6. PayloadIntact' /\ UsedIsHeld' /\ OneOwner'
  BY <1>1, SameOwners
<1>7. PoolUnused' /\ HandKnown'
  BY <1>1, <1>3 DEF IInv, PoolUnused, HandKnown
<1> QED
  BY <1>5, <1>6, <1>7 DEF IInv

(* prvOTAEventBufferPoolInit takes no buffer from anybody.                 *)
LEMMA PoolInitIInv ==
  ASSUME IInv, PoolInit
  PROVE  IInv'
<1>1. /\ pc = "pool" /\ used' = [b \in Buffers |-> FALSE]
      /\ lock' \in {"free", "none"} /\ pc' \in {"init", "exit"}
      /\ UNCHANGED <<handle, subscribed, named, registered, data, events, signalled, agent,
                     delivery, received, leaked, fault>>
  BY DEF PoolInit, queue
<1>2. \A b \in Buffers : ~used[b]
  BY <1>1 DEF IInv, PoolUnused
<1>3. used' \in [Buffers -> BOOLEAN] /\ \A b \in Buffers : ~used'[b]
  BY <1>1
<1>4. TypeOK'
  BY <1>1, <1>3 DEF IInv, TypeOK
<1>5. PayloadIntact'
  BY <1>1 DEF IInv, PayloadIntact
<1>6. UsedIsHeld'
  BY <1>1, <1>2, <1>3 DEF IInv, UsedIsHeld, Held
<1>7. OneOwner'
  BY <1>1 DEF IInv, OneOwner
<1>8. HandKnown' /\ PoolUnused'
  BY <1>1, <1>3 DEF IInv, HandKnown, PoolUnused
<1> QED
  BY <1>4, <1>5, <1>6, <1>7, <1>8 DEF IInv

(* OTA_Init.                                                               *)
LEMMA AgentInitIInv ==
  ASSUME IInv, AgentInit
  PROVE  IInv'
<1>1. /\ pc = "init"
      /\ UNCHANGED <<handle, subscribed, named, registered, lock, used, data, events, signalled,
                     delivery, received, leaked, fault>>
      /\ \/ pc' = "create" /\ agent' = [agent EXCEPT !.at = "ready"]
         \/ pc' = "exit" /\ agent' = agent
  BY DEF AgentInit, pool, queue
<1>2. agent.buffer = NoBuffer
  BY <1>1 DEF IInv, HandKnown
<1>3. /\ agent' \in AgentType /\ agent'.buffer = agent.buffer /\ agent'.message = agent.message
      /\ pc' = "create" => agent'.at = "ready"
      /\ agent'.at \in {"ready", agent.at}
  BY <1>1 DEF IInv, TypeOK, AgentType
<1>4. TypeOK'
  BY <1>1, <1>3 DEF IInv, TypeOK, AgentType
<1>5. PayloadIntact' /\ UsedIsHeld' /\ OneOwner'
  BY <1>1, <1>3, SameOwners
<1>6. HandKnown' /\ PoolUnused'
  BY <1>1, <1>2, <1>3 DEF IInv, HandKnown, PoolUnused
<1> QED
  BY <1>4, <1>5, <1>6 DEF IInv

-----------------------------------------------------------------------------
(* Steps of the event queue.                                               *)

(* An event without a buffer: the start event, a timer, a request.         *)
LEMMA OwnEvent ==
  ASSUME IInv, Len(events) < QueueLength,
         events' = Append(events, NoBuffer), signalled' = Append(signalled, NoMessage),
         UNCHANGED <<used, data, leaked>>,
         agent'.buffer = agent.buffer, agent'.message = agent.message
  PROVE  /\ events' \in Seq(Buffers \cup {NoBuffer}) /\ Len(events') <= QueueLength
         /\ signalled' \in Seq(Messages \cup {NoMessage}) /\ Len(signalled') = Len(events')
         /\ PayloadIntact' /\ UsedIsHeld' /\ OneOwner'
<1> DEFINE n == Len(events)
<1>1. /\ n \in Nat /\ DOMAIN events = 1 .. n /\ DOMAIN events' = 1 .. n + 1
      /\ Len(events') = n + 1 /\ events' \in Seq(Buffers \cup {NoBuffer})
      /\ \A i \in 1 .. n : events'[i] = events[i]
      /\ events'[n + 1] = NoBuffer
  BY AppendFacts DEF IInv, TypeOK
<1>2. /\ Len(signalled) = n /\ Len(signalled') = n + 1
      /\ signalled' \in Seq(Messages \cup {NoMessage})
      /\ \A i \in 1 .. n : signalled'[i] = signalled[i]
  BY AppendFacts DEF IInv, TypeOK
<1>3. n + 1 <= QueueLength
  BY <1>1, SizesAssumption
<1> HIDE DEF n
<1>4. \A i \in DOMAIN events' : events'[i] # NoBuffer =>
        i \in DOMAIN events /\ events'[i] = events[i] /\ signalled'[i] = signalled[i]
  BY <1>1, <1>2
<1>5. \A i \in DOMAIN events : i \in DOMAIN events' /\ events'[i] = events[i]
  BY <1>1
<1>6. PayloadIntact'
  BY <1>4 DEF IInv, PayloadIntact
<1>7. UsedIsHeld'
  BY <1>4, <1>5, NoBufferIsNone DEF IInv, UsedIsHeld, Held
<1>8. OneOwner'
  BY <1>4 DEF IInv, OneOwner
<1> QED
  BY <1>1, <1>2, <1>3, <1>6, <1>7, <1>8

LEMMA AgentCreateIInv ==
  ASSUME IInv, AgentCreate
  PROVE  IInv'
<1>1. /\ pc = "create" /\ pc' \in {"loop", "exit"}
      /\ UNCHANGED <<handle, subscribed, named, registered, lock, used, data, delivery, received,
                     leaked, fault>>
      /\ agent' = [agent EXCEPT !.at = "idle"] \/ agent' = agent
      /\ \/ /\ Len(events) < QueueLength
            /\ events' = Append(events, NoBuffer) /\ signalled' = Append(signalled, NoMessage)
         \/ UNCHANGED <<events, signalled>>
  BY DEF AgentCreate, pool, queue
<1>2. agent.buffer = NoBuffer
  BY <1>1 DEF IInv, HandKnown
<1>3. /\ agent' \in AgentType /\ agent'.buffer = agent.buffer /\ agent'.message = agent.message
      /\ agent'.at \in {"idle", agent.at}
  BY <1>1 DEF IInv, TypeOK, AgentType
<1>4. /\ events' \in Seq(Buffers \cup {NoBuffer}) /\ Len(events') <= QueueLength
      /\ signalled' \in Seq(Messages \cup {NoMessage}) /\ Len(signalled') = Len(events')
      /\ PayloadIntact' /\ UsedIsHeld' /\ OneOwner'
  <2>1. CASE UNCHANGED <<events, signalled>>
    BY <1>1, <1>3, <2>1, SameOwners DEF IInv, TypeOK
  <2>2. CASE ~UNCHANGED <<events, signalled>>
    BY <1>1, <1>3, <2>2, OwnEvent
  <2> QED
    BY <2>1, <2>2
<1>5. TypeOK'
  BY <1>1, <1>3, <1>4 DEF IInv, TypeOK, AgentType
<1>6. HandKnown' /\ PoolUnused'
  BY <1>1, <1>2, <1>3 DEF IInv, HandKnown, PoolUnused
<1> QED
  BY <1>4, <1>5, <1>6 DEF IInv

LEMMA AgentEventIInv ==
  ASSUME IInv, AgentEvent
  PROVE  IInv'
<1>1. /\ Len(events) < QueueLength
      /\ events' = Append(events, NoBuffer) /\ signalled' = Append(signalled, NoMessage)
      /\ UNCHANGED <<pc, handle, subscribed, named, registered, lock, used, data, agent, delivery,
                     received, leaked, fault>>
  BY DEF AgentEvent, task, pool
<1>2. /\ events' \in Seq(Buffers \cup {NoBuffer}) /\ Len(events') <= QueueLength
      /\ signalled' \in Seq(Messages \cup {NoMessage}) /\ Len(signalled') = Len(events')
      /\ PayloadIntact' /\ UsedIsHeld' /\ OneOwner'
  BY <1>1, OwnEvent
<1>3. TypeOK'
  BY <1>1, <1>2 DEF IInv, TypeOK
<1>4. HandKnown' /\ PoolUnused'
  BY <1>1 DEF IInv, HandKnown, PoolUnused
<1> QED
  BY <1>2, <1>3, <1>4 DEF IInv

(* The buffer of the first event passes from the queue to the OTA agent.   *)
LEMMA AgentTakesIInv ==
  ASSUME IInv, AgentTakes
  PROVE  IInv'
<1> DEFINE n == Len(events)
<1>1. /\ agent.at = "idle" /\ events # <<>>
      /\ agent' = [at |-> "process", buffer |-> Head(events), message |-> Head(signalled)]
      /\ events' = Tail(events) /\ signalled' = Tail(signalled)
      /\ UNCHANGED <<pc, handle, subscribed, named, registered, lock, used, data, delivery,
                     received, leaked, fault>>
  BY DEF AgentTakes, task, pool
<1>2. agent.buffer = NoBuffer
  BY <1>1 DEF IInv, HandKnown
<1>3. /\ n \in Nat \ {0} /\ DOMAIN events = 1 .. n /\ DOMAIN events' = 1 .. n - 1
      /\ Len(events') = n - 1 /\ events' \in Seq(Buffers \cup {NoBuffer})
      /\ \A i \in 1 .. n - 1 : events'[i] = events[i + 1]
      /\ Head(events) = events[1] /\ events[1] \in Buffers \cup {NoBuffer}
  BY <1>1, TailFacts DEF IInv, TypeOK
<1>4. /\ Len(signalled') = n - 1 /\ signalled' \in Seq(Messages \cup {NoMessage})
      /\ \A i \in 1 .. n - 1 : signalled'[i] = signalled[i + 1]
      /\ Head(signalled) = signalled[1] /\ signalled[1] \in Messages \cup {NoMessage}
  <2>1. signalled \in Seq(Messages \cup {NoMessage}) /\ Len(signalled) = n
    BY DEF IInv, TypeOK
  <2>2. signalled # <<>>
    BY <1>3, <2>1
  <2> QED
    BY <1>1, <2>1, <2>2, TailFacts
<1>5. n - 1 <= QueueLength
  BY <1>3, SizesAssumption DEF IInv, TypeOK
<1> HIDE DEF n
<1>6. /\ agent' \in AgentType /\ agent'.at = "process"
      /\ agent'.buffer = events[1] /\ agent'.message = signalled[1]
  BY <1>1, <1>3, <1>4 DEF AgentType
<1>7. TypeOK'
  BY <1>1, <1>3, <1>4, <1>5, <1>6 DEF IInv, TypeOK, AgentType
<1>8. \A i \in DOMAIN events' : /\ i + 1 \in DOMAIN events /\ i + 1 # 1 /\ i \in Int
                                /\ events'[i] = events[i + 1] /\ signalled'[i] = signalled[i + 1]
  BY <1>3, <1>4
<1>9. \A i \in DOMAIN events : i # 1 => i - 1 \in DOMAIN events' /\ events'[i - 1] = events[i]
  BY <1>3
<1>10. 1 \in DOMAIN events
  BY <1>3
<1>11. PayloadIntact'
  BY <1>1, <1>6, <1>8, <1>10 DEF IInv, PayloadIntact
<1>12. UsedIsHeld'
  <2>1. ASSUME NEW b \in Buffers, Held(b) PROVE Held(b)'
    BY <1>1, <1>2, <1>6, <1>9, <2>1, NoBufferIsNone DEF Held
  <2>2. ASSUME NEW b \in Buffers, Held(b)' PROVE Held(b)
    BY <1>1, <1>6, <1>8, <1>10, <2>2 DEF Held
  <2> QED
    BY <1>1, <2>1, <2>2 DEF IInv, UsedIsHeld
<1>13. OneOwner'
  <2>1. \A i, j \in DOMAIN events' : events'[i] # NoBuffer /\ events'[i] = events'[j] => i = j
    <3>1. ASSUME NEW i \in DOMAIN events', NEW j \in DOMAIN events', events'[i] # NoBuffer,
                 events'[i] = events'[j]
          PROVE  i = j
      <4>1. i + 1 = j + 1
        BY <1>8, <3>1 DEF IInv, OneOwner
      <4> QED
        BY <1>8, <4>1
    <3> QED
      BY <3>1
  <2>2. \A i \in DOMAIN events' :
          events'[i] # NoBuffer => events'[i] # agent'.buffer /\ events'[i] \notin leaked'
    BY <1>1, <1>6, <1>8, <1>10 DEF IInv, OneOwner
  <2>3. agent'.buffer \notin leaked'
    BY <1>1, <1>6, <1>10, NoBufferIsNone DEF IInv, TypeOK, OneOwner
  <2> QED
    BY <2>1, <2>2, <2>3 DEF OneOwner
<1>14. HandKnown' /\ PoolUnused'
  BY <1>1, <1>6 DEF IInv, HandKnown, PoolUnused
<1> QED
  BY <1>7, <1>11, <1>12, <1>13, <1>14 DEF IInv

-----------------------------------------------------------------------------
(* The other steps of the OTA agent.                                       *)

(* Steps that only say where the agent is, take the mutex or change its    *)
(* subscriptions.                                                          *)
LEMMA AgentMovesIInv ==
  ASSUME IInv, \/ AgentProcessed \/ BufferFreeLocks \/ AgentStops
               \/ \E f \in Filters : MQTTSubscribe(f) \/ MQTTUnsubscribe(f)
  PROVE  IInv'
<1>1. /\ UNCHANGED <<pc, handle, subscribed, named, used, data, events, signalled, delivery,
                     received, leaked, fault>>
      /\ registered' \subseteq Filters
      /\ lock' = lock \/ (lock = "free" /\ lock' = "taken")
  BY DEF AgentProcessed, BufferFreeLocks, AgentStops, MQTTSubscribe, MQTTUnsubscribe, task, pool,
     queue, IInv, TypeOK
<1>2. \/ agent' = agent
      \/ agent' = [agent EXCEPT !.at = "idle"] /\ agent.at = "process" /\ agent.buffer = NoBuffer
      \/ agent' = [agent EXCEPT !.at = "free"] /\ agent.at = "process" /\ agent.buffer # NoBuffer
      \/ agent' = [agent EXCEPT !.at = "stopped"] /\ agent.at = "idle"
  BY DEF AgentProcessed, BufferFreeLocks, AgentStops, MQTTSubscribe, MQTTUnsubscribe
<1>3. /\ agent' \in AgentType /\ agent'.buffer = agent.buffer /\ agent'.message = agent.message
      /\ \/ agent'.at = agent.at
         \/ agent'.at = "idle" /\ agent.at = "process" /\ agent.buffer = NoBuffer
         \/ agent'.at = "free" /\ agent.at = "process" /\ agent.buffer # NoBuffer
         \/ agent'.at = "stopped" /\ agent.at = "idle"
  BY <1>2 DEF IInv, TypeOK, AgentType
<1>4. TypeOK'
  BY <1>1, <1>3 DEF IInv, TypeOK, AgentType
<1>5. PayloadIntact' /\ UsedIsHeld' /\ OneOwner'
  BY <1>1, <1>3, SameOwners
<1>6. HandKnown' /\ PoolUnused'
  BY <1>1, <1>3 DEF IInv, HandKnown, PoolUnused
<1> QED
  BY <1>4, <1>5, <1>6 DEF IInv

(* prvOTAEventBufferFree: the agent was the only owner of the buffer.      *)
LEMMA BufferFreeIInv ==
  ASSUME IInv, BufferFree
  PROVE  IInv'
<1>1. /\ agent.at = "free" /\ used' = [used EXCEPT ![agent.buffer] = FALSE] /\ lock' = "free"
      /\ agent' = [at |-> "idle", buffer |-> NoBuffer, message |-> NoMessage]
      /\ UNCHANGED <<pc, handle, subscribed, named, registered, data, events, signalled, delivery,
                     received, leaked, fault>>
  BY DEF BufferFree, task, queue
<1> DEFINE a == agent.buffer
<1>2. a \in Buffers
  BY <1>1 DEF IInv, TypeOK, HandKnown
<1>3. agent' \in AgentType /\ agent'.at = "idle" /\ agent'.buffer = NoBuffer
  BY <1>1 DEF AgentType
<1>4. /\ used' \in [Buffers -> BOOLEAN] /\ ~used'[a]
      /\ \A b \in Buffers : b # a => used'[b] = used[b]
  BY <1>1, <1>2 DEF IInv, TypeOK
<1>5. TypeOK'
  BY <1>1, <1>3, <1>4 DEF IInv, TypeOK, AgentType
<1>6. PayloadIntact'
  BY <1>1, <1>3 DEF IInv, PayloadIntact
<1>7. UsedIsHeld'
  <2>1. ASSUME NEW b \in Buffers, b # a PROVE (used'[b] => Held(b)') /\ (Held(b)' => used'[b])
    BY <1>1, <1>3, <1>4, <2>1, NoBufferIsNone DEF IInv, UsedIsHeld, Held
  <2>2. ASSUME NEW b \in Buffers, b = a PROVE ~Held(b)'
    <3>1. \A i \in DOMAIN events : events[i] # b
      BY <1>2, <2>2, NoBufferIsNone DEF IInv, OneOwner
    <3>2. b \notin leaked
      BY <2>2 DEF IInv, OneOwner
    <3> QED
      BY <1>1, <1>3, <3>1, <3>2, NoBufferIsNone DEF Held
  <2> QED
    BY <1>4, <2>1, <2>2 DEF UsedIsHeld
<1>8. OneOwner'
  BY <1>1, <1>3, NoBufferIsNone DEF IInv, TypeOK, OneOwner
<1>9. HandKnown' /\ PoolUnused'
  BY <1>1, <1>3 DEF IInv, HandKnown, PoolUnused
<1> QED
  BY <1>5, <1>6, <1>7, <1>8, <1>9 DEF IInv

-----------------------------------------------------------------------------
(* The MQTT agent.                                                         *)

DeliveryType ==
  [message : Messages \cup {NoMessage}, topic : Topics, own : BOOLEAN, fits : BOOLEAN,
   todo : SUBSET Filters]

(* A message is received, or a callback returns without using a buffer.    *)
LEMMA QuietDelivery ==
  ASSUME IInv, delivery' \in DeliveryType, received' \in 0 .. MaxMessages,
         fault' \in {"none", "lock", "name"},
         UNCHANGED <<pc, handle, subscribed, named, registered, lock, used, data, events,
                     signalled, agent, leaked>>
  PROVE  IInv'
<1>1. TypeOK'
  BY DEF IInv, TypeOK, DeliveryType
<1>2. PayloadIntact' /\ UsedIsHeld' /\ OneOwner'
  BY SameOwners
<1>3. HandKnown' /\ PoolUnused'
  BY DEF IInv, HandKnown, PoolUnused
<1> QED
  BY <1>1, <1>2, <1>3 DEF IInv

LEMMA ReceiveIInv ==
  ASSUME IInv, NEW topic \in Topics, NEW own \in BOOLEAN, NEW fits \in BOOLEAN,
         Receive(topic, own, fits)
  PROVE  IInv'
<1> DEFINE todo == {f \in registered :
                      Matches(f, topic) /\ (own \/ f \in {"accepted", "notify"})}
<1>1. /\ received < MaxMessages /\ received' = received + 1
      /\ delivery' = [message |-> received', topic |-> topic, own |-> own, fits |-> fits,
                      todo |-> todo]
      /\ UNCHANGED <<pc, handle, subscribed, named, registered, lock, used, data, events,
                     signalled, agent, leaked, fault>>
  BY DEF Receive, task, pool, queue
<1>2. received' \in 0 .. MaxMessages /\ received' \in Messages
  BY <1>1, SizesAssumption DEF IInv, TypeOK, Messages
<1>3. todo \subseteq Filters
  BY DEF IInv, TypeOK
<1> HIDE DEF todo
<1>4. delivery' \in DeliveryType
  BY <1>1, <1>2, <1>3 DEF DeliveryType
<1>5. fault' \in {"none", "lock", "name"}
  BY <1>1 DEF IInv, TypeOK
<1> QED
  BY <1>1, <1>2, <1>4, <1>5, QuietDelivery

(* prvOTAEventBufferGet gives out a buffer that nobody has, so that what   *)
(* it is filled with is no payload of an earlier event.                    *)
LEMMA SignalIInv ==
  ASSUME IInv, NEW f \in Filters, Signal(f)
  PROVE  IInv'
<1>1. PICK b \in Buffers :
        /\ ~used[b] /\ used' = [used EXCEPT ![b] = TRUE]
        /\ data' = [data EXCEPT ![b] = delivery.message]
        /\ \/ /\ agent.at # "none" /\ Len(events) < QueueLength /\ leaked' = leaked
              /\ events' = Append(events, b)
              /\ signalled' = Append(signalled, delivery.message)
           \/ leaked' = leaked \cup {b} /\ UNCHANGED <<events, signalled>>
  BY DEF Signal, queue
<1>2. /\ lock = "free" /\ delivery' = [delivery EXCEPT !.todo = @ \ {f}]
      /\ UNCHANGED <<pc, handle, subscribed, named, registered, lock, agent, received, fault>>
  BY DEF Signal, Dispatched, task
<1> DEFINE m == delivery.message
<1>3. m \in Messages \cup {NoMessage} /\ delivery' \in DeliveryType
  BY <1>2 DEF IInv, TypeOK, DeliveryType
<1>4. /\ used' \in [Buffers -> BOOLEAN] /\ used'[b]
      /\ \A c \in Buffers : c # b => used'[c] = used[c]
  BY <1>1 DEF IInv, TypeOK
<1>5. /\ data' \in [Buffers -> Messages \cup {NoMessage}] /\ data'[b] = m
      /\ \A c \in Buffers : c # b => data'[c] = data[c]
  BY <1>1, <1>3 DEF IInv, TypeOK
<1> HIDE DEF m
<1>6. ~Held(b)
  BY <1>1 DEF IInv, UsedIsHeld
<1>7. HandKnown' /\ PoolUnused'
  BY <1>2 DEF IInv, HandKnown, PoolUnused
<1>8. /\ \A i \in DOMAIN events : events[i] # b /\ events[i] \in Buffers \cup {NoBuffer}
      /\ agent.buffer # b /\ b \notin leaked /\ agent.buffer \in Buffers \cup {NoBuffer}
      /\ b # NoBuffer
  BY <1>6, NoBufferIsNone, ElementOfSeq, LenProperties DEF IInv, TypeOK, Held
<1>9. agent'.buffer # NoBuffer => data'[agent'.buffer] = agent'.message
  BY <1>2, <1>5, <1>8 DEF IInv, PayloadIntact
<1>10. CASE leaked' = leaked \cup {b} /\ UNCHANGED <<events, signalled>>
  <2>1. TypeOK'
    BY <1>2, <1>3, <1>4, <1>5, <1>10 DEF IInv, TypeOK, DeliveryType
  <2>2. PayloadIntact'
    BY <1>5, <1>8, <1>9, <1>10 DEF IInv, PayloadIntact
  <2>3. UsedIsHeld'
    BY <1>2, <1>4, <1>10 DEF IInv, UsedIsHeld, Held
  <2>4. OneOwner'
    BY <1>2, <1>8, <1>10 DEF IInv, OneOwner
  <2> QED
    BY <1>7, <2>1, <2>2, <2>3, <2>4 DEF IInv
<1>11. CASE /\ agent.at # "none" /\ Len(events) < QueueLength /\ leaked' = leaked
            /\ events' = Append(events, b) /\ signalled' = Append(signalled, m)
  <2> DEFINE n == Len(events)
  <2>1. /\ n \in Nat /\ DOMAIN events = 1 .. n /\ DOMAIN events' = 1 .. n + 1
        /\ Len(events') = n + 1 /\ events' \in Seq(Buffers \cup {NoBuffer})
        /\ \A i \in 1 .. n : events'[i] = events[i]
        /\ events'[n + 1] = b
    BY <1>11, AppendFacts DEF IInv, TypeOK
  <2>2. /\ Len(signalled') = n + 1 /\ signalled' \in Seq(Messages \cup {NoMessage})
        /\ \A i \in 1 .. n : signalled'[i] = signalled[i]
        /\ signalled'[n + 1] = m
    <3>1. signalled \in Seq(Messages \cup {NoMessage}) /\ Len(signalled) = n
      BY DEF IInv, TypeOK
    <3> QED
      BY <1>3, <1>11, <3>1, AppendFacts
  <2>3. n + 1 <= QueueLength
    BY <1>11, <2>1, SizesAssumption
  <2> HIDE DEF n
  <2>4. TypeOK'
    BY <1>2, <1>3, <1>4, <1>5, <1>11, <2>1, <2>2, <2>3 DEF IInv, TypeOK, DeliveryType
  <2>5. \A i \in DOMAIN events' :
          \/ i \in DOMAIN events /\ events'[i] = events[i] /\ signalled'[i] = signalled[i]
          \/ i = n + 1 /\ events'[i] = b /\ signalled'[i] = m
    BY <2>1, <2>2
  <2>6. \A i \in DOMAIN events : i \in DOMAIN events' /\ events'[i] = events[i]
    BY <2>1
  <2>7. n + 1 \in DOMAIN events' /\ events'[n + 1] = b
    BY <2>1
  <2>8. PayloadIntact'
    BY <1>5, <1>8, <1>9, <2>5 DEF IInv, PayloadIntact
  <2>9. UsedIsHeld'
    <3>1. ASSUME NEW c \in Buffers, c # b PROVE (Held(c) => Held(c)') /\ (Held(c)' => Held(c))
      BY <1>2, <1>11, <2>5, <2>6, <3>1 DEF Held
    <3>2. ASSUME NEW c \in Buffers, c = b PROVE Held(c)'
      BY <2>7, <3>2 DEF Held
    <3> QED
      BY <1>4, <3>1, <3>2 DEF IInv, UsedIsHeld
  <2>10. OneOwner'
    BY <1>2, <1>8, <1>11, <2>5 DEF IInv, OneOwner
  <2> QED
    BY <1>7, <2>4, <2>8, <2>9, <2>10 DEF IInv
<1> QED
  BY <1>1, <1>10, <1>11 DEF m

(* prvProcessIncomingJobMessage and prvProcessIncomingData.                *)
LEMMA ProcessIInv ==
  ASSUME IInv, NEW f \in Filters, ProcessIncoming(f)
  PROVE  IInv'
<1>1. CASE NameMissing(f) \/ Ignored(f) \/ LockMissing(f) \/ NoBufferFree(f)
  <2>1. /\ delivery' = [delivery EXCEPT !.todo = @ \ {f}]
        /\ fault' \in {fault, "name", "lock"} /\ received' = received
        /\ UNCHANGED <<pc, handle, subscribed, named, registered, lock, used, data, events,
                       signalled, agent, leaked>>
    BY <1>1 DEF NameMissing, Ignored, LockMissing, NoBufferFree, Dispatched, task, pool, queue
  <2>2. /\ delivery' \in DeliveryType /\ fault' \in {"none", "lock", "name"}
        /\ received' \in 0 .. MaxMessages
    BY <2>1 DEF IInv, TypeOK, DeliveryType
  <2> QED
    BY <2>1, <2>2, QuietDelivery
<1>2. CASE Signal(f)
  BY <1>2, SignalIInv
<1> QED
  BY <1>1, <1>2 DEF ProcessIncoming

LEMMA NextIInv == IInv /\ [Next]_vars => IInv'
<1> SUFFICES ASSUME IInv, [Next]_vars PROVE IInv'
  OBVIOUS
<1>1. CASE TaskStep
  BY <1>1, TaskIInv, PoolInitIInv, AgentInitIInv, AgentCreateIInv DEF TaskStep
<1>2. CASE AgentStep
  BY <1>2, AgentTakesIInv, AgentMovesIInv, BufferFreeIInv, AgentEventIInv
     DEF AgentStep, ProcessStep
<1>3. CASE MqttStep
  BY <1>3, ReceiveIInv, ProcessIInv DEF MqttStep
<1>4. CASE UNCHANGED vars
  <2>1. UNCHANGED <<pc, handle, subscribed, named, registered, lock, used, data, events, signalled,
                    agent, delivery, received, leaked, fault>>
    BY <1>4 DEF vars, task, pool, queue
  <2>2. TypeOK'
    BY <2>1 DEF IInv, TypeOK
  <2>3. PayloadIntact' /\ UsedIsHeld' /\ OneOwner'
    BY <2>1, SameOwners
  <2>4. HandKnown' /\ PoolUnused'
    BY <2>1 DEF IInv, HandKnown, PoolUnused
  <2> QED
    BY <2>2, <2>3, <2>4 DEF IInv
<1> QED
  BY <1>1, <1>2, <1>3, <1>4 DEF Next

THEOREM IInvHolds == Spec => []IInv
<1>1. Init => IInv
  BY InitIInv
<1>2. IInv /\ [Next]_vars => IInv'
  BY NextIInv
<1> QED
  BY <1>1, <1>2, PTL DEF Spec

-----------------------------------------------------------------------------
(* The properties that the run checks.                                     *)

(* The event pool, the queue of the OTA agent and the messages keep their  *)
(* types; the queue never has more events than it has places.              *)
THEOREM OtaTypes == Spec => []TypeOK
<1>1. IInv => TypeOK
  BY DEF IInv
<1> QED
  BY <1>1, IInvHolds, PTL

(* prvOTAEventBufferGet and prvOTAEventBufferFree: the OTA agent finds in  *)
(* an event buffer the message that its event was signalled for.           *)
THEOREM PayloadsAreIntact == Spec => []PayloadIntact
<1>1. IInv => PayloadIntact
  BY DEF IInv
<1> QED
  BY <1>1, IInvHolds, PTL

(* The owners of a buffer, counted.                                        *)
LEMMA OwnersCounted ==
  ASSUME IInv, NEW b \in Buffers
  PROVE  LET holders == Cardinality({i \in DOMAIN events : events[i] = b})
                        + Cardinality({x \in {agent.buffer} : x = b})
                        + Cardinality({x \in leaked : x = b})
         IN  holders = IF used[b] THEN 1 ELSE 0
<1> DEFINE q == {i \in DOMAIN events : events[i] = b}
           h == {x \in {agent.buffer} : x = b}
           l == {x \in leaked : x = b}
<1>1. b # NoBuffer
  BY NoBufferIsNone
<1>2. Cardinality({}) = 0 /\ \A x : Cardinality({x}) = 1
  BY FS_EmptySet, FS_Singleton
<1>3. CASE \E i \in DOMAIN events : events[i] = b
  <2>1. PICK i \in DOMAIN events : events[i] = b
    BY <1>3
  <2>2. q = {i}
    BY <1>1, <2>1 DEF IInv, OneOwner
  <2>3. h = {} /\ l = {}
    BY <1>1, <2>1 DEF IInv, OneOwner
  <2>4. used[b]
    BY <2>1 DEF IInv, UsedIsHeld, Held
  <2>5. Cardinality(q) = 1 /\ Cardinality(h) = 0 /\ Cardinality(l) = 0
    BY <1>2, <2>2, <2>3
  <2> HIDE DEF q, h, l
  <2>6. Cardinality(q) + Cardinality(h) + Cardinality(l) = IF used[b] THEN 1 ELSE 0
    BY <2>4, <2>5
  <2> QED
    BY <2>6 DEF q, h, l
<1>4. CASE ~(\E i \in DOMAIN events : events[i] = b) /\ agent.buffer = b
  <2>1. q = {} /\ h = {b} /\ l = {}
    BY <1>4 DEF IInv, OneOwner
  <2>2. used[b]
    BY <1>4 DEF IInv, UsedIsHeld, Held
  <2>3. Cardinality(q) = 0 /\ Cardinality(h) = 1 /\ Cardinality(l) = 0
    BY <1>2, <2>1
  <2> HIDE DEF q, h, l
  <2>4. Cardinality(q) + Cardinality(h) + Cardinality(l) = IF used[b] THEN 1 ELSE 0
    BY <2>2, <2>3
  <2> QED
    BY <2>4 DEF q, h, l
<1>5. CASE ~(\E i \in DOMAIN events : events[i] = b) /\ agent.buffer # b /\ b \in leaked
  <2>1. q = {} /\ h = {} /\ l = {b}
    BY <1>5
  <2>2. used[b]
    BY <1>5 DEF IInv, UsedIsHeld, Held
  <2> QED
    BY <1>2, <2>1, <2>2
<1>6. CASE ~Held(b)
  <2>1. q = {} /\ h = {} /\ l = {}
    BY <1>6 DEF Held
  <2>2. ~used[b]
    BY <1>6 DEF IInv, UsedIsHeld
  <2> QED
    BY <1>2, <2>1, <2>2
<1> QED
  BY <1>3, <1>4, <1>5, <1>6 DEF Held

(* The event buffer pool: a buffer is used exactly if one event refers to  *)
(* it, in the queue or in the hands of the OTA agent, or if its event was  *)
(* refused.  No buffer is lost otherwise, and none is given out twice.     *)
THEOREM BuffersAreConserved == Spec => []BuffersConserved
<1>1. IInv => BuffersConserved
  BY OwnersCounted DEF BuffersConserved
<1> QED
  BY <1>1, IInvHolds, PTL

=============================================================================
