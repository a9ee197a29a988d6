--------------------- MODULE SubscriptionManagerProofs ---------------------
(***************************************************************************)
(* Proofs about SubscriptionManager.  For every number of slots, entries,  *)
(* tasks and filters and every number of lost connections: the lock        *)
(* discipline, the shape of the lists and their counters.  For an          *)
(* application in which every filter has one client, while one connection  *)
(* lasts: the reference counts and the filters of the slots.               *)
(***************************************************************************)
EXTENDS SubscriptionManager, FiniteSetTheorems, TLAPS

-----------------------------------------------------------------------------
(* The inductive invariant for all applications.                           *)

(* An entry that is not in use belongs to no task.                         *)
EntriesCleared == \A j \in Entries : callbacks[j].sub = NoSlot => callbacks[j].task = NoTask

Requesting == {"check", "subQueued", "subSent", "subAnswered"}

(* What the local variables of a call are at each of its steps.  The entry *)
(* that SubscribeSync has found is in use, or it is the one after the      *)
(* last.                                                                   *)
KnownCall(t, c) ==
  /\ c.pc = "populate" => /\ c.entry \in Entries /\ c.slot \in Slots
                          /\ callbacks[c.entry].sub = NoSlot => c.entry = cbTotal + 1
  /\ c.pc \in Requesting => c.slot \in Slots
  /\ c.pc \in {"populate"} \cup Requesting \cup UnsubStates => c.filter \in Uses[t]
  /\ c.pc = "subSent" => c.packet \in Filters
  /\ c.pc = "idle" => c = Idle

CallKnown == \A t \in Tasks : KnownCall(t, call[t])

IInv == TypeOK /\ LockDiscipline /\ CountsExact /\ EntriesCleared /\ CallKnown

-----------------------------------------------------------------------------
(* The inductive invariant for an application like this one.               *)

(* No filter is a prefix of another, each has one client, and the          *)
(* connection is not lost.                                                 *)
OneSession ==
  /\ MaxLosses = 0
  /\ \A f, g \in Filters : <<f, g>> \in Prefix => f = g
  /\ \A t, u \in Tasks : Uses[t] \cap Uses[u] # {} => t = u

(* Before the first connection nobody has called.                          *)
FirstConnection ==
  /\ agent = "disconnected" =>
       /\ \A t \in Tasks : call[t].pc = "idle"
       /\ \A i \in Slots : ~Occupied(i) /\ cbCount[i] = 0
       /\ \A j \in Entries : callbacks[j].sub = NoSlot
       /\ clean
  /\ agent # "relock"

(* A slot that is not in use has the SUBACK state that makes the next      *)
(* subscriber send its request.                                            *)
EmptyIsUnanswered ==
  agent # "disconnected" => \A i \in Slots : ~Occupied(i) => suback[i] = "failure"

(* A callback is its client's, and alone on its slot.                      *)
OneCallback ==
  /\ \A j \in Entries : callbacks[j].sub # NoSlot =>
       callbacks[j].task \in Tasks /\ callbacks[j].asked \in Uses[callbacks[j].task]
  /\ \A j, k \in Entries :
       callbacks[j].sub # NoSlot /\ callbacks[j].sub = callbacks[k].sub => j = k

(* SubscribeSync has found an empty slot, or one with its filter; and the  *)
(* entry it has found is its own on that slot if it has one.               *)
SearchHolds ==
  \A t \in Tasks : LET c == call[t] IN
    c.pc = "populate" =>
      /\ Occupied(c.slot) => subs[c.slot].filter = c.filter
      /\ \A j \in Entries : callbacks[j].sub = c.slot => j = c.entry
      /\ callbacks[c.entry].sub # NoSlot => callbacks[c.entry].sub = c.slot

(* Who has given up its reference to a slot and not removed its callback.  *)
FirstWith(f) == First({k \in Slots : subs[k].filter = f}, NoSlot)
GivingUp(t, i) ==
  call[t].pc \in UnsubStates /\ call[t].count > 0 /\ i = FirstWith(call[t].filter)

Referred(i) == \E j \in Entries : callbacks[j].sub = i

(* A slot in use has its one callback, and the reference count says so     *)
(* until its client unsubscribes.                                          *)
CountsKnown ==
  /\ \A i \in Slots : Occupied(i) => Referred(i)
  /\ \A i \in Slots : cbCount[i] =
       IF Referred(i) /\ ~(\E t \in Tasks : GivingUp(t, i)) THEN 1 ELSE 0
  /\ \A t \in Tasks : call[t].pc \in UnsubStates =>
       /\ call[t].count \in {0, 1}
       /\ call[t].count = 0 => FirstWith(call[t].filter) = NoSlot
       /\ call[t].count = 1 => FirstWith(call[t].filter) # NoSlot

JInv ==
  /\ IInv /\ FirstConnection /\ EmptyIsUnanswered /\ OneCallback /\ SearchHolds /\ CountsKnown
  /\ SlotKeepsFilter

-----------------------------------------------------------------------------
(* Facts about the operators of the model.                                 *)

(* The place of an element grows with it.                                  *)
LEMMA PlaceFacts ==
  ASSUME NEW S, S \subseteq Nat, IsFiniteSet(S), NEW i \in S
  PROVE  /\ PlaceIn(S, i) \in 1 .. Cardinality(S)
         /\ \A j \in S : j < i => PlaceIn(S, j) < PlaceIn(S, i)
<1> DEFINE Upto(k) == {j \in S : j <= k}
<1>1. \A k \in S : IsFiniteSet(Upto(k)) /\ Cardinality(Upto(k)) \in Nat
                   /\ Cardinality(Upto(k)) <= Cardinality(S)
  <2> SUFFICES ASSUME NEW k \in S
               PROVE  IsFiniteSet(Upto(k)) /\ Cardinality(Upto(k)) \in Nat
                      /\ Cardinality(Upto(k)) <= Cardinality(S)
    OBVIOUS
  <2>1. Upto(k) \in SUBSET S
    OBVIOUS
  <2> QED
    BY <2>1, FS_Subset, FS_CardinalityType
<1>2. i \in Upto(i)
  OBVIOUS
<1>3. Cardinality(Upto(i)) # 0
  BY <1>1, <1>2, FS_EmptySet
<1>4. Cardinality(S) \in Nat
  BY FS_CardinalityType
<1>5. ASSUME NEW j \in S, j < i
      PROVE  Cardinality(Upto(j)) < Cardinality(Upto(i))
  <2>1. Upto(j) \in SUBSET Upto(i)
    <3>1. i \in Nat /\ \A k \in S : k \in Nat /\ (k <= j => k <= i)
      BY <1>5
    <3> QED
      BY <3>1
  <2>2. i \notin Upto(j)
    BY <1>5
  <2>3. /\ Cardinality(Upto(j)) <= Cardinality(Upto(i))
        /\ Cardinality(Upto(i)) = Cardinality(Upto(j)) => Upto(i) = Upto(j)
    BY <1>1, <2>1, FS_Subset
  <2>4. Upto(i) # Upto(j)
    BY <1>2, <2>2
  <2> HIDE DEF Upto
  <2> QED
    BY <1>1, <2>3, <2>4
<1>6. \A k : PlaceIn(S, k) = Cardinality(Upto(k))
  BY DEF PlaceIn
<1> HIDE DEF Upto
<1>7. PlaceIn(S, i) \in 1 .. Cardinality(S)
  BY <1>1, <1>3, <1>4, <1>6
<1>8. \A j \in S : j < i => PlaceIn(S, j) < PlaceIn(S, i)
  BY <1>5, <1>6
<1> QED
  BY <1>7, <1>8

(* Every place up to the number of elements has one, by counting.          *)
LEMMA ElementFacts ==
  ASSUME NEW S, S \subseteq Nat, IsFiniteSet(S), NEW k \in 1 .. Cardinality(S)
  PROVE  ElementAt(S, k) \in S /\ PlaceIn(S, ElementAt(S, k)) = k
<1> DEFINE n == Cardinality(S)
           f == [i \in S |-> PlaceIn(S, i)]
<1>1. n \in Nat
  BY FS_CardinalityType
<1>2. \A i \in S : PlaceIn(S, i) \in 1 .. n
  BY PlaceFacts
<1>3. \A i, j \in S : i # j => PlaceIn(S, i) # PlaceIn(S, j)
  <2> SUFFICES ASSUME NEW i \in S, NEW j \in S, i # j
               PROVE  PlaceIn(S, i) # PlaceIn(S, j)
    OBVIOUS
  <2>1. PlaceIn(S, i) \in Int /\ PlaceIn(S, j) \in Int
    BY <1>1, <1>2
  <2>2. i \in Nat /\ j \in Nat /\ (i < j \/ j < i)
    OBVIOUS
  <2>3. (i < j => PlaceIn(S, i) < PlaceIn(S, j)) /\ (j < i => PlaceIn(S, j) < PlaceIn(S, i))
    BY PlaceFacts
  <2> QED
    BY <2>1, <2>2, <2>3
<1>4. IsFiniteSet(1 .. n) /\ Cardinality(1 .. n) = n
  BY <1>1, FS_Interval
<1>5. f \in Injection(S, 1 .. n)
  BY <1>2, <1>3 DEF Injection, IsInjective
<1>6. f \in Surjection(S, 1 .. n)
  BY <1>4, <1>5, FS_Injection
<1>7. \E i \in S : PlaceIn(S, i) = k
  BY <1>6 DEF Surjection
<1> QED
  BY <1>7 DEF ElementAt

(* First is the least element.                                             *)
LEMMA FirstFacts ==
  ASSUME NEW S, S \subseteq Nat, IsFiniteSet(S), NEW none
  PROVE  /\ S = {} => First(S, none) = none
         /\ S # {} => First(S, none) \in S /\ \A j \in S : First(S, none) <= j
<1>1. CASE S = {}
  BY <1>1 DEF First
<1>2. CASE S # {}
  <2>1. Cardinality(S) \in Nat /\ Cardinality(S) # 0
    BY <1>2, FS_CardinalityType, FS_EmptySet
  <2>2. 1 \in 1 .. Cardinality(S)
    BY <2>1
  <2>3. PICK i \in S : PlaceIn(S, i) = 1
    BY <2>2, ElementFacts
  <2>4. ASSUME NEW j \in S
        PROVE  i <= j
    <3>1. i \in Nat /\ j \in Nat
      OBVIOUS
    <3>2. ~(j < i)
      <4>1. PlaceIn(S, j) \in 1 .. Cardinality(S) /\ (j < i => PlaceIn(S, j) < 1)
        BY <2>3, PlaceFacts
      <4> QED
        BY <2>1, <4>1
    <3> QED
      BY <3>1, <3>2
  <2>5. \E m \in S : \A j \in S : m <= j
    BY <2>4
  <2> QED
    BY <1>2, <2>5 DEF First
<1> QED
  BY <1>1, <1>2

(* Slots and entries are finite.                                           *)
LEMMA SlotFacts ==
  /\ Slots \subseteq Nat /\ NoSlot \notin Slots
  /\ \A T \in SUBSET Slots : IsFiniteSet(T) /\ T \subseteq Nat /\ Cardinality(T) \in Nat
                             /\ Cardinality(T) <= MaxSubscriptions
<1>1. MaxSubscriptions \in Nat /\ Slots \subseteq Nat /\ NoSlot \notin Slots
  BY SizesAssumption DEF Slots, NoSlot
<1>2. IsFiniteSet(Slots) /\ Cardinality(Slots) = MaxSubscriptions
  BY <1>1, FS_Interval DEF Slots
<1> QED
  BY <1>1, <1>2, FS_Subset, FS_CardinalityType

LEMMA EntryFacts ==
  /\ Entries \subseteq Nat /\ 0 \notin Entries
  /\ \A T \in SUBSET Entries : IsFiniteSet(T) /\ T \subseteq Nat /\ Cardinality(T) \in Nat
                               /\ Cardinality(T) <= MaxCallbacks
<1>1. MaxCallbacks \in Nat /\ Entries \subseteq Nat /\ 0 \notin Entries
  BY SizesAssumption DEF Entries
<1>2. IsFiniteSet(Entries) /\ Cardinality(Entries) = MaxCallbacks
  BY <1>1, FS_Interval DEF Entries
<1> QED
  BY <1>1, <1>2, FS_Subset, FS_CardinalityType

(* The first k of n.                                                       *)
LEMMA FirstOnes ==
  ASSUME NEW n \in Nat, NEW k \in 0 .. n
  PROVE  Cardinality({i \in 1 .. n : i <= k}) = k
<1>1. {i \in 1 .. n : i <= k} = 1 .. k
  OBVIOUS
<1>2. Cardinality(1 .. k) = k
  BY FS_Interval
<1> QED
  BY <1>1, <1>2

(* The searches return what they look for.                                 *)
LEMMA SlotSearch ==
  ASSUME NEW T \in SUBSET Slots
  PROVE  /\ T = {} => First(T, NoSlot) = NoSlot
         /\ T # {} => First(T, NoSlot) \in T /\ \A j \in T : First(T, NoSlot) <= j
         /\ First(T, NoSlot) # NoSlot => First(T, NoSlot) \in T
<1>1. /\ T = {} => First(T, NoSlot) = NoSlot
      /\ T # {} => First(T, NoSlot) \in T /\ \A j \in T : First(T, NoSlot) <= j
  BY SlotFacts, FirstFacts
<1> QED
  BY <1>1

LEMMA EntrySearch ==
  ASSUME NEW T \in SUBSET Entries
  PROVE  /\ T = {} => First(T, 0) = 0
         /\ T # {} => First(T, 0) \in T /\ \A j \in T : First(T, 0) <= j
         /\ First(T, 0) # 0 => First(T, 0) \in T
<1>1. /\ T = {} => First(T, 0) = 0
      /\ T # {} => First(T, 0) \in T /\ \A j \in T : First(T, 0) <= j
  BY EntryFacts, FirstFacts
<1> QED
  BY <1>1

-----------------------------------------------------------------------------
(* Types of the tables and of the calls.                                   *)

SubType == [filter : Filters \cup {NoFilter}, qos : 0 .. 2]
CbType == [task : Tasks \cup {NoTask}, sub : Slots \cup {NoSlot}, asked : Filters \cup {NoFilter}]
CallType == [pc : {"idle"} \cup SubStates \cup UnsubStates,
             filter : Filters \cup {NoFilter}, qos : 0 .. 2,
             slot : Slots \cup {NoSlot}, entry : Entries \cup {0}, count : Nat,
             packet : Filters \cup {NoFilter},
             answer : {"none", "granted", "refused", "cancelled"}]

LEMMA TypeFacts ==
  /\ TypeOK => /\ subs \in [Slots -> SubType] /\ callbacks \in [Entries -> CbType]
               /\ call \in [Tasks -> CallType]
  /\ Idle \in CallType /\ Idle.pc = "idle" /\ EmptySub \in SubType /\ EmptyCb \in CbType
  /\ EmptySub.filter = NoFilter /\ EmptyCb.sub = NoSlot /\ EmptyCb.task = NoTask
  /\ \A t \in Tasks : Uses[t] \subseteq Filters
  /\ NoFilter \notin Filters /\ NoTask \notin Tasks /\ Agent \notin Tasks /\ NoTask # Agent
<1>1. TypeOK => /\ subs \in [Slots -> SubType] /\ callbacks \in [Entries -> CbType]
                /\ call \in [Tasks -> CallType]
  BY DEF TypeOK, SubType, CbType, CallType
<1>2. 0 \in 0 .. 2
  OBVIOUS
<1>3. Idle \in CallType /\ Idle.pc = "idle" /\ EmptySub \in SubType /\ EmptyCb \in CbType
  BY <1>2 DEF Idle, CallType, SubStates, UnsubStates, EmptySub, SubType, EmptyCb, CbType
<1>4. EmptySub.filter = NoFilter /\ EmptyCb.sub = NoSlot /\ EmptyCb.task = NoTask
  BY DEF EmptySub, EmptyCb
<1> QED
  BY <1>1, <1>3, <1>4, UsesAssumption, NamesAssumption

(* The initial state.                                                      *)
LEMMA InitIInv == Init => IInv
<1> SUFFICES ASSUME Init PROVE IInv
  OBVIOUS
<1>1. /\ \A i \in Slots : ~Occupied(i)
      /\ \A j \in Entries : callbacks[j].sub = NoSlot /\ callbacks[j].task = NoTask
      /\ \A t \in Tasks : call[t] = Idle
      /\ subTotal = 0 /\ cbTotal = 0 /\ mutex = Agent /\ losses = 0
  BY TypeFacts DEF Init, Occupied
<1>2. TypeOK
  <2>1. /\ subTotal \in 0 .. MaxSubscriptions /\ cbTotal \in 0 .. MaxCallbacks
        /\ losses \in 0 .. MaxLosses /\ cbCount \in [Slots -> Nat]
    BY <1>1, SizesAssumption DEF Init
  <2>2. suback \in [Slots -> SubAck]
    BY DEF Init, SubAck
  <2>3. subs \in [Slots -> SubType] /\ callbacks \in [Entries -> CbType] /\ call \in [Tasks -> CallType]
    BY TypeFacts DEF Init
  <2> QED
    BY <2>1, <2>2, <2>3 DEF Init, TypeOK, SubType, CbType, CallType
<1>3. LockDiscipline
  BY <1>1, TypeFacts DEF LockDiscipline
<1>4. CountsExact
  <2>1. OccupiedSlots = {}
    BY <1>1 DEF OccupiedSlots
  <2>2. \A j \in Entries : ~(j <= 0)
    BY DEF Entries
  <2> QED
    BY <1>1, <2>1, <2>2, FS_EmptySet DEF CountsExact
<1>5. EntriesCleared /\ CallKnown
  BY <1>1, TypeFacts DEF EntriesCleared, CallKnown, KnownCall, Requesting, UnsubStates
<1> QED
  BY <1>2, <1>3, <1>4, <1>5 DEF IInv

-----------------------------------------------------------------------------
(* Steps of a call that leave the lists alone.                             *)

LEMMA CallMoves ==
  ASSUME IInv, NEW t \in Tasks, NEW c \in CallType, call' = [call EXCEPT ![t] = c],
         c.pc # "populate", call[t].pc # "populate", KnownCall(t, c),
         suback' \in [Slots -> SubAck], cbCount' \in [Slots -> Nat],
         broker' \subseteq Filters, acked' \subseteq Filters,
         UNCHANGED <<subs, callbacks, subTotal, cbTotal, mutex, agent, clean, losses>>
  PROVE  IInv'
<1>1. call' \in [Tasks -> CallType] /\ call'[t] = c /\ \A u \in Tasks \ {t} : call'[u] = call[u]
  BY TypeFacts DEF IInv
<1>2. TypeOK'
  BY <1>1 DEF IInv, TypeOK, CallType
<1>3. LockDiscipline'
  BY <1>1 DEF IInv, LockDiscipline
<1>4. CountsExact' /\ EntriesCleared'
  BY DEF IInv, CountsExact, EntriesCleared, OccupiedSlots, Occupied
<1>5. CallKnown'
  BY <1>1 DEF IInv, CallKnown, KnownCall
<1> QED
  BY <1>2, <1>3, <1>4, <1>5 DEF IInv

LEMMA KnownOf ==
  ASSUME IInv, NEW t \in Tasks
  PROVE  call[t] \in CallType /\ KnownCall(t, call[t])
BY TypeFacts DEF IInv, CallKnown

LEMMA IdleKnown ==
  ASSUME NEW t \in Tasks
  PROVE  KnownCall(t, Idle) /\ Idle \in CallType /\ Idle.pc # "populate"
BY TypeFacts DEF KnownCall, Requesting, UnsubStates

LEMMA AlreadySubscribedIInv ==
  ASSUME IInv, NEW t \in Tasks, AlreadySubscribed(t)
  PROVE  IInv'
BY CallMoves, IdleKnown DEF AlreadySubscribed, tables, agentState, world, IInv, TypeOK

LEMMA PostSubscribeIInv ==
  ASSUME IInv, NEW t \in Tasks, PostSubscribe(t)
  PROVE  IInv'
<1>1. call[t].pc = "check" /\ call[t] \in CallType /\ KnownCall(t, call[t])
  BY KnownOf DEF PostSubscribe
<1>2. PICK c \in {Idle, [call[t] EXCEPT !.pc = "subQueued"]} : call' = [call EXCEPT ![t] = c]
  BY TypeFacts DEF PostSubscribe, IInv
<1>3. c \in CallType /\ c.pc # "populate" /\ KnownCall(t, c)
  BY <1>1, IdleKnown DEF CallType, SubStates, KnownCall, Requesting, UnsubStates
<1> QED
  BY <1>1, <1>2, <1>3, CallMoves DEF PostSubscribe, tables, agentState, world, IInv, TypeOK

LEMMA SubscribeReturnsIInv ==
  ASSUME IInv, NEW t \in Tasks, SubscribeReturns(t)
  PROVE  IInv'
<1>1. suback' \in [Slots -> SubAck]
  BY DEF SubscribeReturns, IInv, TypeOK, SubAck
<1> QED
  BY <1>1, CallMoves, IdleKnown DEF SubscribeReturns, agentState, world, IInv, TypeOK

LEMMA UnsubscribeIInv ==
  ASSUME IInv, NEW t \in Tasks, NEW f \in Uses[t], Unsubscribe(t, f)
  PROVE  IInv'
<1> DEFINE s == First({i \in Slots : subs[i].filter = f}, NoSlot)
           n == IF s = NoSlot THEN 0 ELSE cbCount[s]
<1>1. s = NoSlot \/ s \in Slots
  <2>1. {i \in Slots : subs[i].filter = f} \in SUBSET Slots
    OBVIOUS
  <2> QED
    BY <2>1, SlotSearch
<1> HIDE DEF s
<1>2. n \in Nat
  BY <1>1 DEF IInv, TypeOK
<1>3. cbCount' \in [Slots -> Nat]
  <2>1. cbCount' = IF n = 0 THEN cbCount ELSE [cbCount EXCEPT ![s] = n - 1]
    BY DEF Unsubscribe, s
  <2>2. cbCount \in [Slots -> Nat] /\ (n # 0 => n - 1 \in Nat)
    BY <1>2 DEF IInv, TypeOK
  <2> QED
    BY <2>1, <2>2
<1>4. PICK pc \in {"unsubQueued", "remove"} :
        call' = [call EXCEPT ![t] = [Idle EXCEPT !.pc = pc, !.filter = f, !.count = n]]
  BY DEF Unsubscribe, s
<1> DEFINE c == [Idle EXCEPT !.pc = pc, !.filter = f, !.count = n]
<1> HIDE DEF n
<1>5. c \in CallType /\ c.pc # "populate" /\ KnownCall(t, c)
  <2>1. f \in Filters /\ Idle \in CallType
    BY TypeFacts
  <2>2. c \in CallType /\ c.pc = pc /\ c.filter = f
    BY <1>2, <2>1 DEF CallType, UnsubStates
  <2> HIDE DEF c
  <2> QED
    BY <2>2 DEF UnsubStates, KnownCall, Requesting
<1>6. call[t] = Idle /\ call' = [call EXCEPT ![t] = c]
  BY <1>4 DEF Unsubscribe
<1> HIDE DEF c
<1> QED
  BY <1>3, <1>5, <1>6, IdleKnown, CallMoves DEF Unsubscribe, agentState, world, IInv, TypeOK

-----------------------------------------------------------------------------
(* The requests in the agent.                                              *)

(* A request that is under way is concluded.                               *)
LEMMA ConcludedKnown ==
  ASSUME IInv, NEW t \in Tasks, Queued(t) \/ Sent(t),
         NEW answer \in {"granted", "refused", "cancelled"}
  PROVE  /\ Concluded(t, answer) \in CallType /\ Concluded(t, answer).pc # "populate"
         /\ KnownCall(t, Concluded(t, answer))
         /\ Concluded(t, answer).pc \in {"subAnswered", "remove"}
         /\ Concluded(t, answer).pc = "subAnswered" =>
              call[t].pc \in Requesting /\ Concluded(t, answer).slot = call[t].slot
         /\ Concluded(t, answer).pc = "remove" => call[t].pc \in UnsubStates
         /\ Concluded(t, answer).filter = call[t].filter
         /\ Concluded(t, answer).count = call[t].count
<1> DEFINE c == Concluded(t, answer)
<1>1. /\ call[t] \in CallType /\ KnownCall(t, call[t])
      /\ call[t].pc \in {"subQueued", "subSent", "unsubQueued", "unsubSent"}
  BY KnownOf DEF Queued, Sent
<1>2. /\ c \in CallType /\ c.filter = call[t].filter /\ c.count = call[t].count
      /\ c.slot = call[t].slot
      /\ c.pc = IF call[t].pc \in SubStates THEN "subAnswered" ELSE "remove"
  BY <1>1 DEF Concluded, CallType, IsSubscribe, SubStates, UnsubStates
<1>3. call[t].pc \in SubStates => call[t].pc \in Requesting
  BY <1>1 DEF SubStates, Requesting
<1>4. call[t].pc \notin SubStates => call[t].pc \in UnsubStates
  BY <1>1 DEF SubStates, UnsubStates
<1> HIDE DEF c
<1>5. KnownCall(t, c)
  BY <1>1, <1>2, <1>3, <1>4 DEF KnownCall, Requesting, UnsubStates
<1> QED
  BY <1>2, <1>3, <1>4, <1>5 DEF c

LEMMA TransmitIInv ==
  ASSUME IInv, NEW t \in Tasks, Transmit(t)
  PROVE  IInv'
<1> DEFINE packet == IF IsSubscribe(t) THEN subs[call[t].slot].filter ELSE call[t].filter
           sent == [call[t] EXCEPT !.pc = IF IsSubscribe(t) THEN "subSent" ELSE "unsubSent",
                                   !.packet = packet]
           c == IF packet = NoFilter THEN Concluded(t, "cancelled") ELSE sent
<1>1. /\ call[t] \in CallType /\ KnownCall(t, call[t]) /\ Queued(t)
      /\ call[t].pc \in {"subQueued", "unsubQueued"}
  BY KnownOf DEF Queued, Transmit
<1>2. packet \in Filters \cup {NoFilter}
  BY <1>1, TypeFacts DEF IInv, KnownCall, IsSubscribe, SubStates, Requesting, CallType, SubType
<1>3. call' = [call EXCEPT ![t] = c]
  BY TypeFacts DEF Transmit, IInv
<1>4. c \in CallType /\ c.pc # "populate" /\ KnownCall(t, c)
  <2>1. CASE packet = NoFilter
    BY <1>1, <2>1, ConcludedKnown
  <2>2. CASE packet # NoFilter
    <3>1. c = sent /\ packet \in Filters
      BY <1>2, <2>2
    <3> HIDE DEF packet, c
    <3>2. /\ sent \in CallType /\ sent.filter = call[t].filter /\ sent.slot = call[t].slot
          /\ sent.pc = IF call[t].pc \in SubStates THEN "subSent" ELSE "unsubSent"
          /\ sent.packet = packet
      BY <1>1, <3>1 DEF CallType, IsSubscribe, SubStates, UnsubStates
    <3> HIDE DEF sent
    <3>3. KnownCall(t, sent)
      BY <1>1, <3>1, <3>2 DEF KnownCall, Requesting, UnsubStates, SubStates
    <3> QED
      BY <3>1, <3>2, <3>3
  <2> QED
    BY <2>1, <2>2
<1> HIDE DEF c
<1> QED
  BY <1>1, <1>3, <1>4, CallMoves DEF Transmit, tables, agentState, world, IInv, TypeOK

LEMMA SubAckedIInv ==
  ASSUME IInv, NEW t \in Tasks, SubAcked(t)
  PROVE  IInv'
<1>1. Sent(t) /\ call[t].pc = "subSent" /\ KnownCall(t, call[t])
  BY KnownOf DEF SubAcked, Sent
<1>2. PICK answer \in {"granted", "refused"} :
        /\ call' = [call EXCEPT ![t] = Concluded(t, answer)]
        /\ LET new == IF answer = "granted" THEN {call[t].packet} ELSE {}
           IN  broker' = broker \cup new /\ acked' = acked \cup new
  BY DEF SubAcked
<1>3. broker' \subseteq Filters /\ acked' \subseteq Filters
  BY <1>1, <1>2 DEF KnownCall, IInv, TypeOK
<1>4. /\ Concluded(t, answer) \in CallType /\ Concluded(t, answer).pc # "populate"
      /\ KnownCall(t, Concluded(t, answer))
  BY <1>1, ConcludedKnown
<1> QED
  BY <1>1, <1>2, <1>3, <1>4, CallMoves DEF SubAcked, tables, agentState, IInv, TypeOK

LEMMA UnsubAckedIInv ==
  ASSUME IInv, NEW t \in Tasks, UnsubAcked(t)
  PROVE  IInv'
<1>1. Sent(t) /\ call[t].pc = "unsubSent"
  BY DEF UnsubAcked, Sent
<1>2. broker' \subseteq Filters /\ acked' \subseteq Filters
  BY DEF UnsubAcked, IInv, TypeOK
<1>3. /\ Concluded(t, "granted") \in CallType /\ Concluded(t, "granted").pc # "populate"
      /\ KnownCall(t, Concluded(t, "granted"))
  BY <1>1, ConcludedKnown
<1> QED
  BY <1>1, <1>2, <1>3, CallMoves DEF UnsubAcked, tables, agentState, IInv, TypeOK

(* MQTTAgent_CancelAll concludes requests and touches no other call.       *)
LEMMA CancelAllFacts ==
  ASSUME IInv, CancelAll
  PROVE  /\ call' \in [Tasks -> CallType]
         /\ \A t \in Tasks :
              \/ call'[t] = call[t]
              \/ (Queued(t) \/ Sent(t)) /\ call'[t] = Concluded(t, "cancelled")
<1>1. PICK T \in SUBSET {t \in Tasks : Queued(t)} : Cancelled(T)
  BY DEF CancelAll
<1>2. call' = [t \in Tasks |-> IF t \in T \/ Sent(t) THEN Concluded(t, "cancelled") ELSE call[t]]
  BY <1>1 DEF Cancelled
<1>3. \A t \in Tasks :
        \/ call'[t] = call[t] /\ call[t] \in CallType
        \/ /\ Queued(t) \/ Sent(t)
           /\ call'[t] = Concluded(t, "cancelled") /\ Concluded(t, "cancelled") \in CallType
  BY <1>1, <1>2, ConcludedKnown, KnownOf
<1> QED
  BY <1>2, <1>3

-----------------------------------------------------------------------------
(* vMQTTAgentTask.                                                         *)

LEMMA CancelAllKnown ==
  ASSUME IInv, CancelAll, mutex = Agent \/ UNCHANGED <<callbacks, cbTotal>>
  PROVE  /\ call' \in [Tasks -> CallType] /\ CallKnown'
         /\ \A t \in Tasks : (call'[t].pc = "populate") <=> (call[t].pc = "populate")
<1>1. call' \in [Tasks -> CallType]
  BY CancelAllFacts
<1>2. ASSUME NEW t \in Tasks
      PROVE  /\ (call'[t].pc = "populate") <=> (call[t].pc = "populate")
             /\ KnownCall(t, call[t])'
  <2>1. CASE call'[t] = call[t]
    <3>1. KnownCall(t, call[t]) /\ (mutex = Agent => call[t].pc # "populate")
      BY KnownOf, TypeFacts DEF IInv, LockDiscipline
    <3> QED
      BY <2>1, <3>1 DEF KnownCall
  <2>2. CASE (Queued(t) \/ Sent(t)) /\ call'[t] = Concluded(t, "cancelled")
    <3>1. call[t].pc # "populate" /\ call'[t].pc # "populate" /\ KnownCall(t, call'[t])
      BY <2>2, ConcludedKnown DEF Queued, Sent
    <3> QED
      BY <3>1 DEF KnownCall
  <2> QED
    BY <2>1, <2>2, CancelAllFacts
<1> QED
  BY <1>1, <1>2 DEF CallKnown

(* Steps of the agent that leave the lists alone.                          *)
LEMMA AgentMoves ==
  ASSUME IInv, CancelAll \/ UNCHANGED call, suback' \in [Slots -> SubAck],
         UNCHANGED <<subs, cbCount, callbacks, subTotal, cbTotal, clean, broker, acked>>,
         losses' \in 0 .. MaxLosses, agent' \in {"disconnected", "loop", "publish", "relock"},
         mutex' = mutex \/ (mutex \in {NoTask, Agent} /\ mutex' = Agent),
         agent' = "disconnected" => mutex' = Agent
  PROVE  IInv'
<1>1. /\ call' \in [Tasks -> CallType] /\ CallKnown'
      /\ \A t \in Tasks : (call'[t].pc = "populate") <=> (call[t].pc = "populate")
  <2>1. CASE CancelAll
    BY <2>1, CancelAllKnown
  <2>2. CASE UNCHANGED call
    BY <2>2, TypeFacts DEF IInv, CallKnown, KnownCall
  <2> QED
    BY <2>1, <2>2
<1>2. TypeOK'
  BY <1>1 DEF IInv, TypeOK, CallType
<1>3. LockDiscipline'
  BY <1>1, TypeFacts DEF IInv, LockDiscipline
<1>4. CountsExact' /\ EntriesCleared'
  BY DEF IInv, CountsExact, EntriesCleared, OccupiedSlots, Occupied
<1> QED
  BY <1>1, <1>2, <1>3, <1>4 DEF IInv

LEMMA ConnectFailsIInv ==
  ASSUME IInv, ConnectFails
  PROVE  IInv'
<1>1. suback' \in [Slots -> SubAck]
  BY DEF ConnectFails, StatusReset, SubAck
<1> QED
  BY <1>1, AgentMoves DEF ConnectFails, agentState, world, IInv, TypeOK, LockDiscipline

LEMMA ConnectResumedIInv ==
  ASSUME IInv, ConnectResumed
  PROVE  IInv'
BY AgentMoves DEF ConnectResumed, tables, agentState, world, IInv, TypeOK

LEMMA ConnectionLostIInv ==
  ASSUME IInv, ConnectionLost
  PROVE  IInv'
<1>1. losses' \in 0 .. MaxLosses
  BY SizesAssumption DEF ConnectionLost, IInv, TypeOK
<1> QED
  BY <1>1, AgentMoves DEF ConnectionLost, tables, world, IInv, TypeOK

LEMMA RelockIInv ==
  ASSUME IInv, Relock
  PROVE  IInv'
<1>1. suback' \in [Slots -> SubAck]
  BY DEF Relock, StatusReset, SubAck
<1> QED
  BY <1>1, AgentMoves DEF Relock, world, IInv, TypeOK

LEMMA PublishIInv ==
  ASSUME IInv, IncomingPublish \/ PublishHandled
  PROVE  IInv'
BY AgentMoves DEF IncomingPublish, PublishHandled, tables, world, IInv, TypeOK

(* prvSubscriptionManagerCtxReset.                                         *)
LEMMA ConnectCleanIInv ==
  ASSUME IInv, ConnectClean
  PROVE  IInv'
<1>1. /\ agent = "disconnected" /\ CancelAll /\ subTotal' = 0 /\ cbTotal' = 0
      /\ subs' = [i \in Slots |-> EmptySub] /\ callbacks' = [j \in Entries |-> EmptyCb]
      /\ suback' = [i \in Slots |-> "failure"] /\ cbCount' = [i \in Slots |-> 0]
      /\ mutex' = NoTask /\ agent' = "loop" /\ clean' = FALSE /\ broker' = {} /\ acked' = {}
      /\ losses' = losses
  BY DEF ConnectClean
<1>2. mutex = Agent
  BY <1>1 DEF IInv, LockDiscipline
<1>3. /\ call' \in [Tasks -> CallType] /\ CallKnown'
      /\ \A t \in Tasks : (call'[t].pc = "populate") <=> (call[t].pc = "populate")
  BY <1>1, <1>2, CancelAllKnown
<1>4. /\ \A i \in Slots : subs'[i] = EmptySub
      /\ \A j \in Entries : callbacks'[j] = EmptyCb
  BY <1>1
<1>5. TypeOK'
  <2>1. subTotal' \in 0 .. MaxSubscriptions /\ cbTotal' \in 0 .. MaxCallbacks
    BY <1>1, SizesAssumption
  <2>2. subs' \in [Slots -> SubType] /\ callbacks' \in [Entries -> CbType]
    BY <1>1, TypeFacts
  <2> QED
    BY <1>1, <1>3, <2>1, <2>2 DEF IInv, TypeOK, CallType, SubType, CbType, SubAck
<1>6. LockDiscipline'
  BY <1>1, <1>2, <1>3, TypeFacts DEF IInv, LockDiscipline
<1>7. CountsExact' /\ EntriesCleared'
  <2>1. OccupiedSlots' = {}
    BY <1>4, TypeFacts DEF OccupiedSlots, Occupied
  <2>2. \A j \in Entries : ~(j <= 0)
    BY DEF Entries
  <2> QED
    BY <1>1, <1>4, <2>1, <2>2, TypeFacts, FS_EmptySet DEF CountsExact, EntriesCleared
<1> QED
  BY <1>3, <1>5, <1>6, <1>7 DEF IInv

(* prvCompressSubscriptionList: as many slots are in use as before, the    *)
(* first ones.                                                             *)
LEMMA CompressedSubsFacts ==
  ASSUME IInv
  PROVE  /\ CompressedSubs \in [Slots -> SubType]
         /\ \A k \in Slots : (CompressedSubs[k].filter # NoFilter) <=> k <= Cardinality(OccupiedSlots)
<1> DEFINE n == Cardinality(OccupiedSlots)
<1>1. OccupiedSlots \in SUBSET Slots
  BY DEF OccupiedSlots
<1>2. n \in Nat /\ IsFiniteSet(OccupiedSlots) /\ OccupiedSlots \subseteq Nat
  BY <1>1, SlotFacts
<1>3. ASSUME NEW k \in Slots, k <= n
      PROVE  ElementAt(OccupiedSlots, k) \in OccupiedSlots
  <2>1. k \in 1 .. n
    BY <1>2, <1>3 DEF Slots
  <2> QED
    BY <1>2, <2>1, ElementFacts
<1>4. \A i \in OccupiedSlots : subs[i] \in SubType /\ subs[i].filter # NoFilter
  BY TypeFacts DEF IInv, OccupiedSlots, Occupied
<1>5. \A k \in Slots : /\ CompressedSubs[k] \in SubType
                       /\ (CompressedSubs[k].filter # NoFilter) <=> k <= n
  <2> SUFFICES ASSUME NEW k \in Slots
               PROVE  /\ CompressedSubs[k] \in SubType
                      /\ (CompressedSubs[k].filter # NoFilter) <=> k <= n
    OBVIOUS
  <2>1. CASE k <= n
    <3>1. CompressedSubs[k] = subs[ElementAt(OccupiedSlots, k)]
      BY <2>1 DEF CompressedSubs
    <3> QED
      BY <1>3, <1>4, <2>1, <3>1
  <2>2. CASE ~(k <= n)
    <3>1. CompressedSubs[k] = IF Occupied(k) THEN EmptySub ELSE subs[k]
      BY <2>2 DEF CompressedSubs
    <3> QED
      BY <2>2, <3>1, TypeFacts DEF IInv, Occupied
  <2> QED
    BY <2>1, <2>2
<1> QED
  BY <1>5 DEF CompressedSubs

(* prvUpdateCallbackRefs: an entry stays in use, or stays free.            *)
LEMMA CompressedRefsFacts ==
  ASSUME IInv
  PROVE  /\ CompressedRefs \in [Entries -> CbType]
         /\ \A j \in Entries : /\ CompressedRefs[j].task = callbacks[j].task
                               /\ (CompressedRefs[j].sub = NoSlot) <=> (callbacks[j].sub = NoSlot)
<1>1. OccupiedSlots \in SUBSET Slots
  BY DEF OccupiedSlots
<1>2. /\ Cardinality(OccupiedSlots) \in Nat /\ Cardinality(OccupiedSlots) <= MaxSubscriptions
      /\ IsFiniteSet(OccupiedSlots) /\ OccupiedSlots \subseteq Nat
  BY <1>1, SlotFacts
<1>3. \A i \in OccupiedSlots : PlaceIn(OccupiedSlots, i) \in Slots
  <2> SUFFICES ASSUME NEW i \in OccupiedSlots
               PROVE  PlaceIn(OccupiedSlots, i) \in Slots
    OBVIOUS
  <2>1. PlaceIn(OccupiedSlots, i) \in 1 .. Cardinality(OccupiedSlots)
    BY <1>2, PlaceFacts
  <2> QED
    BY <1>2, <2>1, SizesAssumption DEF Slots
<1>4. \A j \in Entries :
        /\ CompressedRefs[j] \in CbType /\ CompressedRefs[j].task = callbacks[j].task
        /\ (CompressedRefs[j].sub = NoSlot) <=> (callbacks[j].sub = NoSlot)
  <2> SUFFICES ASSUME NEW j \in Entries
               PROVE  /\ CompressedRefs[j] \in CbType /\ CompressedRefs[j].task = callbacks[j].task
                      /\ (CompressedRefs[j].sub = NoSlot) <=> (callbacks[j].sub = NoSlot)
    OBVIOUS
  <2>1. callbacks[j] \in CbType
    BY TypeFacts DEF IInv
  <2>2. CASE callbacks[j].sub \in OccupiedSlots
    <3>1. CompressedRefs[j] =
            [callbacks[j] EXCEPT !.sub = PlaceIn(OccupiedSlots, callbacks[j].sub)]
      BY <2>2 DEF CompressedRefs
    <3>2. callbacks[j].sub # NoSlot /\ PlaceIn(OccupiedSlots, callbacks[j].sub) \in Slots
          /\ PlaceIn(OccupiedSlots, callbacks[j].sub) # NoSlot
      BY <1>1, <1>3, <2>2, SlotFacts
    <3> QED
      BY <2>1, <3>1, <3>2 DEF CbType
  <2>3. CASE callbacks[j].sub \notin OccupiedSlots
    BY <2>1, <2>3 DEF CompressedRefs
  <2> QED
    BY <2>2, <2>3
<1> QED
  BY <1>4 DEF CompressedRefs

LEMMA ConnectNoSessionIInv ==
  ASSUME IInv, ConnectNoSession
  PROVE  IInv'
<1>1. /\ agent = "disconnected" /\ CancelAll /\ subs' = CompressedSubs
      /\ callbacks' = CompressedRefs /\ subTotal' = Cardinality(OccupiedSlots)
      /\ mutex' = NoTask /\ agent' = "loop" /\ broker' = {}
      /\ UNCHANGED <<suback, cbCount, cbTotal, clean, losses, acked>>
  BY DEF ConnectNoSession
<1>2. mutex = Agent
  BY <1>1 DEF IInv, LockDiscipline
<1>3. /\ call' \in [Tasks -> CallType] /\ CallKnown'
      /\ \A t \in Tasks : (call'[t].pc = "populate") <=> (call[t].pc = "populate")
  BY <1>1, <1>2, CancelAllKnown
<1>4. Cardinality(OccupiedSlots) \in 0 .. MaxSubscriptions
  <2>1. OccupiedSlots \in SUBSET Slots
    BY DEF OccupiedSlots
  <2> QED
    BY <2>1, SlotFacts, SizesAssumption
<1>5. TypeOK'
  BY <1>1, <1>3, <1>4, CompressedSubsFacts, CompressedRefsFacts
  DEF IInv, TypeOK, CallType, SubType, CbType
<1>6. LockDiscipline'
  BY <1>1, <1>2, <1>3, TypeFacts DEF IInv, LockDiscipline
<1>7. Cardinality(OccupiedSlots') = Cardinality(OccupiedSlots)
  <2>1. OccupiedSlots' = {k \in 1 .. MaxSubscriptions : k <= Cardinality(OccupiedSlots)}
    BY <1>1, CompressedSubsFacts DEF OccupiedSlots, Occupied, Slots
  <2> QED
    BY <1>4, <2>1, FirstOnes, SizesAssumption
<1>8. CountsExact' /\ EntriesCleared'
  BY <1>1, <1>7, CompressedRefsFacts DEF IInv, CountsExact, EntriesCleared
<1> QED
  BY <1>3, <1>5, <1>6, <1>8 DEF IInv

-----------------------------------------------------------------------------
(* MqttAgent_SubscribeSync under the mutex.                                *)

(* The slot that the search returns, if it returns one.                    *)
LEMMA TargetSlotFacts ==
  ASSUME NEW f
  PROVE  /\ MatchingSlot(f) # NoSlot => MatchingSlot(f) \in Slots /\ SlotMatches(MatchingSlot(f), f)
         /\ FirstEmptySlot # NoSlot => FirstEmptySlot \in Slots /\ ~Occupied(FirstEmptySlot)
         /\ TargetSlot(f) \in Slots \cup {NoSlot}
<1>1. /\ {i \in Slots : SlotMatches(i, f)} \in SUBSET Slots
      /\ {i \in Slots : ~Occupied(i)} \in SUBSET Slots
  OBVIOUS
<1>2. MatchingSlot(f) # NoSlot => MatchingSlot(f) \in Slots /\ SlotMatches(MatchingSlot(f), f)
  BY <1>1, SlotSearch DEF MatchingSlot
<1>3. FirstEmptySlot # NoSlot => FirstEmptySlot \in Slots /\ ~Occupied(FirstEmptySlot)
  BY <1>1, SlotSearch DEF FirstEmptySlot
<1> QED
  BY <1>2, <1>3 DEF TargetSlot

(* The entry that the search returns: the caller's, or the first free one. *)
LEMMA TargetEntryFacts ==
  ASSUME IInv, NEW t \in Tasks, NEW s \in Slots, TargetEntry(t, s) # 0
  PROVE  LET e == TargetEntry(t, s)
         IN  /\ e \in Entries
             /\ \/ EntryMatches(e, t, s)
                \/ callbacks[e].sub = NoSlot /\ \A j \in Entries : ~EntryMatches(j, t, s)
             /\ callbacks[e].sub = NoSlot => e = cbTotal + 1
<1> DEFINE same == {j \in Entries : EntryMatches(j, t, s)}
           free == {j \in Entries : callbacks[j].sub = NoSlot}
           e == TargetEntry(t, s)
<1>1. same \in SUBSET Entries /\ free \in SUBSET Entries
  OBVIOUS
<1>2. CASE same # {}
  <2>1. e = First(same, 0)
    BY <1>2 DEF TargetEntry
  <2>2. e \in same
    BY <1>1, <1>2, <2>1, EntrySearch
  <2> QED
    BY <2>2, SlotFacts DEF EntryMatches
<1>3. CASE same = {}
  <2>1. e = First(free, 0)
    BY <1>3 DEF TargetEntry
  <2>2. e \in free /\ \A j \in free : e <= j
    BY <1>1, <2>1, EntrySearch
  <2>3. cbTotal \in Nat /\ e \in Entries /\ ~(e <= cbTotal)
    BY <2>2, SizesAssumption DEF IInv, TypeOK, CountsExact
  <2>4. cbTotal + 1 \in Entries
    BY <2>3, SizesAssumption DEF Entries
  <2>5. cbTotal + 1 \in free
    BY <2>3, <2>4 DEF IInv, CountsExact
  <2>6. e <= cbTotal + 1 /\ e \in Nat
    BY <2>2, <2>3, <2>5, EntryFacts
  <2>7. e = cbTotal + 1
    BY <2>3, <2>6
  <2> QED
    BY <1>3, <2>2, <2>3, <2>7
<1> QED
  BY <1>2, <1>3

LEMMA SubscribeIInv ==
  ASSUME IInv, NEW t \in Tasks, NEW f \in Uses[t], NEW q \in QoS, Subscribe(t, f, q)
  PROVE  IInv'
<1> DEFINE s == TargetSlot(f)
           e == IF s = NoSlot THEN 0 ELSE TargetEntry(t, s)
           c == [Idle EXCEPT !.pc = "populate", !.filter = f, !.qos = RequestedQoS(f, q),
                             !.slot = s, !.entry = e]
<1>1. /\ call[t] = Idle /\ mutex = NoTask
      /\ suback' = [i \in Slots |-> IF i \in ResetBySearch(f, q) THEN "failure" ELSE suback[i]]
      /\ UNCHANGED <<subs, cbCount, callbacks, subTotal, cbTotal, agent, clean, losses, broker,
                     acked>>
  BY DEF Subscribe, agentState, world
<1>2. suback' \in [Slots -> SubAck]
  BY <1>1 DEF IInv, TypeOK, SubAck
<1>3. CountsExact' /\ EntriesCleared'
  BY <1>1 DEF IInv, CountsExact, EntriesCleared, OccupiedSlots, Occupied
<1>4. CASE e = 0
  <2>1. UNCHANGED <<mutex, call>>
    BY <1>4 DEF Subscribe
  <2>2. TypeOK'
    BY <1>1, <1>2, <2>1 DEF IInv, TypeOK
  <2>3. LockDiscipline' /\ CallKnown'
    BY <1>1, <2>1 DEF IInv, LockDiscipline, CallKnown, KnownCall
  <2> QED
    BY <1>3, <2>2, <2>3 DEF IInv
<1>5. CASE e # 0
  <2>1. mutex' = t /\ call' = [call EXCEPT ![t] = c]
    BY <1>5 DEF Subscribe
  <2>2. s \in Slots /\ e = TargetEntry(t, s)
    BY <1>5, TargetSlotFacts
  <2>3. e \in Entries /\ (callbacks[e].sub = NoSlot => e = cbTotal + 1)
    BY <1>5, <2>2, TargetEntryFacts
  <2>4. RequestedQoS(f, q) \in 0 .. 2
    <3>1. q \in 0 .. 2 /\ 1 \in 0 .. 2
      BY UsesAssumption
    <3>2. MatchingSlot(f) # NoSlot => subs[MatchingSlot(f)].qos \in 0 .. 2
      BY TargetSlotFacts, TypeFacts DEF IInv, SubType
    <3> QED
      BY <3>1, <3>2 DEF RequestedQoS, NewQoS
  <2>5. f \in Filters /\ Idle \in CallType
    BY TypeFacts
  <2> HIDE DEF s, e
  <2>6. PICK d \in CallType :
          /\ call' = [call EXCEPT ![t] = d]
          /\ d.pc = "populate" /\ d.filter = f /\ d.slot = s /\ d.entry = e
    <3>1. c \in CallType /\ c.pc = "populate" /\ c.filter = f /\ c.slot = s /\ c.entry = e
      BY <2>2, <2>3, <2>4, <2>5 DEF CallType, SubStates
    <3> QED
      BY <2>1, <3>1
  <2> HIDE DEF c
  <2>7. call' \in [Tasks -> CallType] /\ call'[t] = d /\ \A u \in Tasks \ {t} : call'[u] = call[u]
    BY <2>6, TypeFacts DEF IInv
  <2>8. TypeOK'
    BY <1>1, <1>2, <2>1, <2>7 DEF IInv, TypeOK, CallType
  <2>9. LockDiscipline'
    <3>1. agent # "disconnected" /\ \A u \in Tasks : call[u].pc # "populate"
      BY <1>1, TypeFacts DEF IInv, LockDiscipline
    <3> QED
      BY <1>1, <2>1, <2>6, <2>7, <3>1 DEF LockDiscipline
  <2>10. CallKnown'
    <3>1. KnownCall(t, d)'
      BY <1>1, <2>2, <2>3, <2>6 DEF KnownCall, Requesting
    <3>2. \A u \in Tasks \ {t} : KnownCall(u, call[u])'
      BY <1>1, <2>7, KnownOf DEF KnownCall
    <3> QED
      BY <2>7, <3>1, <3>2 DEF CallKnown, KnownCall
  <2> QED
    BY <1>3, <2>8, <2>9, <2>10 DEF IInv
<1> QED
  BY <1>4, <1>5

(* The slot and the entry are filled in.                                   *)
LEMMA PopulateIInv ==
  ASSUME IInv, NEW t \in Tasks, Populate(t)
  PROVE  IInv'
<1> DEFINE c == call[t]
           request == suback[c.slot] = "failure"
           new == request /\ ~Occupied(c.slot)
<1>1. /\ c.pc = "populate" /\ c \in CallType /\ KnownCall(t, c) /\ mutex = t
      /\ mutex' = NoTask /\ UNCHANGED <<suback, agent, clean, losses, broker, acked>>
  BY KnownOf DEF Populate, agentState, world, IInv, LockDiscipline
<1>2. /\ c.entry \in Entries /\ c.slot \in Slots /\ c.filter \in Filters /\ c.qos \in 0 .. 2
      /\ callbacks[c.entry].sub = NoSlot => c.entry = cbTotal + 1
  BY <1>1, TypeFacts DEF KnownCall, CallType
<1>3. PICK allocated \in BOOLEAN :
       LET ok == ~new \/ allocated
           register == ok /\ callbacks[c.entry].sub = NoSlot
       IN
       /\ subs' = IF ~request THEN subs
                  ELSE [subs EXCEPT ![c.slot] =
                         [filter |-> IF new /\ allocated THEN c.filter ELSE @.filter,
                          qos |-> c.qos]]
       /\ subTotal' = IF new /\ allocated THEN subTotal + 1 ELSE subTotal
       /\ IF register
            THEN /\ callbacks' = [callbacks EXCEPT ![c.entry] =
                                   [task |-> t, sub |-> c.slot, asked |-> c.filter]]
                 /\ cbCount' = [cbCount EXCEPT ![c.slot] = @ + 1]
                 /\ cbTotal' = cbTotal + 1
            ELSE UNCHANGED <<callbacks, cbCount, cbTotal>>
       /\ call' = [call EXCEPT ![t] = IF ~ok THEN Idle
                                        ELSE [c EXCEPT !.pc = "check", !.qos = 0, !.entry = 0]]
  BY DEF Populate
<1>4. /\ subs' \in [Slots -> SubType]
      /\ \A i \in Slots : subs'[i].filter =
           IF new /\ allocated /\ i = c.slot THEN c.filter ELSE subs[i].filter
  <2>1. subs \in [Slots -> SubType]
    BY TypeFacts DEF IInv
  <2> HIDE DEF c
  <2> QED
    BY <1>2, <1>3, <2>1 DEF SubType
<1>5. subTotal' \in 0 .. MaxSubscriptions /\ subTotal' = Cardinality(OccupiedSlots')
  <2>1. OccupiedSlots \in SUBSET Slots /\ OccupiedSlots' \in SUBSET Slots
    BY DEF OccupiedSlots
  <2>2. CASE new /\ allocated
    <3>1. OccupiedSlots' = OccupiedSlots \cup {c.slot} /\ c.slot \notin OccupiedSlots
      BY <1>2, <1>4, <2>2, TypeFacts DEF OccupiedSlots, Occupied
    <3>2. Cardinality(OccupiedSlots') = Cardinality(OccupiedSlots) + 1
      BY <2>1, <3>1, SlotFacts, FS_AddElement
    <3>3. subTotal' = subTotal + 1 /\ subTotal = Cardinality(OccupiedSlots)
      BY <1>3, <2>2 DEF IInv, CountsExact
    <3> QED
      BY <2>1, <3>2, <3>3, SlotFacts, SizesAssumption
  <2>3. CASE ~(new /\ allocated)
    <3>1. OccupiedSlots' = OccupiedSlots
      BY <1>4, <2>3 DEF OccupiedSlots, Occupied
    <3> QED
      BY <1>3, <2>3, <3>1 DEF IInv, CountsExact, TypeOK
  <2> QED
    BY <2>2, <2>3
<1>6. /\ callbacks' \in [Entries -> CbType] /\ cbCount' \in [Slots -> Nat]
      /\ cbTotal' \in 0 .. MaxCallbacks
      /\ \A j \in Entries : callbacks'[j].sub # NoSlot <=> j <= cbTotal'
      /\ EntriesCleared'
  <2>0. /\ callbacks \in [Entries -> CbType] /\ cbCount \in [Slots -> Nat]
        /\ cbTotal \in 0 .. MaxCallbacks /\ MaxCallbacks \in Nat
        /\ \A j \in Entries : callbacks[j].sub # NoSlot <=> j <= cbTotal
        /\ EntriesCleared
    BY TypeFacts, SizesAssumption DEF IInv, CountsExact, TypeOK
  <2>1. CASE (~new \/ allocated) /\ callbacks[c.entry].sub = NoSlot
    <3> DEFINE r == [task |-> t, sub |-> c.slot, asked |-> c.filter]
    <3>1. /\ callbacks' = [callbacks EXCEPT ![c.entry] = r]
          /\ cbCount' = [cbCount EXCEPT ![c.slot] = @ + 1] /\ cbTotal' = cbTotal + 1
      BY <1>3, <2>1
    <3>2. r \in CbType /\ r.sub # NoSlot
      BY <1>2, SlotFacts DEF CbType
    <3>3. c.entry = cbTotal + 1
      BY <1>2, <2>1
    <3> HIDE DEF r, c
    <3>4. cbTotal' \in 0 .. MaxCallbacks
      BY <1>2, <2>0, <3>1, <3>3 DEF Entries
    <3>5. /\ callbacks' \in [Entries -> CbType] /\ callbacks'[c.entry] = r
          /\ \A j \in Entries \ {c.entry} : callbacks'[j] = callbacks[j]
      BY <1>2, <2>0, <3>1, <3>2
    <3>6. \A j \in Entries : callbacks'[j].sub # NoSlot <=> j <= cbTotal'
      <4>1. \A j \in Entries : j <= cbTotal + 1 <=> j = cbTotal + 1 \/ j <= cbTotal
        BY <2>0 DEF Entries
      <4> QED
        BY <2>0, <3>1, <3>2, <3>3, <3>5, <4>1
    <3>7. EntriesCleared'
      BY <2>0, <3>2, <3>5 DEF EntriesCleared
    <3>8. cbCount' \in [Slots -> Nat]
      BY <1>2, <2>0, <3>1
    <3> QED
      BY <3>4, <3>5, <3>6, <3>7, <3>8
  <2>2. CASE ~((~new \/ allocated) /\ callbacks[c.entry].sub = NoSlot)
    <3>1. UNCHANGED <<callbacks, cbCount, cbTotal>>
      BY <1>3, <2>2
    <3> QED
      BY <2>0, <3>1 DEF EntriesCleared
  <2> QED
    BY <2>1, <2>2
<1>7. PICK d \in CallType : /\ call' = [call EXCEPT ![t] = d] /\ d.pc # "populate"
                            /\ KnownCall(t, d) /\ KnownCall(t, d)'
  <2>1. Idle \in CallType /\ Idle.pc # "populate" /\ KnownCall(t, Idle) /\ KnownCall(t, Idle)'
    BY IdleKnown, TypeFacts DEF KnownCall, Requesting, UnsubStates
  <2>2. PICK d \in CallType :
          /\ d = [c EXCEPT !.pc = "check", !.qos = 0, !.entry = 0]
          /\ d.pc = "check" /\ d.slot = c.slot /\ d.filter = c.filter
    <3> DEFINE r == [c EXCEPT !.pc = "check", !.qos = 0, !.entry = 0]
    <3>1. c \in CallType /\ 0 \in 0 .. 2
      BY <1>1
    <3> HIDE DEF c
    <3>2. r \in CallType /\ r.pc = "check" /\ r.slot = c.slot /\ r.filter = c.filter
      BY <3>1 DEF CallType, SubStates
    <3> QED
      BY <3>2
  <2>3. call' = [call EXCEPT ![t] = Idle] \/ call' = [call EXCEPT ![t] = d]
    BY <1>3, <2>2
  <2>4. KnownCall(t, d) /\ KnownCall(t, d)'
    BY <1>1, <2>2 DEF KnownCall, Requesting, UnsubStates
  <2> QED
    BY <2>1, <2>2, <2>3, <2>4
<1>8. call' \in [Tasks -> CallType] /\ call'[t] = d /\ \A u \in Tasks \ {t} : call'[u] = call[u]
  BY <1>7, TypeFacts DEF IInv
<1>9. \A u \in Tasks \ {t} : call[u].pc # "populate"
  BY <1>1 DEF IInv, LockDiscipline
<1> HIDE DEF c
<1>10. TypeOK'
  BY <1>1, <1>4, <1>5, <1>6, <1>8 DEF IInv, TypeOK, CallType, SubType, CbType
<1>11. LockDiscipline'
  BY <1>1, <1>7, <1>8, <1>9, TypeFacts DEF IInv, LockDiscipline
<1>12. CountsExact'
  BY <1>5, <1>6 DEF CountsExact
<1>13. CallKnown'
  <2>1. \A u \in Tasks \ {t} : KnownCall(u, call[u])'
    BY <1>8, <1>9, KnownOf DEF KnownCall
  <2> QED
    BY <1>7, <1>8, <2>1 DEF CallKnown, KnownCall
<1> QED
  BY <1>6, <1>10, <1>11, <1>12, <1>13 DEF IInv

-----------------------------------------------------------------------------
(* MqttAgent_UnSubscribeSync, the second locked section.                   *)

(* prvCompressCallbackList: as many entries as were in use, at the front.  *)
LEMMA CompressedCallbacksFacts ==
  ASSUME NEW cbs \in [Entries -> CbType]
  PROVE  LET used == {j \in Entries : cbs[j].sub # NoSlot}
             r == CompressedCallbacks(cbs)
         IN  /\ r \in [Entries -> CbType] /\ Cardinality(used) \in 0 .. MaxCallbacks
             /\ \A k \in Entries :
                  \/ k <= Cardinality(used) /\ r[k].sub # NoSlot
                     /\ \E j \in used : r[k] = cbs[j] /\ PlaceIn(used, j) = k
                  \/ ~(k <= Cardinality(used)) /\ r[k] = EmptyCb
             /\ UsedEntries(r) = Cardinality(used)
<1> DEFINE used == {j \in Entries : cbs[j].sub # NoSlot}
           n == Cardinality(used)
           r == CompressedCallbacks(cbs)
<1>1. used \in SUBSET Entries
  OBVIOUS
<1>2. n \in Nat /\ n <= MaxCallbacks /\ IsFiniteSet(used) /\ used \subseteq Nat
      /\ MaxCallbacks \in Nat
  BY <1>1, EntryFacts, SizesAssumption
<1>3. \A k \in Entries : r[k] = IF k <= n THEN cbs[ElementAt(used, k)] ELSE EmptyCb
  BY DEF CompressedCallbacks
<1>4. ASSUME NEW k \in Entries, k <= n
      PROVE  ElementAt(used, k) \in used /\ PlaceIn(used, ElementAt(used, k)) = k
  <2>1. k \in 1 .. n
    BY <1>2, <1>4 DEF Entries
  <2> HIDE DEF used
  <2> QED
    BY <1>2, <2>1, ElementFacts
<1>5. \A k \in Entries :
        \/ k <= n /\ r[k].sub # NoSlot
           /\ \E j \in used : r[k] = cbs[j] /\ PlaceIn(used, j) = k
        \/ ~(k <= n) /\ r[k] = EmptyCb
  <2> SUFFICES ASSUME NEW k \in Entries
               PROVE  \/ k <= n /\ r[k].sub # NoSlot
                         /\ \E j \in used : r[k] = cbs[j] /\ PlaceIn(used, j) = k
                      \/ ~(k <= n) /\ r[k] = EmptyCb
    OBVIOUS
  <2>1. CASE k <= n
    <3>1. ElementAt(used, k) \in used /\ PlaceIn(used, ElementAt(used, k)) = k
      BY <1>4, <2>1
    <3>2. r[k] = cbs[ElementAt(used, k)]
      BY <1>3, <2>1
    <3>3. r[k].sub # NoSlot
      BY <3>1, <3>2
    <3> HIDE DEF used
    <3> QED
      BY <2>1, <3>1, <3>2, <3>3
  <2>2. CASE ~(k <= n)
    BY <1>3, <2>2
  <2> QED
    BY <2>1, <2>2
<1>6. r \in [Entries -> CbType]
  <2>1. \A k \in Entries : r[k] \in CbType
    BY <1>5, TypeFacts
  <2>2. r = [k \in Entries |-> IF k <= n THEN cbs[ElementAt(used, k)] ELSE EmptyCb]
    BY DEF CompressedCallbacks
  <2> HIDE DEF r, n
  <2> QED
    BY <2>1, <2>2
<1>7. UsedEntries(r) = n
  <2>1. {j \in Entries : r[j].sub # NoSlot} = {j \in 1 .. MaxCallbacks : j <= n}
    BY <1>5, TypeFacts DEF Entries
  <2>2. Cardinality({j \in 1 .. MaxCallbacks : j <= n}) = n
    <3>1. MaxCallbacks \in Nat /\ n \in 0 .. MaxCallbacks
      BY <1>2
    <3> HIDE DEF n
    <3> QED
      BY <3>1, FirstOnes
  <2> QED
    BY <2>1, <2>2 DEF UsedEntries
<1>8. n \in 0 .. MaxCallbacks
  BY <1>2
<1> QED
  BY <1>5, <1>6, <1>7, <1>8

(* The entry that Remove finds is in use, and so is its slot.              *)
LEMMA RemoveFinds ==
  ASSUME IInv, NEW t \in Tasks, call[t].pc = "remove"
  PROVE  LET s == First({i \in Slots : cbCount[i] = 0 /\ subs[i].filter = call[t].filter}, NoSlot)
             e == First({j \in Entries : EntryMatches(j, t, s)}, 0)
         IN  e # 0 => /\ e \in Entries /\ callbacks[e].sub = s /\ callbacks[e].task = t
                      /\ s \in Slots /\ cbCount[s] = 0 /\ subs[s].filter = call[t].filter
                      /\ Occupied(s)
<1> DEFINE s == First({i \in Slots : cbCount[i] = 0 /\ subs[i].filter = call[t].filter}, NoSlot)
           e == First({j \in Entries : EntryMatches(j, t, s)}, 0)
<1> SUFFICES ASSUME e # 0
             PROVE  /\ e \in Entries /\ callbacks[e].sub = s /\ callbacks[e].task = t
                    /\ s \in Slots /\ cbCount[s] = 0 /\ subs[s].filter = call[t].filter
                    /\ Occupied(s)
  OBVIOUS
<1>1. {i \in Slots : cbCount[i] = 0 /\ subs[i].filter = call[t].filter} \in SUBSET Slots
  OBVIOUS
<1>2. s # NoSlot => s \in Slots /\ cbCount[s] = 0 /\ subs[s].filter = call[t].filter
  BY <1>1, SlotSearch
<1> HIDE DEF s
<1>3. {j \in Entries : EntryMatches(j, t, s)} \in SUBSET Entries
  OBVIOUS
<1>4. e \in Entries /\ EntryMatches(e, t, s)
  BY <1>3, EntrySearch
<1> HIDE DEF e
<1>5. callbacks[e].sub = s /\ callbacks[e].task = t /\ s # NoSlot
  BY <1>4, TypeFacts DEF EntryMatches, IInv, EntriesCleared
<1>6. call[t].filter # NoFilter
  BY KnownOf, TypeFacts DEF KnownCall, UnsubStates
<1> QED
  BY <1>2, <1>4, <1>5, <1>6 DEF Occupied

LEMMA RemoveIInv ==
  ASSUME IInv, NEW t \in Tasks, Remove(t)
  PROVE  IInv'
<1> DEFINE c == call[t]
           s == First({i \in Slots : cbCount[i] = 0 /\ subs[i].filter = c.filter}, NoSlot)
           e == First({j \in Entries : EntryMatches(j, t, s)}, 0)
           cleared == [callbacks EXCEPT ![e] = EmptyCb]
           removed == CompressedCallbacks(cleared)
<1>1. /\ c.pc = "remove" /\ mutex = NoTask /\ call' = [call EXCEPT ![t] = Idle]
      /\ callbacks' = IF e = 0 THEN callbacks ELSE removed
      /\ cbTotal' = IF e = 0 THEN cbTotal ELSE UsedEntries(removed)
      /\ IF e # 0 /\ c.count = 1
           THEN /\ subs' = [subs EXCEPT ![s] = EmptySub]
                /\ suback' = [suback EXCEPT ![s] = "failure"]
                /\ subTotal' = subTotal - 1
           ELSE UNCHANGED <<subs, suback, subTotal>>
      /\ UNCHANGED <<cbCount, mutex, agent, clean, losses, broker, acked>>
  BY DEF Remove, agentState, world
<1>2. e # 0 => /\ e \in Entries /\ callbacks[e].sub = s /\ s \in Slots /\ Occupied(s)
  BY <1>1, RemoveFinds
<1> HIDE DEF s, e, c
<1>3. /\ callbacks \in [Entries -> CbType] /\ subs \in [Slots -> SubType]
      /\ EmptyCb \in CbType /\ EmptySub \in SubType
      /\ cleared \in [Entries -> CbType]
  BY TypeFacts DEF IInv
<1>4. /\ callbacks' \in [Entries -> CbType] /\ cbTotal' \in 0 .. MaxCallbacks /\ EntriesCleared'
      /\ \A j \in Entries : callbacks'[j].sub # NoSlot <=> j <= cbTotal'
  <2>1. CASE e = 0
    BY <1>1, <1>3, <2>1 DEF IInv, TypeOK, EntriesCleared, CountsExact
  <2>2. CASE e # 0
    <3> DEFINE used == {j \in Entries : cleared[j].sub # NoSlot}
    <3>1. /\ removed \in [Entries -> CbType] /\ Cardinality(used) \in 0 .. MaxCallbacks
          /\ \A k \in Entries :
               \/ k <= Cardinality(used) /\ removed[k].sub # NoSlot
                  /\ \E j \in used : removed[k] = cleared[j] /\ PlaceIn(used, j) = k
               \/ ~(k <= Cardinality(used)) /\ removed[k] = EmptyCb
          /\ UsedEntries(removed) = Cardinality(used)
      <4> HIDE DEF cleared
      <4> QED
        BY <1>3, CompressedCallbacksFacts
    <3>2. callbacks' = removed /\ cbTotal' = Cardinality(used)
      BY <1>1, <2>2, <3>1
    <3> HIDE DEF removed, cleared
    <3>3. EntriesCleared'
      BY <3>1, <3>2, TypeFacts DEF EntriesCleared
    <3>4. \A j \in Entries : callbacks'[j].sub # NoSlot <=> j <= cbTotal'
      BY <3>1, <3>2, TypeFacts
    <3> QED
      BY <3>1, <3>2, <3>3, <3>4
  <2> QED
    BY <2>1, <2>2
<1>5. /\ subs' \in [Slots -> SubType] /\ suback' \in [Slots -> SubAck]
      /\ subTotal' \in 0 .. MaxSubscriptions /\ subTotal' = Cardinality(OccupiedSlots')
  <2>1. CASE e # 0 /\ c.count = 1
    <3>1. /\ subs' = [subs EXCEPT ![s] = EmptySub] /\ suback' = [suback EXCEPT ![s] = "failure"]
          /\ subTotal' = subTotal - 1 /\ s \in Slots /\ Occupied(s)
      BY <1>1, <1>2, <2>1
    <3>2. OccupiedSlots' = OccupiedSlots \ {s} /\ s \in OccupiedSlots
      BY <1>3, <3>1, TypeFacts DEF OccupiedSlots, Occupied
    <3>3. OccupiedSlots \in SUBSET Slots /\ OccupiedSlots' \in SUBSET Slots
      BY DEF OccupiedSlots
    <3>4. Cardinality(OccupiedSlots') = Cardinality(OccupiedSlots) - 1
      BY <3>2, <3>3, SlotFacts, FS_RemoveElement
    <3>5. subTotal = Cardinality(OccupiedSlots) /\ suback \in [Slots -> SubAck]
      BY DEF IInv, CountsExact, TypeOK
    <3>6. subTotal' \in 0 .. MaxSubscriptions /\ subTotal' = Cardinality(OccupiedSlots')
      BY <3>1, <3>3, <3>4, <3>5, SlotFacts, SizesAssumption
    <3>7. subs' \in [Slots -> SubType] /\ suback' \in [Slots -> SubAck]
      BY <1>3, <3>1, <3>5 DEF SubAck
    <3> QED
      BY <3>6, <3>7
  <2>2. CASE ~(e # 0 /\ c.count = 1)
    <3>1. UNCHANGED <<subs, suback, subTotal>>
      BY <1>1, <2>2
    <3> QED
      BY <1>3, <3>1 DEF IInv, TypeOK, CountsExact, OccupiedSlots, Occupied
  <2> QED
    BY <2>1, <2>2
<1>6. /\ call' \in [Tasks -> CallType] /\ call'[t] = Idle /\ Idle.pc = "idle"
      /\ \A u \in Tasks \ {t} : call'[u] = call[u]
  BY <1>1, TypeFacts DEF IInv
<1>7. \A u \in Tasks : call[u].pc # "populate" /\ call'[u].pc # "populate"
  BY <1>1, <1>6, TypeFacts DEF IInv, LockDiscipline
<1>8. TypeOK'
  BY <1>1, <1>4, <1>5, <1>6 DEF IInv, TypeOK, CallType, SubType, CbType
<1>9. LockDiscipline'
  BY <1>1, <1>7, TypeFacts DEF IInv, LockDiscipline
<1>10. CountsExact'
  BY <1>4, <1>5 DEF CountsExact
<1>11. CallKnown'
  <2>1. \A u \in Tasks \ {t} : KnownCall(u, call[u])'
    BY <1>6, <1>7, KnownOf DEF KnownCall
  <2>2. KnownCall(t, call[t])'
    BY <1>6 DEF KnownCall, Requesting, UnsubStates
  <2> QED
    BY <2>1, <2>2 DEF CallKnown
<1> QED
  BY <1>4, <1>8, <1>9, <1>10, <1>11 DEF IInv

-----------------------------------------------------------------------------
(* All steps, and what the shared run checks.                              *)

LEMMA NextIInv ==
  ASSUME IInv, [Next]_vars
  PROVE  IInv'
<1>1. ASSUME AgentNext
      PROVE  IInv'
  BY <1>1, ConnectFailsIInv, ConnectCleanIInv, ConnectResumedIInv, ConnectNoSessionIInv,
     ConnectionLostIInv, RelockIInv, PublishIInv DEF AgentNext
<1>2. ASSUME NEW t \in Tasks, TaskNext(t)
      PROVE  IInv'
  BY <1>2, SubscribeIInv, PopulateIInv, AlreadySubscribedIInv, PostSubscribeIInv,
     SubscribeReturnsIInv, UnsubscribeIInv, RemoveIInv DEF TaskNext
<1>3. ASSUME NEW t \in Tasks, RequestNext(t)
      PROVE  IInv'
  BY <1>3, TransmitIInv, SubAckedIInv, UnsubAckedIInv DEF RequestNext
<1>4. ASSUME UNCHANGED vars
      PROVE  IInv'
  BY <1>4 DEF vars, tables, agentState, world, IInv, TypeOK, LockDiscipline, CountsExact,
     EntriesCleared, CallKnown, KnownCall, OccupiedSlots, Occupied
<1> QED
  BY <1>1, <1>2, <1>3, <1>4 DEF Next

(* The invariant is kept by the agent, by every call and by every answer,  *)
(* whatever the filters and however often the connection is lost.          *)
THEOREM IInvHolds == Spec => []IInv
<1>1. IInv /\ [Next]_vars => IInv'
  BY NextIInv
<1> QED
  BY InitIInv, <1>1, PTL DEF Spec

(* The tables of the subscription manager and the local variables of its   *)
(* calls keep their types: no reference count goes below zero, no counter  *)
(* beyond the length of its list.                                          *)
THEOREM ManagerTypes == Spec => []TypeOK
<1>1. IInv => TypeOK
  BY DEF IInv
<1> QED
  BY <1>1, IInvHolds, PTL

(* xLockSubCtx and MUTEX_IS_OWNED: the agent holds the mutex while it is   *)
(* disconnected, and a task that fills in the tables holds it alone.       *)
THEOREM LockIsHeld == Spec => []LockDiscipline
<1>1. IInv => LockDiscipline
  BY DEF IInv
<1> QED
  BY <1>1, IInvHolds, PTL

(* prvCompressCallbackList, prvCompressSubscriptionList: the callbacks in  *)
(* use are the first uxCallbackCount entries, and uxSubscriptionCount is   *)
(* the number of slots in use.                                             *)
THEOREM CountersAreExact == Spec => []CountsExact
<1>1. IInv => CountsExact
  BY DEF IInv
<1> QED
  BY <1>1, IInvHolds, PTL

-----------------------------------------------------------------------------
(* One client for each filter, and one connection.                         *)

(* The first slot with a filter.                                           *)
LEMMA FirstWithFacts ==
  ASSUME NEW f
  PROVE  /\ FirstWith(f) # NoSlot =>
              /\ FirstWith(f) \in Slots /\ subs[FirstWith(f)].filter = f
              /\ \A k \in Slots : subs[k].filter = f => FirstWith(f) <= k
         /\ FirstWith(f) = NoSlot => \A k \in Slots : subs[k].filter # f
<1> DEFINE T == {k \in Slots : subs[k].filter = f}
<1>1. T \in SUBSET Slots
  OBVIOUS
<1>2. /\ T = {} => First(T, NoSlot) = NoSlot
      /\ T # {} => First(T, NoSlot) \in T /\ \A j \in T : First(T, NoSlot) <= j
  BY <1>1, SlotSearch
<1>3. FirstWith(f) = First(T, NoSlot)
  BY DEF FirstWith
<1>4. T # {} => FirstWith(f) \in T /\ FirstWith(f) # NoSlot /\ \A j \in T : FirstWith(f) <= j
  BY <1>1, <1>2, <1>3, SlotFacts
<1> QED
  BY <1>2, <1>3, <1>4

(* A step that moves no slot with the filter of a call of UnSubscribeSync. *)
LEMMA GivingUpStays ==
  ASSUME NEW u \in Tasks,
         (call'[u].pc \in UnsubStates) <=> (call[u].pc \in UnsubStates),
         call[u].pc \in UnsubStates =>
           /\ call'[u].count = call[u].count /\ call'[u].filter = call[u].filter
           /\ \A k \in Slots : (subs'[k].filter = call[u].filter) <=> (subs[k].filter = call[u].filter)
  PROVE  /\ \A i : GivingUp(u, i)' <=> GivingUp(u, i)
         /\ call[u].pc \in UnsubStates => FirstWith(call[u].filter)' = FirstWith(call[u].filter)
<1>1. ASSUME call[u].pc \in UnsubStates
      PROVE  FirstWith(call[u].filter)' = FirstWith(call[u].filter)
  <2>1. {k \in Slots : subs'[k].filter = call'[u].filter} = {k \in Slots : subs[k].filter = call[u].filter}
    BY <1>1
  <2> QED
    BY <2>1 DEF FirstWith
<1> QED
  BY <1>1 DEF GivingUp

(* Two tasks do not share a filter.                                        *)
LEMMA OneClient ==
  ASSUME OneSession, NEW t \in Tasks, NEW u \in Tasks, NEW f \in Uses[t], f \in Uses[u]
  PROVE  t = u
BY DEF OneSession

(* The slots that callbacks and calls refer to are in use.                 *)
LEMMA InUse ==
  ASSUME JInv
  PROVE  /\ \A j \in Entries : callbacks[j].sub # NoSlot =>
              /\ callbacks[j].sub \in Slots /\ Occupied(callbacks[j].sub)
              /\ callbacks[j].asked = subs[callbacks[j].sub].filter
              /\ callbacks[j].asked \in Filters
         /\ \A u \in Tasks : call[u].pc \in Requesting =>
              /\ call[u].slot \in Slots /\ Occupied(call[u].slot)
              /\ subs[call[u].slot].filter = call[u].filter
         /\ \A u \in Tasks : call[u].pc \in {"populate"} \cup Requesting \cup UnsubStates =>
              call[u].filter \in Uses[u] /\ call[u].filter \in Filters
<1>1. IInv /\ callbacks \in [Entries -> CbType]
  BY TypeFacts DEF JInv, IInv
<1>2. ASSUME NEW j \in Entries, callbacks[j].sub # NoSlot
      PROVE  /\ callbacks[j].sub \in Slots /\ Occupied(callbacks[j].sub)
             /\ callbacks[j].asked = subs[callbacks[j].sub].filter
             /\ callbacks[j].asked \in Filters
  <2>1. callbacks[j].sub \in Slots
    BY <1>1, <1>2 DEF CbType
  <2>2. callbacks[j].asked = subs[callbacks[j].sub].filter
    BY <1>2 DEF JInv, SlotKeepsFilter
  <2>3. callbacks[j].asked \in Filters
    BY <1>2, TypeFacts DEF JInv, OneCallback
  <2> QED
    BY <2>1, <2>2, <2>3, TypeFacts DEF Occupied
<1>3. ASSUME NEW u \in Tasks,
             call[u].pc \in {"populate"} \cup Requesting \cup UnsubStates
      PROVE  call[u].filter \in Uses[u] /\ call[u].filter \in Filters
  BY <1>1, <1>3, KnownOf, TypeFacts DEF KnownCall
<1>4. ASSUME NEW u \in Tasks, call[u].pc \in Requesting
      PROVE  /\ call[u].slot \in Slots /\ Occupied(call[u].slot)
             /\ subs[call[u].slot].filter = call[u].filter
  <2>1. call[u].slot \in Slots
    BY <1>1, <1>4, KnownOf DEF KnownCall
  <2>2. subs[call[u].slot].filter = call[u].filter
    BY <1>4 DEF JInv, SlotKeepsFilter, Requesting
  <2> QED
    BY <1>3, <1>4, <2>1, <2>2, TypeFacts DEF Occupied
<1> QED
  BY <1>2, <1>3, <1>4

(* While somebody calls, the connection is there.                          *)
LEMMA Connected ==
  ASSUME JInv
  PROVE  /\ mutex = NoTask => agent # "disconnected"
         /\ \A t \in Tasks : call[t].pc # "idle" => agent # "disconnected"
BY TypeFacts DEF JInv, IInv, LockDiscipline, FirstConnection

(* The initial state.                                                      *)
LEMMA InitJInv == Init => JInv
<1> SUFFICES ASSUME Init PROVE JInv
  OBVIOUS
<1>1. IInv
  BY InitIInv
<1>2. /\ \A i \in Slots : ~Occupied(i) /\ cbCount[i] = 0
      /\ \A j \in Entries : callbacks[j].sub = NoSlot
      /\ \A t \in Tasks : call[t].pc = "idle"
      /\ agent = "disconnected" /\ clean
  BY TypeFacts DEF Init, Occupied
<1>3. FirstConnection /\ EmptyIsUnanswered
  BY <1>2 DEF FirstConnection, EmptyIsUnanswered
<1>4. OneCallback /\ SearchHolds /\ SlotKeepsFilter
  BY <1>2 DEF OneCallback, SearchHolds, SlotKeepsFilter
<1>5. CountsKnown
  BY <1>2, SlotFacts DEF CountsKnown, Referred, UnsubStates
<1> QED
  BY <1>1, <1>3, <1>4, <1>5 DEF JInv

(* A step of a call that changes the filter of no slot and no callback.    *)
LEMMA CallGoesOn ==
  ASSUME JInv, IInv', NEW t \in Tasks, NEW d, call'[t] = d,
         \A u \in Tasks \ {t} : call'[u] = call[u],
         \A i \in Slots : subs'[i].filter = subs[i].filter,
         UNCHANGED <<cbCount, callbacks, clean>>,
         agent # "disconnected", agent' = agent,
         \A i \in Slots : ~Occupied(i) => suback'[i] = "failure",
         \/ /\ call[t].pc \in {"populate"} \cup Requesting \cup {"remove"}
            /\ d.pc = "idle"
            /\ call[t].pc = "remove" => call[t].count = 0
         \/ /\ call[t].pc \in {"populate"} \cup Requesting /\ d.pc \in Requesting
            /\ d.slot = call[t].slot /\ d.filter = call[t].filter
            /\ Occupied(call[t].slot)
         \/ /\ call[t].pc \in UnsubStates /\ d.pc \in UnsubStates
            /\ d.filter = call[t].filter /\ d.count = call[t].count
  PROVE  JInv'
<1>1. \A i \in Slots : Occupied(i)' <=> Occupied(i)
  BY DEF Occupied
<1>2. FirstConnection' /\ EmptyIsUnanswered' /\ OneCallback'
  BY <1>1 DEF JInv, FirstConnection, EmptyIsUnanswered, OneCallback
<1>3. SearchHolds'
  <2> SUFFICES ASSUME NEW u \in Tasks, call'[u].pc = "populate"
               PROVE  /\ Occupied(call[u].slot)' => subs'[call'[u].slot].filter = call'[u].filter
                      /\ \A j \in Entries : callbacks'[j].sub = call'[u].slot => j = call'[u].entry
                      /\ callbacks'[call'[u].entry].sub # NoSlot =>
                           callbacks'[call'[u].entry].sub = call'[u].slot
    BY DEF SearchHolds
  <2>1. u # t
    BY DEF Requesting, UnsubStates
  <2>2. call'[u] = call[u] /\ call[u].slot \in Slots
    BY <2>1, KnownOf DEF KnownCall, JInv
  <2> QED
    BY <2>2 DEF JInv, SearchHolds, Occupied
<1>4. SlotKeepsFilter'
  <2>1. ASSUME NEW j \in Entries, callbacks'[j].sub # NoSlot
        PROVE  subs'[callbacks'[j].sub].filter = callbacks'[j].asked
    BY <2>1, InUse DEF JInv, SlotKeepsFilter
  <2>2. ASSUME NEW u \in Tasks, call'[u].pc \in Requesting
        PROVE  subs'[call'[u].slot].filter = call'[u].filter
    <3>1. CASE u # t
      BY <2>2, <3>1, InUse
    <3>2. CASE u = t
      <4>1. /\ call[t].pc \in {"populate"} \cup Requesting /\ d.slot = call[t].slot
            /\ d.filter = call[t].filter /\ Occupied(call[t].slot)
        BY <2>2, <3>2 DEF Requesting, UnsubStates
      <4>2. call[t].slot \in Slots
        BY <4>1, KnownOf DEF KnownCall, JInv
      <4>3. subs[call[t].slot].filter = call[t].filter
        BY <4>1, InUse DEF JInv, SearchHolds
      <4> QED
        BY <3>2, <4>1, <4>2, <4>3
    <3> QED
      BY <3>1, <3>2
  <2> QED
    BY <2>1, <2>2 DEF SlotKeepsFilter, Requesting
<1>5. \A u \in Tasks :
        /\ \A i : GivingUp(u, i)' <=> GivingUp(u, i)
        /\ call'[u].pc \in UnsubStates =>
             /\ call[u].pc \in UnsubStates /\ call'[u].count = call[u].count
             /\ FirstWith(call[u].filter)' = FirstWith(call[u].filter)
  <2> SUFFICES ASSUME NEW u \in Tasks
               PROVE  /\ \A i : GivingUp(u, i)' <=> GivingUp(u, i)
                      /\ call'[u].pc \in UnsubStates =>
                           /\ call[u].pc \in UnsubStates /\ call'[u].count = call[u].count
                           /\ FirstWith(call[u].filter)' = FirstWith(call[u].filter)
    OBVIOUS
  <2>1. CASE u # t
    BY <2>1, GivingUpStays
  <2>2. CASE u = t /\ d.pc \in UnsubStates
    <3>1. /\ call[t].pc \in UnsubStates /\ d.filter = call[t].filter /\ d.count = call[t].count
      BY <2>2 DEF Requesting, UnsubStates
    <3> QED
      BY <2>2, <3>1, GivingUpStays
  <2>3. CASE u = t /\ d.pc \notin UnsubStates
    <3>1. call[t].pc \in UnsubStates => call[t].count = 0
      BY <2>3 DEF Requesting, UnsubStates
    <3> QED
      BY <2>3, <3>1 DEF GivingUp
  <2> QED
    BY <2>1, <2>2, <2>3
<1>6. CountsKnown'
  BY <1>1, <1>5 DEF JInv, CountsKnown, Referred
<1> QED
  BY <1>2, <1>3, <1>4, <1>6 DEF JInv

LEMMA AlreadySubscribedJInv ==
  ASSUME JInv, IInv', NEW t \in Tasks, AlreadySubscribed(t)
  PROVE  JInv'
<1>1. /\ call[t].pc = "check" /\ call' = [call EXCEPT ![t] = Idle] /\ UNCHANGED <<tables, agent,
                                                                                  clean>>
  BY DEF AlreadySubscribed, agentState
<1>2. call'[t] = Idle /\ (\A u \in Tasks \ {t} : call'[u] = call[u]) /\ Idle.pc = "idle"
  BY <1>1, TypeFacts DEF JInv, IInv
<1>3. agent # "disconnected" /\ \A i \in Slots : ~Occupied(i) => suback[i] = "failure"
  BY <1>1, Connected DEF JInv, EmptyIsUnanswered
<1>4. call[t].pc \in Requesting
  BY <1>1 DEF Requesting
<1> QED
  BY <1>1, <1>2, <1>3, <1>4, CallGoesOn DEF tables, UnsubStates, Requesting

LEMMA PostSubscribeJInv ==
  ASSUME JInv, IInv', NEW t \in Tasks, PostSubscribe(t)
  PROVE  JInv'
<1>1. call[t].pc = "check" /\ UNCHANGED <<tables, agent, clean>>
  BY DEF PostSubscribe, agentState
<1>2. PICK d \in CallType :
        /\ call' = [call EXCEPT ![t] = d]
        /\ \/ d.pc = "idle"
           \/ d.pc = "subQueued" /\ d.slot = call[t].slot /\ d.filter = call[t].filter
  <2>1. call' \in {[call EXCEPT ![t] = [call[t] EXCEPT !.pc = "subQueued"]], [call EXCEPT ![t] = Idle]}
    BY DEF PostSubscribe
  <2> DEFINE r == [call[t] EXCEPT !.pc = "subQueued"]
  <2>2. call[t] \in CallType /\ Idle \in CallType /\ Idle.pc = "idle"
    BY KnownOf, TypeFacts DEF JInv
  <2>3. r \in CallType /\ r.pc = "subQueued" /\ r.slot = call[t].slot /\ r.filter = call[t].filter
    BY <2>2 DEF CallType, SubStates
  <2> QED
    BY <2>1, <2>2, <2>3
<1>3. call'[t] = d /\ \A u \in Tasks \ {t} : call'[u] = call[u]
  BY <1>2, TypeFacts DEF JInv, IInv
<1>4. agent # "disconnected" /\ \A i \in Slots : ~Occupied(i) => suback[i] = "failure"
  BY <1>1, Connected DEF JInv, EmptyIsUnanswered
<1>5. call[t].pc \in Requesting /\ Occupied(call[t].slot) /\ call[t].pc # "remove"
  BY <1>1, InUse DEF Requesting
<1>6. d.pc = "idle" \/ (d.pc \in Requesting /\ d.slot = call[t].slot /\ d.filter = call[t].filter)
  BY <1>2 DEF Requesting
<1> QED
  BY <1>1, <1>3, <1>4, <1>5, <1>6, CallGoesOn DEF tables

LEMMA SubscribeReturnsJInv ==
  ASSUME JInv, IInv', NEW t \in Tasks, SubscribeReturns(t)
  PROVE  JInv'
<1>1. /\ call[t].pc = "subAnswered" /\ call' = [call EXCEPT ![t] = Idle]
      /\ UNCHANGED <<subs, cbCount, callbacks, agent, clean>>
      /\ \E v : suback' = [suback EXCEPT ![call[t].slot] = v]
  BY DEF SubscribeReturns, agentState
<1>2. call'[t] = Idle /\ (\A u \in Tasks \ {t} : call'[u] = call[u]) /\ Idle.pc = "idle"
  BY <1>1, TypeFacts DEF JInv, IInv
<1>3. call[t].pc \in Requesting /\ Occupied(call[t].slot) /\ call[t].pc # "remove"
  BY <1>1, InUse DEF Requesting
<1>4. agent # "disconnected" /\ \A i \in Slots : ~Occupied(i) => suback[i] = "failure"
  BY <1>1, Connected DEF JInv, EmptyIsUnanswered
<1>5. \A i \in Slots : ~Occupied(i) => suback'[i] = "failure"
  BY <1>1, <1>3, <1>4 DEF JInv, IInv, TypeOK
<1> QED
  BY <1>1, <1>2, <1>3, <1>4, <1>5, CallGoesOn

(* The agent's part of a request.                                          *)
LEMMA RequestJInv ==
  ASSUME JInv, IInv', NEW t \in Tasks, RequestNext(t)
  PROVE  JInv'
<1>1. UNCHANGED <<tables, agent, clean>> /\ agent # "disconnected" /\ (Queued(t) \/ Sent(t))
  BY DEF RequestNext, Transmit, SubAcked, UnsubAcked, agentState, Queued, Sent
<1>2. /\ call[t] \in CallType /\ KnownCall(t, call[t])
      /\ call[t].pc \in {"subQueued", "subSent", "unsubQueued", "unsubSent"}
  BY <1>1, KnownOf DEF JInv, Queued, Sent
<1>3. PICK d :
        /\ call' = [call EXCEPT ![t] = d]
        /\ d.filter = call[t].filter /\ d.count = call[t].count /\ d.slot = call[t].slot
        /\ call[t].pc \in Requesting => d.pc \in Requesting
        /\ call[t].pc \in UnsubStates => d.pc \in UnsubStates
  <2> DEFINE packet == IF IsSubscribe(t) THEN subs[call[t].slot].filter ELSE call[t].filter
             sent == [call[t] EXCEPT !.pc = IF IsSubscribe(t) THEN "subSent" ELSE "unsubSent",
                                     !.packet = packet]
  <2>1. ASSUME NEW answer
        PROVE  LET c == Concluded(t, answer)
               IN  /\ c.filter = call[t].filter /\ c.count = call[t].count /\ c.slot = call[t].slot
                   /\ c.pc = IF IsSubscribe(t) THEN "subAnswered" ELSE "remove"
    BY <1>2 DEF Concluded, CallType
  <2>2. /\ sent.filter = call[t].filter /\ sent.count = call[t].count /\ sent.slot = call[t].slot
        /\ sent.pc = IF IsSubscribe(t) THEN "subSent" ELSE "unsubSent"
    BY <1>2 DEF CallType
  <2>3. \/ \E answer : call' = [call EXCEPT ![t] = Concluded(t, answer)]
        \/ call' = [call EXCEPT ![t] = sent]
    BY DEF RequestNext, Transmit, SubAcked, UnsubAcked
  <2>4. /\ IsSubscribe(t) <=> call[t].pc \in Requesting
        /\ ~IsSubscribe(t) <=> call[t].pc \in UnsubStates
    BY <1>2 DEF IsSubscribe, SubStates, Requesting, UnsubStates
  <2> HIDE DEF sent
  <2>5. CASE call' = [call EXCEPT ![t] = sent]
    BY <2>2, <2>4, <2>5 DEF Requesting, UnsubStates
  <2>6. CASE \E answer : call' = [call EXCEPT ![t] = Concluded(t, answer)]
    <3>1. PICK answer : call' = [call EXCEPT ![t] = Concluded(t, answer)]
      BY <2>6
    <3> QED
      BY <2>1, <2>4, <3>1 DEF Requesting, UnsubStates
  <2> QED
    BY <2>3, <2>5, <2>6
<1>4. call'[t] = d /\ \A u \in Tasks \ {t} : call'[u] = call[u]
  BY <1>3, TypeFacts DEF JInv, IInv
<1>5. \A i \in Slots : ~Occupied(i) => suback[i] = "failure"
  BY <1>1 DEF JInv, EmptyIsUnanswered
<1>6. call[t].pc \in Requesting \/ call[t].pc \in UnsubStates
  BY <1>2 DEF Requesting, UnsubStates
<1>7. call[t].pc \in Requesting => Occupied(call[t].slot)
  BY InUse
<1> QED
  BY <1>1, <1>3, <1>4, <1>5, <1>6, <1>7, CallGoesOn DEF tables

(* The agent connects for the first time, or tries to.                     *)
LEMMA ConnectJInv ==
  ASSUME JInv, IInv', ConnectFails \/ ConnectClean
  PROVE  JInv'
<1>1. agent = "disconnected" /\ CancelAll
  BY DEF ConnectFails, ConnectClean
<1>2. /\ \A t \in Tasks : call[t].pc = "idle"
      /\ \A i \in Slots : ~Occupied(i) /\ cbCount[i] = 0
      /\ \A j \in Entries : callbacks[j].sub = NoSlot
      /\ clean
  BY <1>1 DEF JInv, FirstConnection
<1>3. \A t \in Tasks : call'[t].pc = "idle"
  <2>1. \A t \in Tasks : ~Queued(t) /\ ~Sent(t)
    BY <1>2 DEF Queued, Sent
  <2> QED
    BY <1>1, <1>2, <2>1, CancelAllFacts DEF JInv
<1>4. /\ \A i \in Slots : ~Occupied(i)' /\ cbCount'[i] = 0
      /\ \A j \in Entries : callbacks'[j].sub = NoSlot
      /\ agent' # "relock" /\ (agent' = "disconnected" => clean')
      /\ EmptyIsUnanswered'
  <2>1. CASE ConnectFails
    BY <1>1, <1>2, <2>1 DEF ConnectFails, agentState, Occupied, EmptyIsUnanswered
  <2>2. CASE ConnectClean
    BY <2>2, TypeFacts DEF ConnectClean, Occupied, EmptyIsUnanswered
  <2> QED
    BY <2>1, <2>2
<1>5. FirstConnection'
  BY <1>3, <1>4 DEF FirstConnection
<1>6. OneCallback' /\ SearchHolds' /\ SlotKeepsFilter'
  BY <1>3, <1>4 DEF OneCallback, SearchHolds, SlotKeepsFilter
<1>7. CountsKnown'
  BY <1>3, <1>4, SlotFacts DEF CountsKnown, Referred, UnsubStates
<1> QED
  BY <1>4, <1>5, <1>6, <1>7 DEF JInv

LEMMA PublishJInv ==
  ASSUME JInv, IInv', IncomingPublish \/ PublishHandled \/ UNCHANGED vars
  PROVE  JInv'
<1>1. /\ UNCHANGED <<subs, suback, cbCount, callbacks, call, clean>>
      /\ agent' \in {"loop", "publish", agent} /\ (agent' = agent \/ agent # "disconnected")
  BY DEF IncomingPublish, PublishHandled, vars, tables, agentState
<1>2. FirstConnection' /\ EmptyIsUnanswered' /\ OneCallback' /\ SlotKeepsFilter' /\ SearchHolds'
  BY <1>1 DEF JInv, FirstConnection, EmptyIsUnanswered, OneCallback, SearchHolds,
     SlotKeepsFilter, Occupied
<1>3. CountsKnown'
  <2>1. \A u \in Tasks :
          /\ \A i : GivingUp(u, i)' <=> GivingUp(u, i)
          /\ call[u].pc \in UnsubStates => FirstWith(call[u].filter)' = FirstWith(call[u].filter)
    BY <1>1, GivingUpStays
  <2> QED
    BY <1>1, <2>1 DEF JInv, CountsKnown, Referred, Occupied
<1> QED
  BY <1>2, <1>3 DEF JInv

LEMMA AgentJInv ==
  ASSUME OneSession, JInv, IInv', AgentNext
  PROVE  JInv'
<1>1. ~ConnectResumed /\ ~ConnectNoSession /\ ~Relock
  BY DEF ConnectResumed, ConnectNoSession, Relock, JInv, FirstConnection
<1>2. ~ConnectionLost
  <2>1. losses \in 0 .. 0
    BY DEF OneSession, JInv, IInv, TypeOK
  <2>2. ~(losses < MaxLosses)
    BY <2>1 DEF OneSession
  <2> QED
    BY <2>2 DEF ConnectionLost
<1> QED
  BY <1>1, <1>2, ConnectJInv, PublishJInv DEF AgentNext

(* The search finds the slot of the filter, or an empty one.               *)
LEMMA SearchFinds ==
  ASSUME OneSession, JInv, NEW t \in Tasks, NEW f \in Uses[t], TargetSlot(f) \in Slots
  PROVE  Occupied(TargetSlot(f)) => subs[TargetSlot(f)].filter = f
<1>1. f \in Filters
  BY TypeFacts
<1>2. ASSUME Occupied(TargetSlot(f))
      PROVE  subs[TargetSlot(f)].filter = f
  <2>1. /\ MatchingSlot(f) # NoSlot => MatchingSlot(f) \in Slots /\ SlotMatches(MatchingSlot(f), f)
        /\ FirstEmptySlot # NoSlot => FirstEmptySlot \in Slots /\ ~Occupied(FirstEmptySlot)
    BY TargetSlotFacts
  <2>2. TargetSlot(f) = MatchingSlot(f) /\ MatchingSlot(f) # NoSlot
    BY <1>2, <2>1, SlotFacts DEF TargetSlot
  <2>3. <<subs[TargetSlot(f)].filter, f>> \in Prefix
    BY <1>2, <2>1, <2>2 DEF SlotMatches
  <2>4. subs[TargetSlot(f)].filter \in Filters
    BY <1>2, TypeFacts DEF Occupied, JInv, IInv, SubType
  <2> QED
    BY <1>1, <2>3, <2>4 DEF OneSession
<1> QED
  BY <1>2

LEMMA SubscribeJInv ==
  ASSUME OneSession, JInv, IInv', NEW t \in Tasks, NEW f \in Uses[t], NEW q \in QoS,
         Subscribe(t, f, q)
  PROVE  JInv'
<1> DEFINE s == TargetSlot(f)
           e == IF s = NoSlot THEN 0 ELSE TargetEntry(t, s)
           c == [Idle EXCEPT !.pc = "populate", !.filter = f, !.qos = RequestedQoS(f, q),
                             !.slot = s, !.entry = e]
<1>1. /\ call[t].pc = "idle" /\ mutex = NoTask /\ UNCHANGED <<subs, cbCount, callbacks, agent,
                                                              clean>>
      /\ suback' = [i \in Slots |-> IF i \in ResetBySearch(f, q) THEN "failure" ELSE suback[i]]
  BY TypeFacts DEF Subscribe, agentState
<1>2. agent # "disconnected" /\ \A i \in Slots : ~Occupied(i) => suback[i] = "failure"
  BY <1>1, Connected DEF JInv, EmptyIsUnanswered
<1>3. FirstConnection' /\ EmptyIsUnanswered' /\ OneCallback'
  BY <1>1, <1>2 DEF JInv, FirstConnection, EmptyIsUnanswered, OneCallback, Occupied
<1>4. PICK d :
        /\ call'[t] = d /\ \A u \in Tasks \ {t} : call'[u] = call[u]
        /\ \/ d.pc = "idle"
           \/ /\ d.pc = "populate" /\ d.filter = f /\ d.slot = s /\ d.entry = e /\ e # 0
              /\ s \in Slots /\ e = TargetEntry(t, s)
  <2>1. CASE e = 0
    BY <1>1, <2>1 DEF Subscribe
  <2>2. CASE e # 0
    <3>1. call' = [call EXCEPT ![t] = c] /\ s \in Slots /\ e = TargetEntry(t, s)
      BY <2>2, TargetSlotFacts DEF Subscribe
    <3>2. c.pc = "populate" /\ c.filter = f /\ c.slot = s /\ c.entry = e
      BY DEF Idle
    <3> HIDE DEF c, s, e
    <3>3. call'[t] = c /\ \A u \in Tasks \ {t} : call'[u] = call[u]
      BY <3>1, TypeFacts DEF JInv, IInv
    <3> QED
      BY <2>2, <3>1, <3>2, <3>3
  <2> QED
    BY <2>1, <2>2
<1>5. \A u \in Tasks : call[u].pc # "populate"
  BY <1>1, TypeFacts DEF JInv, IInv, LockDiscipline
<1> HIDE DEF s, e, c
<1>6. SearchHolds'
  <2> SUFFICES ASSUME d.pc = "populate"
               PROVE  /\ Occupied(s) => subs[s].filter = f
                      /\ \A j \in Entries : callbacks[j].sub = s => j = e
                      /\ callbacks[e].sub # NoSlot => callbacks[e].sub = s
    BY <1>1, <1>4, <1>5 DEF SearchHolds, Occupied
  <2>1. s \in Slots /\ e = TargetEntry(t, s) /\ e # 0
    BY <1>4
  <2>2. Occupied(s) => subs[s].filter = f
    BY <2>1, SearchFinds DEF s
  <2>3. /\ e \in Entries
        /\ \/ EntryMatches(e, t, s)
           \/ callbacks[e].sub = NoSlot /\ \A j \in Entries : ~EntryMatches(j, t, s)
    BY <2>1, TargetEntryFacts DEF JInv
  <2>4. ASSUME NEW j \in Entries, callbacks[j].sub = s
        PROVE  j = e
    <3>1. callbacks[j].sub # NoSlot
      BY <2>1, <2>4, SlotFacts
    <3>2. callbacks[j].asked = f
      BY <2>2, <2>4, <3>1, InUse
    <3>3. callbacks[j].task \in Tasks /\ f \in Uses[callbacks[j].task]
      BY <3>1, <3>2 DEF JInv, OneCallback
    <3>4. callbacks[j].task = t
      BY <3>3, OneClient
    <3>5. EntryMatches(e, t, s)
      BY <2>3, <2>4, <3>4 DEF EntryMatches
    <3> QED
      BY <2>3, <2>4, <3>1, <3>5 DEF EntryMatches, JInv, OneCallback
  <2> QED
    BY <2>2, <2>3, <2>4 DEF EntryMatches
<1>7. SlotKeepsFilter'
  <2>1. \A u \in Tasks : call'[u].pc \in Requesting => call'[u] = call[u]
    BY <1>4 DEF Requesting
  <2> QED
    BY <1>1, <2>1 DEF JInv, SlotKeepsFilter, Requesting
<1>8. CountsKnown'
  <2>1. \A u \in Tasks : (call'[u].pc \in UnsubStates) <=> (call[u].pc \in UnsubStates)
    BY <1>1, <1>4 DEF UnsubStates
  <2>2. \A u \in Tasks : call[u].pc \in UnsubStates => call'[u] = call[u]
    BY <1>1, <1>4 DEF UnsubStates
  <2>3. \A u \in Tasks :
          /\ \A i : GivingUp(u, i)' <=> GivingUp(u, i)
          /\ call[u].pc \in UnsubStates => FirstWith(call[u].filter)' = FirstWith(call[u].filter)
    BY <1>1, <2>1, <2>2, GivingUpStays
  <2> QED
    BY <1>1, <2>1, <2>2, <2>3 DEF JInv, CountsKnown, Referred, Occupied
<1> QED
  BY <1>3, <1>6, <1>7, <1>8 DEF JInv

(* The slot was empty: the client's callback is now alone on it.           *)
LEMMA SlotTaken ==
  ASSUME OneSession, JInv, IInv', NEW t \in Tasks, call[t].pc = "populate", mutex = t,
         ~Occupied(call[t].slot), callbacks[call[t].entry].sub = NoSlot,
         \A i \in Slots : subs'[i].filter =
           IF i = call[t].slot THEN call[t].filter ELSE subs[i].filter,
         callbacks' = [callbacks EXCEPT ![call[t].entry] =
                        [task |-> t, sub |-> call[t].slot, asked |-> call[t].filter]],
         cbCount' = [cbCount EXCEPT ![call[t].slot] = @ + 1],
         NEW d, call'[t] = d, \A u \in Tasks \ {t} : call'[u] = call[u],
         d.pc = "check", d.slot = call[t].slot, d.filter = call[t].filter,
         UNCHANGED <<suback, agent, clean>>
  PROVE  JInv'
<1>0. PICK s, e, f : s = call[t].slot /\ e = call[t].entry /\ f = call[t].filter
  OBVIOUS
<1> DEFINE r == [task |-> t, sub |-> s, asked |-> f]
<1>1. s \in Slots /\ e \in Entries /\ f \in Uses[t] /\ f \in Filters /\ f # NoFilter /\ s # NoSlot
  BY <1>0, KnownOf, TypeFacts, SlotFacts DEF KnownCall, JInv
<1>2. r.task = t /\ r.sub = s /\ r.asked = f
  OBVIOUS
<1>3. callbacks'[e] = r /\ \A j \in Entries \ {e} : callbacks'[j] = callbacks[j]
  BY <1>0, <1>1, TypeFacts DEF JInv, IInv
<1>4. \A j \in Entries : callbacks[j].sub # s
  BY <1>0, <1>1, InUse
<1>5. agent # "disconnected" /\ \A u \in Tasks \ {t} : call[u].pc # "populate"
  BY Connected DEF JInv, IInv, LockDiscipline
<1>6. subs'[s].filter = f /\ \A i \in Slots \ {s} : subs'[i].filter = subs[i].filter
  BY <1>0, <1>1
<1>7. cbCount'[s] = cbCount[s] + 1 /\ \A i \in Slots \ {s} : cbCount'[i] = cbCount[i]
  BY <1>0, <1>1 DEF JInv, IInv, TypeOK
<1>8. ~Occupied(s)
  BY <1>0
<1>9. d.pc = "check" /\ d.slot = s /\ d.filter = f
  BY <1>0
<1> HIDE DEF r
<1>10. FirstConnection'
  BY <1>5 DEF JInv, FirstConnection
<1>11. EmptyIsUnanswered'
  BY <1>1, <1>5, <1>6 DEF JInv, EmptyIsUnanswered, Occupied
<1>12. OneCallback'
  <2>1. \A j \in Entries : callbacks'[j].sub # NoSlot =>
          callbacks'[j].task \in Tasks /\ callbacks'[j].asked \in Uses[callbacks'[j].task]
    BY <1>1, <1>2, <1>3 DEF JInv, OneCallback
  <2>2. \A j, k \in Entries :
          callbacks'[j].sub # NoSlot /\ callbacks'[j].sub = callbacks'[k].sub => j = k
    BY <1>1, <1>2, <1>3, <1>4 DEF JInv, OneCallback
  <2> QED
    BY <2>1, <2>2 DEF OneCallback
<1>13. SearchHolds'
  BY <1>5, <1>9 DEF SearchHolds
<1>14. SlotKeepsFilter'
  <2>1. ASSUME NEW j \in Entries, callbacks'[j].sub # NoSlot
        PROVE  subs'[callbacks'[j].sub].filter = callbacks'[j].asked
    <3>1. CASE j = e
      BY <1>2, <1>3, <1>6, <3>1
    <3>2. CASE j # e
      BY <1>3, <1>4, <1>6, <2>1, <3>2, InUse
    <3> QED
      BY <3>1, <3>2
  <2>2. ASSUME NEW u \in Tasks, call'[u].pc \in Requesting
        PROVE  subs'[call'[u].slot].filter = call'[u].filter
    <3>1. CASE u = t
      BY <1>6, <1>9, <3>1
    <3>2. CASE u # t
      BY <1>6, <1>8, <2>2, <3>2, InUse
    <3> QED
      BY <3>1, <3>2
  <2> QED
    BY <2>1, <2>2 DEF SlotKeepsFilter, Requesting
<1>15. ASSUME NEW u \in Tasks
       PROVE  /\ (call'[u].pc \in UnsubStates) <=> (call[u].pc \in UnsubStates)
              /\ call[u].pc \in UnsubStates => call'[u] = call[u] /\ call[u].filter # f
                                               /\ call[u].filter \in Filters
  <2>1. CASE u = t
    BY <1>9, <2>1 DEF UnsubStates
  <2>2. CASE u # t
    BY <1>1, <2>2, InUse, OneClient
  <2> QED
    BY <2>1, <2>2
<1>16. ASSUME NEW u \in Tasks
       PROVE  /\ \A i : GivingUp(u, i)' <=> GivingUp(u, i)
              /\ call[u].pc \in UnsubStates => FirstWith(call[u].filter)' = FirstWith(call[u].filter)
  <2>1. ASSUME call[u].pc \in UnsubStates, NEW k \in Slots
        PROVE  (subs'[k].filter = call[u].filter) <=> (subs[k].filter = call[u].filter)
    BY <1>6, <1>8, <1>15, <2>1, TypeFacts DEF Occupied
  <2> QED
    BY <1>15, <2>1, GivingUpStays
<1>17. \A u \in Tasks : ~GivingUp(u, s)
  BY <1>1, <1>8, <1>15, FirstWithFacts, TypeFacts DEF GivingUp, Occupied
<1>18. /\ Referred(s)' /\ ~Referred(s)
       /\ \A i \in Slots \ {s} : (Referred(i)' <=> Referred(i)) /\ (Occupied(i)' <=> Occupied(i))
  <2>1. Referred(s)' /\ ~Referred(s)
    BY <1>1, <1>2, <1>3, <1>4 DEF Referred
  <2>2. callbacks[e].sub = NoSlot
    BY <1>0
  <2>3. \A i \in Slots \ {s}, j \in Entries : (callbacks'[j].sub = i) <=> (callbacks[j].sub = i)
    BY <1>2, <1>3, <2>2, SlotFacts
  <2> QED
    BY <1>6, <2>1, <2>3 DEF Referred, Occupied
<1>19. CountsKnown'
  <2>1. \A i \in Slots : Occupied(i)' => Referred(i)'
    BY <1>18 DEF JInv, CountsKnown
  <2>2. ASSUME NEW i \in Slots
        PROVE  cbCount'[i] =
                 IF Referred(i)' /\ ~(\E u \in Tasks : GivingUp(u, i)') THEN 1 ELSE 0
    <3>1. cbCount[i] = IF Referred(i) /\ ~(\E u \in Tasks : GivingUp(u, i)) THEN 1 ELSE 0
      BY DEF JInv, CountsKnown
    <3>2. CASE i = s
      BY <1>7, <1>16, <1>17, <1>18, <3>1, <3>2
    <3>3. CASE i # s
      BY <1>7, <1>16, <1>18, <3>1, <3>3
    <3> QED
      BY <3>2, <3>3
  <2>3. \A u \in Tasks : call'[u].pc \in UnsubStates =>
          /\ call'[u].count \in {0, 1}
          /\ call'[u].count = 0 => FirstWith(call[u].filter)' = NoSlot
          /\ call'[u].count = 1 => FirstWith(call[u].filter)' # NoSlot
    BY <1>15, <1>16 DEF JInv, CountsKnown
  <2> QED
    BY <2>1, <2>2, <2>3 DEF CountsKnown
<1> QED
  BY <1>10, <1>11, <1>12, <1>13, <1>14, <1>19 DEF JInv

LEMMA PopulateJInv ==
  ASSUME OneSession, JInv, IInv', NEW t \in Tasks, Populate(t)
  PROVE  JInv'
<1> DEFINE c == call[t]
           request == suback[c.slot] = "failure"
           new == request /\ ~Occupied(c.slot)
           checking == [c EXCEPT !.pc = "check", !.qos = 0, !.entry = 0]
<1>1. /\ c.pc = "populate" /\ c \in CallType /\ KnownCall(t, c) /\ mutex = t
      /\ UNCHANGED <<suback, agent, clean>>
  BY KnownOf DEF Populate, agentState, JInv, IInv, LockDiscipline
<1>2. c.slot \in Slots /\ c.entry \in Entries /\ c.slot # NoSlot
  BY <1>1, SlotFacts DEF KnownCall
<1>3. agent # "disconnected" /\ \A i \in Slots : ~Occupied(i) => suback[i] = "failure"
  BY <1>1, Connected DEF JInv, EmptyIsUnanswered
<1>4. new <=> ~Occupied(c.slot)
  BY <1>2, <1>3
<1>5. PICK allocated \in BOOLEAN :
       LET ok == ~new \/ allocated
           register == ok /\ callbacks[c.entry].sub = NoSlot
       IN
       /\ subs' = IF ~request THEN subs
                  ELSE [subs EXCEPT ![c.slot] =
                         [filter |-> IF new /\ allocated THEN c.filter ELSE @.filter,
                          qos |-> c.qos]]
       /\ IF register
            THEN /\ callbacks' = [callbacks EXCEPT ![c.entry] =
                                   [task |-> t, sub |-> c.slot, asked |-> c.filter]]
                 /\ cbCount' = [cbCount EXCEPT ![c.slot] = @ + 1]
            ELSE UNCHANGED <<callbacks, cbCount>>
       /\ call' = [call EXCEPT ![t] = IF ~ok THEN Idle ELSE checking]
  BY DEF Populate
<1>6. checking.pc = "check" /\ checking.slot = c.slot /\ checking.filter = c.filter
  BY <1>1 DEF CallType
<1>7. \A i \in Slots : subs'[i].filter =
         IF new /\ allocated /\ i = c.slot THEN c.filter ELSE subs[i].filter
  <2>1. subs \in [Slots -> SubType]
    BY TypeFacts DEF JInv, IInv
  <2> HIDE DEF c
  <2> QED
    BY <1>2, <1>5, <2>1 DEF SubType
<1>8. /\ Occupied(c.slot) => callbacks[c.entry].sub # NoSlot
      /\ ~Occupied(c.slot) => callbacks[c.entry].sub = NoSlot
  <2>1. Occupied(c.slot) => Referred(c.slot)
    BY <1>2 DEF JInv, CountsKnown
  <2>2. /\ \A j \in Entries : callbacks[j].sub = c.slot => j = c.entry
        /\ callbacks[c.entry].sub # NoSlot => callbacks[c.entry].sub = c.slot
    BY <1>1 DEF JInv, SearchHolds
  <2> QED
    BY <1>2, <2>1, <2>2, InUse DEF Referred
<1>9. PICK d : /\ call'[t] = d /\ (\A u \in Tasks \ {t} : call'[u] = call[u])
               /\ d = IF ~new \/ allocated THEN checking ELSE Idle
  <2> HIDE DEF c, new, checking
  <2> QED
    BY <1>5, TypeFacts DEF JInv, IInv
<1>10. CASE Occupied(c.slot)
  <2>1. d.pc \in Requesting /\ d.slot = call[t].slot /\ d.filter = call[t].filter
    BY <1>4, <1>6, <1>9, <1>10 DEF Requesting
  <2>2. UNCHANGED <<callbacks, cbCount>> /\ \A i \in Slots : subs'[i].filter = subs[i].filter
    BY <1>4, <1>5, <1>7, <1>8, <1>10
  <2> QED
    BY <1>1, <1>3, <1>9, <1>10, <2>1, <2>2, CallGoesOn
<1>11. CASE ~Occupied(c.slot) /\ ~allocated
  <2>1. d.pc = "idle"
    BY <1>4, <1>9, <1>11, TypeFacts
  <2>2. UNCHANGED <<callbacks, cbCount>> /\ \A i \in Slots : subs'[i].filter = subs[i].filter
    BY <1>4, <1>5, <1>7, <1>11
  <2> QED
    BY <1>1, <1>3, <1>9, <2>1, <2>2, CallGoesOn
<1>12. CASE ~Occupied(c.slot) /\ allocated
  <2>1. d.pc = "check" /\ d.slot = call[t].slot /\ d.filter = call[t].filter
    BY <1>6, <1>9, <1>12
  <2>2. /\ callbacks[call[t].entry].sub = NoSlot
        /\ callbacks' = [callbacks EXCEPT ![call[t].entry] =
                          [task |-> t, sub |-> call[t].slot, asked |-> call[t].filter]]
        /\ cbCount' = [cbCount EXCEPT ![call[t].slot] = @ + 1]
    BY <1>5, <1>8, <1>12
  <2>3. \A i \in Slots : subs'[i].filter =
          IF i = call[t].slot THEN call[t].filter ELSE subs[i].filter
    BY <1>4, <1>7, <1>12
  <2>4. call[t].pc = "populate" /\ mutex = t /\ ~Occupied(call[t].slot)
    BY <1>1, <1>12
  <2> HIDE DEF c, request, new, checking
  <2> QED
    BY <1>1, <1>9, <2>1, <2>2, <2>3, <2>4, SlotTaken
<1> QED
  BY <1>10, <1>11, <1>12

LEMMA UnsubscribeJInv ==
  ASSUME OneSession, JInv, IInv', NEW t \in Tasks, NEW f \in Uses[t], Unsubscribe(t, f)
  PROVE  JInv'
<1>1. PICK s, n :
        /\ s = FirstWith(f) /\ n = IF s = NoSlot THEN 0 ELSE cbCount[s]
        /\ call[t] = Idle /\ mutex = NoTask
        /\ cbCount' = IF n = 0 THEN cbCount ELSE [cbCount EXCEPT ![s] = n - 1]
        /\ \E pc \in {"unsubQueued", "remove"} :
             call' = [call EXCEPT ![t] = [Idle EXCEPT !.pc = pc, !.filter = f, !.count = n]]
        /\ UNCHANGED <<subs, suback, callbacks, agent, clean>>
  BY DEF Unsubscribe, FirstWith, agentState
<1>2. PICK d : /\ call'[t] = d /\ \A u \in Tasks \ {t} : call'[u] = call[u]
               /\ d.pc \in {"unsubQueued", "remove"} /\ d.filter = f /\ d.count = n
  <2>1. PICK pc \in {"unsubQueued", "remove"} :
          call' = [call EXCEPT ![t] = [Idle EXCEPT !.pc = pc, !.filter = f, !.count = n]]
    BY <1>1
  <2> DEFINE r == [Idle EXCEPT !.pc = pc, !.filter = f, !.count = n]
  <2>2. r.pc = pc /\ r.filter = f /\ r.count = n
    BY DEF Idle
  <2> HIDE DEF r
  <2>3. call'[t] = r /\ \A u \in Tasks \ {t} : call'[u] = call[u]
    BY <2>1, TypeFacts DEF JInv, IInv, r
  <2> QED
    BY <2>2, <2>3
<1>3. call[t].pc = "idle" /\ f \in Filters /\ f # NoFilter /\ d.pc \in UnsubStates
  BY <1>1, <1>2, TypeFacts DEF UnsubStates
<1>4. agent # "disconnected" /\ \A u \in Tasks : call[u].pc # "populate" /\ call'[u].pc # "populate"
  BY <1>1, <1>2, Connected, TypeFacts DEF JInv, IInv, LockDiscipline
<1>5. /\ s # NoSlot => s \in Slots /\ subs[s].filter = f
      /\ \A g : FirstWith(g)' = FirstWith(g)
      /\ \A i : Occupied(i)' <=> Occupied(i)
  BY <1>1, FirstWithFacts DEF FirstWith, Occupied
<1>6. s # NoSlot => Referred(s) /\ n = 1 /\ \A u \in Tasks : ~GivingUp(u, s)
  <2>1. ASSUME s # NoSlot
        PROVE  Referred(s)
    BY <1>3, <1>5, <2>1 DEF JInv, CountsKnown, Occupied
  <2>2. ASSUME s # NoSlot, NEW u \in Tasks, GivingUp(u, s)
        PROVE  FALSE
    <3>1. call[u].pc \in UnsubStates /\ s = FirstWith(call[u].filter)
      BY <2>2 DEF GivingUp
    <3>2. call[u].filter = f /\ f \in Uses[u]
      BY <1>5, <2>2, <3>1, FirstWithFacts, InUse
    <3>3. u = t
      BY <3>2, OneClient
    <3> QED
      BY <1>3, <3>1, <3>3 DEF UnsubStates
  <2>3. ASSUME s # NoSlot
        PROVE  n = 1
    BY <1>1, <1>5, <2>1, <2>2, <2>3 DEF JInv, CountsKnown
  <2> QED
    BY <2>1, <2>2, <2>3
<1>7. FirstConnection' /\ EmptyIsUnanswered' /\ OneCallback' /\ SearchHolds'
  BY <1>1, <1>4, <1>5
     DEF JInv, FirstConnection, EmptyIsUnanswered, OneCallback, SearchHolds
<1>8. SlotKeepsFilter'
  <2>1. \A u \in Tasks : call'[u].pc \in Requesting => call'[u] = call[u]
    BY <1>2 DEF Requesting
  <2> QED
    BY <1>1, <2>1 DEF JInv, SlotKeepsFilter, Requesting
<1>9. /\ \A u \in Tasks \ {t}, i \in Slots : GivingUp(u, i)' <=> GivingUp(u, i)
      /\ \A i \in Slots : ~GivingUp(t, i) /\ (GivingUp(t, i)' <=> (i = s /\ n > 0))
  <2>1. \A u \in Tasks \ {t}, i \in Slots : GivingUp(u, i)' <=> GivingUp(u, i)
    BY <1>2, <1>5 DEF GivingUp
  <2>2. \A i \in Slots : ~GivingUp(t, i)
    BY <1>3 DEF GivingUp, UnsubStates
  <2>3. FirstWith(call[t].filter)' = s
    BY <1>1, <1>2, <1>5
  <2> QED
    BY <1>2, <1>3, <2>1, <2>2, <2>3 DEF GivingUp
<1>10. CountsKnown'
  <2>1. \A i : Referred(i)' <=> Referred(i)
    BY <1>1 DEF Referred
  <2>2. ASSUME NEW i \in Slots
        PROVE  cbCount'[i] =
                 IF Referred(i)' /\ ~(\E u \in Tasks : GivingUp(u, i)') THEN 1 ELSE 0
    <3>1. cbCount[i] = IF Referred(i) /\ ~(\E u \in Tasks : GivingUp(u, i)) THEN 1 ELSE 0
      BY DEF JInv, CountsKnown
    <3>2. CASE i = s
      <4>1. s # NoSlot /\ n = 1 /\ n > 0 /\ n - 1 = 0
        BY <1>6, <3>2, SlotFacts
      <4>2. GivingUp(t, i)'
        BY <1>9, <3>2, <4>1
      <4>3. cbCount'[i] = 0
        BY <1>1, <3>2, <4>1 DEF JInv, IInv, TypeOK
      <4> QED
        BY <4>2, <4>3
    <3>3. CASE i # s
      <4>1. cbCount'[i] = cbCount[i]
        BY <1>1, <3>3 DEF JInv, IInv, TypeOK
      <4>2. \A u \in Tasks : GivingUp(u, i)' <=> GivingUp(u, i)
        BY <1>9, <3>3
      <4> QED
        BY <2>1, <3>1, <4>1, <4>2
    <3> QED
      BY <3>2, <3>3
  <2>3. ASSUME NEW u \in Tasks, call'[u].pc \in UnsubStates
        PROVE  /\ call'[u].count \in {0, 1}
               /\ call'[u].count = 0 => FirstWith(call[u].filter)' = NoSlot
               /\ call'[u].count = 1 => FirstWith(call[u].filter)' # NoSlot
    <3>1. CASE u # t
      BY <1>2, <1>5, <2>3, <3>1 DEF JInv, CountsKnown
    <3>2. CASE u = t
      <4>1. FirstWith(call[u].filter)' = s /\ call'[u].count = n
        BY <1>1, <1>2, <1>5, <3>2
      <4>2. (s = NoSlot => n = 0) /\ (s # NoSlot => n = 1)
        BY <1>1, <1>6
      <4> QED
        BY <4>1, <4>2
    <3> QED
      BY <3>1, <3>2
  <2> QED
    BY <1>5, <2>1, <2>2, <2>3 DEF JInv, CountsKnown
<1> QED
  BY <1>7, <1>8, <1>10 DEF JInv

(* prvCompressCallbackList loses no entry.                                 *)
LEMMA NothingLost ==
  ASSUME NEW cbs \in [Entries -> CbType], NEW j \in Entries, cbs[j].sub # NoSlot
  PROVE  \E k \in Entries : CompressedCallbacks(cbs)[k] = cbs[j]
<1>1. PICK used : used = {i \in Entries : cbs[i].sub # NoSlot}
  OBVIOUS
<1>2. /\ used \in SUBSET Entries /\ j \in used /\ IsFiniteSet(used) /\ used \subseteq Nat
      /\ Cardinality(used) \in Nat /\ Cardinality(used) <= MaxCallbacks /\ MaxCallbacks \in Nat
  BY <1>1, EntryFacts, SizesAssumption
<1>3. PICK k : k = PlaceIn(used, j)
  OBVIOUS
<1>4. k \in 1 .. Cardinality(used) /\ k \in Entries /\ k <= Cardinality(used)
  <2>1. k \in 1 .. Cardinality(used)
    BY <1>2, <1>3, PlaceFacts
  <2> QED
    BY <1>2, <2>1 DEF Entries
<1>5. ElementAt(used, k) \in used /\ PlaceIn(used, ElementAt(used, k)) = k
  BY <1>2, <1>4, ElementFacts
<1>6. PICK i \in used : i = ElementAt(used, k) /\ PlaceIn(used, i) = k
  BY <1>5
<1>7. i = j
  <2>1. (i < j => PlaceIn(used, i) < PlaceIn(used, j)) /\ (j < i => PlaceIn(used, j) < PlaceIn(used, i))
    BY <1>2, PlaceFacts
  <2>2. i \in Nat /\ j \in Nat /\ k \in Nat
    BY <1>2, <1>4
  <2> QED
    BY <1>3, <1>6, <2>1, <2>2
<1>8. CompressedCallbacks(cbs)[k] = cbs[ElementAt(used, k)]
  BY <1>1, <1>4 DEF CompressedCallbacks
<1> QED
  BY <1>4, <1>6, <1>7, <1>8

(* The client removes its callback, and the slot is free.                  *)
LEMMA SlotFreed ==
  ASSUME OneSession, JInv, IInv', NEW t \in Tasks, call[t].pc = "remove", mutex = NoTask,
         NEW s \in Slots, s = FirstWith(call[t].filter), cbCount[s] = 0,
         NEW e \in Entries, callbacks[e].sub = s,
         callbacks' = CompressedCallbacks([callbacks EXCEPT ![e] = EmptyCb]),
         subs' = [subs EXCEPT ![s] = EmptySub], suback' = [suback EXCEPT ![s] = "failure"],
         call' = [call EXCEPT ![t] = Idle], UNCHANGED <<cbCount, agent, clean>>
  PROVE  JInv'
<1>1. PICK cbs \in [Entries -> CbType] :
        /\ callbacks' = CompressedCallbacks(cbs)
        /\ cbs[e].sub = NoSlot /\ \A j \in Entries \ {e} : cbs[j] = callbacks[j]
  <2> DEFINE cleared == [callbacks EXCEPT ![e] = EmptyCb]
  <2>1. /\ cleared \in [Entries -> CbType] /\ cleared[e].sub = NoSlot
        /\ \A j \in Entries \ {e} : cleared[j] = callbacks[j]
    BY TypeFacts DEF JInv, IInv
  <2> QED
    BY <2>1
<1>2. /\ call'[t].pc = "idle" /\ \A u \in Tasks \ {t} : call'[u] = call[u]
      /\ subs'[s].filter = NoFilter /\ \A i \in Slots \ {s} : subs'[i].filter = subs[i].filter
      /\ suback'[s] = "failure" /\ \A i \in Slots \ {s} : suback'[i] = suback[i]
  BY TypeFacts DEF JInv, IInv, TypeOK
<1>3. agent # "disconnected" /\ \A u \in Tasks : call[u].pc # "populate" /\ call'[u].pc # "populate"
  BY <1>2, Connected, TypeFacts DEF JInv, IInv, LockDiscipline
<1>4. PICK f : /\ f = call[t].filter /\ f \in Uses[t] /\ f \in Filters /\ f # NoFilter
               /\ subs[s].filter = f
  BY InUse, FirstWithFacts, SlotFacts, TypeFacts DEF UnsubStates
<1>5. \A u \in Tasks \ {t} : call[u].pc \in Requesting \cup UnsubStates =>
        call[u].filter # f /\ call[u].filter \in Filters
  BY <1>4, InUse, OneClient
<1>6. ASSUME NEW k \in Entries, callbacks'[k].sub # NoSlot
      PROVE  \E j \in Entries : /\ j # e /\ callbacks'[k] = callbacks[j]
                                /\ PlaceIn({i \in Entries : cbs[i].sub # NoSlot}, j) = k
  <2>1. PICK j \in Entries : /\ cbs[j].sub # NoSlot /\ callbacks'[k] = cbs[j]
                             /\ PlaceIn({i \in Entries : cbs[i].sub # NoSlot}, j) = k
    <3>1. \/ \E j \in {i \in Entries : cbs[i].sub # NoSlot} :
               /\ CompressedCallbacks(cbs)[k] = cbs[j]
               /\ PlaceIn({i \in Entries : cbs[i].sub # NoSlot}, j) = k
          \/ CompressedCallbacks(cbs)[k] = EmptyCb
      BY CompressedCallbacksFacts
    <3>2. CompressedCallbacks(cbs)[k] # EmptyCb
      BY <1>1, <1>6, TypeFacts
    <3> QED
      BY <1>1, <3>1, <3>2
  <2> QED
    BY <1>1, <2>1
<1>7. ASSUME NEW j \in Entries, j # e, callbacks[j].sub # NoSlot
      PROVE  \E k \in Entries : callbacks'[k] = callbacks[j]
  BY <1>1, <1>7, NothingLost
<1>8. \A j \in Entries : callbacks[j].sub = s => j = e
  BY SlotFacts DEF JInv, OneCallback
<1>9. \A i \in Slots : Referred(i)' <=> (Referred(i) /\ i # s)
  <2>1. ASSUME NEW i \in Slots, NEW k \in Entries, callbacks'[k].sub = i
        PROVE  Referred(i) /\ i # s
    BY <1>6, <1>8, <2>1, SlotFacts DEF Referred
  <2>2. ASSUME NEW i \in Slots, NEW j \in Entries, callbacks[j].sub = i, i # s
        PROVE  \E k \in Entries : callbacks'[k].sub = i
    BY <1>7, <2>2, SlotFacts
  <2> QED
    BY <2>1, <2>2 DEF Referred
<1>10. FirstConnection' /\ SearchHolds'
  BY <1>3 DEF JInv, FirstConnection, SearchHolds
<1>11. EmptyIsUnanswered'
  BY <1>2, <1>3 DEF JInv, EmptyIsUnanswered, Occupied
<1>12. OneCallback'
  <2>1. ASSUME NEW k \in Entries, callbacks'[k].sub # NoSlot
        PROVE  callbacks'[k].task \in Tasks /\ callbacks'[k].asked \in Uses[callbacks'[k].task]
    <3>1. PICK j \in Entries : callbacks'[k] = callbacks[j]
      BY <1>6, <2>1
    <3> QED
      BY <2>1, <3>1 DEF JInv, OneCallback
  <2>2. ASSUME NEW k \in Entries, NEW l \in Entries, callbacks'[k].sub # NoSlot,
               callbacks'[k].sub = callbacks'[l].sub
        PROVE  k = l
    <3>1. PICK i \in Entries : /\ callbacks'[k] = callbacks[i]
                               /\ PlaceIn({m \in Entries : cbs[m].sub # NoSlot}, i) = k
      BY <1>6, <2>2
    <3>2. PICK j \in Entries : /\ callbacks'[l] = callbacks[j]
                               /\ PlaceIn({m \in Entries : cbs[m].sub # NoSlot}, j) = l
      BY <1>6, <2>2
    <3>3. i = j
      BY <2>2, <3>1, <3>2 DEF JInv, OneCallback
    <3> QED
      BY <3>1, <3>2, <3>3
  <2> QED
    BY <2>1, <2>2 DEF OneCallback
<1>13. SlotKeepsFilter'
  <2>1. ASSUME NEW k \in Entries, callbacks'[k].sub # NoSlot
        PROVE  subs'[callbacks'[k].sub].filter = callbacks'[k].asked
    <3>1. PICK j \in Entries : j # e /\ callbacks'[k] = callbacks[j]
      BY <1>6, <2>1
    <3>2. callbacks[j].sub \in Slots \ {s} /\ callbacks[j].asked = subs[callbacks[j].sub].filter
      BY <1>8, <2>1, <3>1, InUse
    <3> QED
      BY <1>2, <3>1, <3>2
  <2>2. ASSUME NEW u \in Tasks, call'[u].pc \in Requesting
        PROVE  subs'[call'[u].slot].filter = call'[u].filter
    <3>1. u # t /\ call'[u] = call[u]
      BY <1>2, <2>2 DEF Requesting
    <3>2. call[u].slot \in Slots /\ subs[call[u].slot].filter = call[u].filter /\ call[u].filter # f
      BY <1>5, <2>2, <3>1, InUse
    <3> QED
      BY <1>2, <1>4, <3>1, <3>2
  <2> QED
    BY <2>1, <2>2 DEF SlotKeepsFilter, Requesting
<1>14. ASSUME NEW u \in Tasks, u # t
       PROVE  /\ \A i : GivingUp(u, i)' <=> GivingUp(u, i)
              /\ call[u].pc \in UnsubStates => FirstWith(call[u].filter)' = FirstWith(call[u].filter)
  <2>1. ASSUME call[u].pc \in UnsubStates, NEW k \in Slots
        PROVE  (subs'[k].filter = call[u].filter) <=> (subs[k].filter = call[u].filter)
    <3>1. call[u].filter # f /\ call[u].filter # NoFilter
      BY <1>5, <1>14, <2>1, TypeFacts
    <3> QED
      BY <1>2, <1>4, <3>1
  <2> QED
    BY <1>2, <1>14, <2>1, GivingUpStays
<1>15. \A i \in Slots \ {s} : ~GivingUp(t, i) /\ ~GivingUp(t, i)'
  BY <1>2 DEF GivingUp, UnsubStates
<1>16. CountsKnown'
  <2>1. \A i \in Slots : Occupied(i)' => Referred(i)'
    BY <1>2, <1>9 DEF JInv, CountsKnown, Occupied
  <2>2. ASSUME NEW i \in Slots
        PROVE  cbCount'[i] =
                 IF Referred(i)' /\ ~(\E u \in Tasks : GivingUp(u, i)') THEN 1 ELSE 0
    <3>1. cbCount[i] = IF Referred(i) /\ ~(\E u \in Tasks : GivingUp(u, i)) THEN 1 ELSE 0
      BY DEF JInv, CountsKnown
    <3>2. CASE i = s
      BY <1>9, <3>2
    <3>3. CASE i # s
      <4>1. \A u \in Tasks : GivingUp(u, i)' <=> GivingUp(u, i)
        BY <1>14, <1>15, <3>3
      <4> QED
        BY <1>9, <3>1, <3>3, <4>1
    <3> QED
      BY <3>2, <3>3
  <2>3. \A u \in Tasks : call'[u].pc \in UnsubStates =>
          /\ call'[u].count \in {0, 1}
          /\ call'[u].count = 0 => FirstWith(call[u].filter)' = NoSlot
          /\ call'[u].count = 1 => FirstWith(call[u].filter)' # NoSlot
    <3>1. \A u \in Tasks : call'[u].pc \in UnsubStates => u # t /\ call'[u] = call[u]
      BY <1>2 DEF UnsubStates
    <3> QED
      BY <1>14, <3>1 DEF JInv, CountsKnown
  <2> QED
    BY <2>1, <2>2, <2>3 DEF CountsKnown
<1> QED
  BY <1>10, <1>11, <1>12, <1>13, <1>16 DEF JInv

LEMMA RemoveJInv ==
  ASSUME OneSession, JInv, IInv', NEW t \in Tasks, Remove(t)
  PROVE  JInv'
<1>1. PICK s, e :
        /\ s = First({i \in Slots : cbCount[i] = 0 /\ subs[i].filter = call[t].filter}, NoSlot)
        /\ e = First({j \in Entries : EntryMatches(j, t, s)}, 0)
        /\ call[t].pc = "remove" /\ mutex = NoTask /\ call' = [call EXCEPT ![t] = Idle]
        /\ callbacks' = IF e = 0 THEN callbacks
                        ELSE CompressedCallbacks([callbacks EXCEPT ![e] = EmptyCb])
        /\ IF e # 0 /\ call[t].count = 1
             THEN subs' = [subs EXCEPT ![s] = EmptySub] /\ suback' = [suback EXCEPT ![s] = "failure"]
             ELSE UNCHANGED <<subs, suback>>
        /\ UNCHANGED <<cbCount, agent, clean>>
  BY DEF Remove, agentState
<1>2. e # 0 => /\ e \in Entries /\ callbacks[e].sub = s /\ s \in Slots /\ cbCount[s] = 0
               /\ subs[s].filter = call[t].filter
  BY <1>1, RemoveFinds DEF JInv
<1>3. /\ call[t].pc \in UnsubStates /\ call[t].count \in {0, 1}
      /\ call[t].count = 0 => FirstWith(call[t].filter) = NoSlot
      /\ call[t].count = 1 => FirstWith(call[t].filter) # NoSlot
  BY <1>1 DEF JInv, CountsKnown, UnsubStates
<1>4. CASE call[t].count = 0
  <2>1. e = 0
    BY <1>2, <1>3, <1>4, FirstWithFacts
  <2>2. call'[t] = Idle /\ Idle.pc = "idle" /\ \A u \in Tasks \ {t} : call'[u] = call[u]
    BY <1>1, TypeFacts DEF JInv, IInv
  <2>3. agent # "disconnected" /\ \A i \in Slots : ~Occupied(i) => suback[i] = "failure"
    BY <1>1, Connected DEF JInv, EmptyIsUnanswered
  <2>4. UNCHANGED <<subs, suback, callbacks>>
    BY <1>1, <2>1
  <2> QED
    BY <1>1, <1>4, <2>2, <2>3, <2>4, CallGoesOn
<1>5. CASE call[t].count = 1
  <2>1. PICK w : w = FirstWith(call[t].filter)
    OBVIOUS
  <2>2. /\ w \in Slots /\ subs[w].filter = call[t].filter
        /\ \A k \in Slots : subs[k].filter = call[t].filter => w <= k
    BY <1>3, <1>5, <2>1, FirstWithFacts
  <2>3. cbCount[w] = 0
    <3>1. GivingUp(t, w)
      BY <1>3, <1>5, <2>1 DEF GivingUp
    <3> QED
      BY <2>2, <3>1 DEF JInv, CountsKnown
  <2>4. s = w
    <3> DEFINE T == {i \in Slots : cbCount[i] = 0 /\ subs[i].filter = call[t].filter}
    <3>1. T \in SUBSET Slots /\ w \in T
      BY <2>2, <2>3
    <3>2. s \in T /\ \A j \in T : s <= j
      BY <1>1, <3>1, SlotSearch
    <3>3. s \in Nat /\ w \in Nat /\ s <= w /\ w <= s
      BY <2>2, <3>1, <3>2, SlotFacts
    <3> QED
      BY <3>3
  <2>5. call[t].filter \in Uses[t] /\ call[t].filter # NoFilter
    BY <1>3, InUse, TypeFacts
  <2>6. PICK j \in Entries : callbacks[j].sub = s
    BY <2>2, <2>4, <2>5 DEF JInv, CountsKnown, Occupied, Referred
  <2>7. EntryMatches(j, t, s)
    <3>1. callbacks[j].sub # NoSlot /\ callbacks[j].asked = call[t].filter
      BY <2>2, <2>4, <2>6, InUse, SlotFacts
    <3>2. callbacks[j].task \in Tasks /\ call[t].filter \in Uses[callbacks[j].task]
      BY <3>1 DEF JInv, OneCallback
    <3> QED
      BY <2>5, <2>6, <3>2, OneClient DEF EntryMatches
  <2>8. e # 0
    <3> DEFINE T == {k \in Entries : EntryMatches(k, t, s)}
    <3>1. T \in SUBSET Entries /\ j \in T
      BY <2>7
    <3> QED
      BY <1>1, <3>1, EntrySearch, EntryFacts
  <2>9. /\ callbacks' = CompressedCallbacks([callbacks EXCEPT ![e] = EmptyCb])
        /\ subs' = [subs EXCEPT ![s] = EmptySub] /\ suback' = [suback EXCEPT ![s] = "failure"]
    BY <1>1, <1>5, <2>8
  <2>10. e \in Entries /\ callbacks[e].sub = s /\ s \in Slots /\ cbCount[s] = 0
         /\ s = FirstWith(call[t].filter)
    BY <1>2, <2>1, <2>4, <2>8
  <2> QED
    BY <1>1, <2>9, <2>10, SlotFreed
<1> QED
  BY <1>3, <1>4, <1>5

LEMMA NextJInv ==
  ASSUME OneSession, JInv, [Next]_vars
  PROVE  JInv'
<1>1. IInv'
  BY NextIInv DEF JInv
<1>2. ASSUME NEW t \in Tasks, TaskNext(t)
      PROVE  JInv'
  BY <1>1, <1>2, SubscribeJInv, PopulateJInv, AlreadySubscribedJInv, PostSubscribeJInv,
     SubscribeReturnsJInv, UnsubscribeJInv, RemoveJInv DEF TaskNext
<1> QED
  BY <1>1, <1>2, AgentJInv, RequestJInv, PublishJInv DEF Next

(* The stronger invariant of an application in which every filter has one  *)
(* client and none is a prefix of another, while the first connection of   *)
(* vMQTTAgentTask lasts.                                                   *)
THEOREM JInvHolds ==
  ASSUME OneSession
  PROVE  Spec => []JInv
<1>1. JInv /\ [Next]_vars => JInv'
  BY NextJInv
<1> QED
  BY InitJInv, <1>1, PTL DEF Spec

(* MqttAgent_SubscribeSync and MqttAgent_UnSubscribeSync: however calls    *)
(* and answers interleave, a callback stays with the filter that its       *)
(* client asked for, and the slot given to the agent keeps the caller's    *)
(* filter until the request is answered.                                   *)
THEOREM SlotsKeepFilters ==
  ASSUME OneSession
  PROVE  Spec => []SlotKeepsFilter
<1>1. JInv => SlotKeepsFilter
  BY DEF JInv
<1> QED
  BY <1>1, JInvHolds, PTL

(* The reference count of a slot is what its callbacks and the calls that  *)
(* have given one up account for.                                          *)
LEMMA CountsFollow ==
  ASSUME OneSession, JInv
  PROVE  RefCountExact
<1> SUFFICES ASSUME NEW i \in Slots
             PROVE  cbCount[i] + Cardinality({t \in Tasks : GivingUp(t, i)})
                      = Cardinality({j \in Entries : callbacks[j].sub = i})
  BY DEF RefCountExact, GivingUp, FirstWith
<1>1. cbCount[i] = IF Referred(i) /\ ~(\E t \in Tasks : GivingUp(t, i)) THEN 1 ELSE 0
  BY DEF JInv, CountsKnown
<1>2. ASSUME NEW t \in Tasks, GivingUp(t, i)
      PROVE  Referred(i) /\ {u \in Tasks : GivingUp(u, i)} = {t}
  <2>1. \A u \in Tasks : GivingUp(u, i) => subs[i].filter \in Uses[u] /\ Occupied(i)
    BY FirstWithFacts, SlotFacts, InUse, TypeFacts DEF GivingUp, Occupied
  <2>2. \A u \in Tasks : GivingUp(u, i) => u = t
    BY <1>2, <2>1, OneClient
  <2> QED
    BY <1>2, <2>1, <2>2 DEF JInv, CountsKnown
<1>3. ASSUME Referred(i)
      PROVE  Cardinality({j \in Entries : callbacks[j].sub = i}) = 1
  <2>1. PICK j \in Entries : callbacks[j].sub = i
    BY <1>3 DEF Referred
  <2>2. {k \in Entries : callbacks[k].sub = i} = {j}
    BY <2>1, SlotFacts DEF JInv, OneCallback
  <2> QED
    BY <2>2, FS_Singleton
<1>4. ASSUME ~Referred(i)
      PROVE  Cardinality({j \in Entries : callbacks[j].sub = i}) = 0
  <2>1. {j \in Entries : callbacks[j].sub = i} = {}
    BY <1>4 DEF Referred
  <2> QED
    BY <2>1, FS_EmptySet
<1>5. CASE \E t \in Tasks : GivingUp(t, i)
  <2>1. PICK t \in Tasks : GivingUp(t, i)
    BY <1>5
  <2>2. Referred(i) /\ {u \in Tasks : GivingUp(u, i)} = {t}
    BY <1>2, <2>1
  <2>3. Cardinality({u \in Tasks : GivingUp(u, i)}) = 1
    BY <2>2, FS_Singleton
  <2> QED
    BY <1>1, <1>3, <1>5, <2>2, <2>3
<1>6. CASE ~(\E t \in Tasks : GivingUp(t, i))
  <2>1. {u \in Tasks : GivingUp(u, i)} = {}
    BY <1>6
  <2>2. Cardinality({u \in Tasks : GivingUp(u, i)}) = 0
    BY <2>1, FS_EmptySet
  <2> QED
    BY <1>1, <1>3, <1>4, <1>6, <2>2
<1> QED
  BY <1>5, <1>6

(* pulSubCbCount: the reference count of a slot is the number of callbacks *)
(* on it, less the ones that a call of UnSubscribeSync has given up and    *)
(* not yet removed.                                                        *)
THEOREM RefCountsAreExact ==
  ASSUME OneSession
  PROVE  Spec => []RefCountExact
<1>1. JInv => RefCountExact
  BY CountsFollow
<1> QED
  BY <1>1, JInvHolds, PTL

=============================================================================
