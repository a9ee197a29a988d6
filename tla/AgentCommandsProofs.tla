------------------------ MODULE AgentCommandsProofs ------------------------
(***************************************************************************)
(* Proofs about AgentCommands for every pool size, queue length and set of *)
(* tasks: types, conservation of the command structures, the pairing of    *)
(* answers with requests, and the refinement of RequestService.            *)
(***************************************************************************)
EXTENDS AgentCommands, FiniteSetTheorems, SequenceTheorems, TLAPS

-----------------------------------------------------------------------------
(* Sequences without repetition.                                           *)

(* NULL is not the address of a command structure.                         *)
LEMMA NoCommandIsNull == NoCommand \notin Commands /\ Commands \subseteq Nat
BY PoolSizeAssumption DEF NoCommand, Commands

(* xQueueReceive takes the head out of a FIFO of distinct commands.        *)
LEMMA TailElements ==
  ASSUME NEW S, NEW s \in Seq(S), s # <<>>, Distinct(s)
  PROVE  /\ Head(s) \in S /\ Tail(s) \in Seq(S)
         /\ Head(s) \in Elements(s)
         /\ Distinct(Tail(s))
         /\ Elements(Tail(s)) = Elements(s) \ {Head(s)}
<1>1. /\ Head(s) \in S /\ Tail(s) \in Seq(S) /\ Len(Tail(s)) = Len(s) - 1
      /\ \A i \in 1 .. Len(Tail(s)) : Tail(s)[i] = s[i + 1]
  BY HeadTailProperties
<1>2. /\ DOMAIN s = 1 .. Len(s) /\ Len(s) \in Nat /\ Len(s) # 0
      /\ DOMAIN Tail(s) = 1 .. Len(s) - 1
  BY <1>1, LenProperties, EmptySeq
<1>3. Head(s) = s[1]
  OBVIOUS
<1>4. Distinct(Tail(s))
  BY <1>1, <1>2 DEF Distinct
<1>5. Head(s) \in Elements(s)
  BY <1>2, <1>3 DEF Elements
<1>6. ASSUME NEW x \in Elements(Tail(s)) PROVE x \in Elements(s) \ {Head(s)}
  BY <1>1, <1>2, <1>3 DEF Elements, Distinct
<1>7. ASSUME NEW x \in Elements(s) \ {Head(s)} PROVE x \in Elements(Tail(s))
  <2>1. PICK i \in 1 .. Len(s) : x = s[i]
    BY <1>2 DEF Elements
  <2>2. i - 1 \in 1 .. Len(s) - 1 /\ Tail(s)[i - 1] = x
    BY <1>1, <1>2, <1>3, <2>1
  <2> QED
    BY <1>2, <2>2 DEF Elements
<1> QED
  BY <1>1, <1>4, <1>5, <1>6, <1>7

(* xQueueSend puts a command at the end of a FIFO.                         *)
LEMMA AppendElements ==
  ASSUME NEW S, NEW s \in Seq(S), NEW e \in S
  PROVE  /\ Append(s, e) \in Seq(S)
         /\ Elements(Append(s, e)) = Elements(s) \cup {e}
         /\ Distinct(s) /\ e \notin Elements(s) => Distinct(Append(s, e))
<1>1. /\ Append(s, e) \in Seq(S) /\ Len(Append(s, e)) = Len(s) + 1
      /\ \A i \in 1 .. Len(s) : Append(s, e)[i] = s[i]
      /\ Append(s, e)[Len(s) + 1] = e
  BY AppendProperties
<1>2. /\ DOMAIN s = 1 .. Len(s) /\ Len(s) \in Nat
      /\ DOMAIN Append(s, e) = 1 .. Len(s) + 1
  BY <1>1, LenProperties
<1>3. ASSUME NEW x \in Elements(Append(s, e)) PROVE x \in Elements(s) \cup {e}
  BY <1>1, <1>2 DEF Elements
<1>4. ASSUME NEW x \in Elements(s) \cup {e} PROVE x \in Elements(Append(s, e))
  BY <1>1, <1>2 DEF Elements
<1>5. ASSUME Distinct(s), e \notin Elements(s) PROVE Distinct(Append(s, e))
  BY <1>1, <1>2, <1>5 DEF Distinct, Elements
<1> QED
  BY <1>1, <1>3, <1>4, <1>5

(* A FIFO of distinct commands that misses one of them is shorter than the *)
(* pool.                                                                   *)
LEMMA DistinctLen ==
  ASSUME NEW s \in Seq(Commands), Distinct(s),
         NEW c \in Commands, c \notin Elements(s)
  PROVE  Len(s) \in Nat /\ Len(s) < PoolSize
<1>1. Len(s) \in Nat /\ s \in [1 .. Len(s) -> Commands] /\ DOMAIN s = 1 .. Len(s)
  BY LenProperties
<1>2. s \in [1 .. Len(s) -> Commands \ {c}]
  BY <1>1 DEF Elements
<1>3. s \in Injection(1 .. Len(s), Commands \ {c})
  BY <1>1, <1>2 DEF Injection, IsInjective, Distinct
<1>4. IsFiniteSet(Commands) /\ Cardinality(Commands) = PoolSize
  <2>1. IsFiniteSet(0 .. PoolSize - 1)
        /\ Cardinality(0 .. PoolSize - 1) =
             IF 0 > PoolSize - 1 THEN 0 ELSE (PoolSize - 1) - 0 + 1
    BY FS_Interval, PoolSizeAssumption
  <2> QED BY <2>1, PoolSizeAssumption DEF Commands
<1>5. IsFiniteSet(Commands \ {c}) /\ Cardinality(Commands \ {c}) = PoolSize - 1
  BY <1>4, FS_RemoveElement
<1>6. Cardinality(1 .. Len(s)) <= Cardinality(Commands \ {c})
  BY <1>3, <1>5, FS_Injection
<1>7. Cardinality(1 .. Len(s)) = IF 1 > Len(s) THEN 0 ELSE Len(s) - 1 + 1
  BY <1>1, FS_Interval
<1> QED
  BY <1>1, <1>5, <1>6, <1>7, PoolSizeAssumption

(* Agent_ReleaseCommand accepts every command that is not free already.    *)
LEMMA ReleaseAccepts ==
  ASSUME NEW s \in Seq(Commands), Distinct(s),
         NEW c \in Commands, c \notin Elements(s)
  PROVE  Released(s, c) = Append(s, c)
<1>1. Len(s) < PoolSize
  BY DistinctLen
<1>2. BelongsToPool(c)
  BY PoolSizeAssumption DEF BelongsToPool, Commands
<1> QED
  BY <1>1, <1>2 DEF Released

-----------------------------------------------------------------------------
(* The inductive invariant.  PoolConserved alone is not inductive: a       *)
(* command can only be concluded or posted without loss because the task   *)
(* that holds it and the context it carries are known.                     *)

(* A task has a command exactly while a request of its is under way.       *)
RequestHeld ==
  /\ \A t \in Tasks : pc[t] \in {"ready", "get"} => request[t] = NoCommand
  /\ \A t \in Tasks : pc[t] \in {"send", "notify", "wait"} => request[t] \in Commands
  /\ \A t \in Tasks : pc[t] = "send" => owner[request[t]] = t

(* A command in flight names a task to notify; for a synchronous task it   *)
(* is the command of its current request.                                  *)
ContextKnown ==
  /\ \A c \in InFlight : owner[c] \in Tasks
  /\ \A t \in SyncTasks : \A c \in InFlight :
       owner[c] = t => pc[t] \in {"notify", "wait"} /\ request[t] = c

(* A synchronous request is either in flight or answered, never both.      *)
RequestOrAnswer ==
  \A t \in SyncTasks :
    /\ pc[t] \in {"ready", "get", "send"} => answer[t] = NoCommand
    /\ pc[t] \in {"notify", "wait"} =>
         \/ /\ answer[t] = NoCommand
            /\ request[t] \in InFlight /\ owner[request[t]] = t
         \/ /\ answer[t] = request[t]
            /\ \A c \in InFlight : owner[c] # t

IInv == TypeOK /\ PoolConserved /\ RequestHeld /\ ContextKnown /\ RequestOrAnswer

(* Facts that a state of the invariant gives about one command in flight.  *)
LEMMA InFlightFacts ==
  ASSUME IInv, NEW c \in InFlight
  PROVE  /\ c \in Commands /\ c # NoCommand
         /\ owner[c] \in Tasks
         /\ c \notin Elements(pool) /\ c \notin HeldByTasks
         /\ Released(pool, c) = Append(pool, c)
<1>1. c \in Commands /\ c \notin Elements(pool) /\ c \notin HeldByTasks
  BY DEF IInv, PoolConserved
<1>2. owner[c] \in Tasks
  BY DEF IInv, ContextKnown
<1>3. Released(pool, c) = Append(pool, c)
  BY <1>1, ReleaseAccepts DEF IInv, TypeOK, PoolConserved
<1> QED
  BY <1>1, <1>2, <1>3, NoCommandIsNull

(* A command moves between the queue, the agent and the set of commands    *)
(* that wait for an ack, and nothing else changes.                         *)
LEMMA MoveInFlight ==
  ASSUME IInv, UNCHANGED <<pool, taskVars>>,
         apc' \in AgentStates, flags' \subseteq {SOCKET_RECV, M_QUEUE},
         queue' \in Seq(Commands), Distinct(queue'),
         held' \in Commands \cup {NoCommand}, pending' \in SUBSET Commands,
         InFlight' = InFlight,
         Elements(queue') \cap (HeldByAgent \cup pending)' = {},
         (HeldByAgent \cap pending)' = {}
  PROVE  IInv'
<1>1. HeldByTasks' = HeldByTasks
  BY DEF HeldByTasks, taskVars
<1>2. TypeOK'
  BY DEF IInv, TypeOK, taskVars
<1>3. PoolConserved'
  BY <1>1 DEF IInv, PoolConserved, taskVars, Distinct
<1>4. RequestHeld'
  BY DEF IInv, RequestHeld, taskVars
<1>5. ContextKnown'
  BY DEF IInv, ContextKnown, taskVars
<1>6. RequestOrAnswer'
  BY DEF IInv, RequestOrAnswer, taskVars
<1> QED
  BY <1>2, <1>3, <1>4, <1>5, <1>6 DEF IInv

(* A step that changes at most the flags and the agent's position.         *)
LEMMA OnlyControl ==
  ASSUME IInv, UNCHANGED <<pool, queue, taskVars, held, pending>>,
         apc' \in AgentStates, flags' \subseteq {SOCKET_RECV, M_QUEUE}
  PROVE  IInv'
<1>1. /\ queue' \in Seq(Commands) /\ Distinct(queue')
      /\ held' \in Commands \cup {NoCommand} /\ pending' \in SUBSET Commands
  BY DEF IInv, TypeOK, PoolConserved, Distinct
<1>2. /\ InFlight' = InFlight
      /\ Elements(queue') \cap (HeldByAgent \cup pending)' = {}
      /\ (HeldByAgent \cap pending)' = {}
  BY DEF IInv, PoolConserved, InFlight, HeldByAgent, Elements
<1> QED
  BY <1>1, <1>2, MoveInFlight

(* A command in flight is concluded: its task is notified and the command  *)
(* is free again.                                                          *)
LEMMA ConcludeStep ==
  ASSUME IInv, NEW c \in InFlight, Conclude(c), UNCHANGED <<pc, request, queue>>,
         apc' \in AgentStates, flags' \subseteq {SOCKET_RECV, M_QUEUE},
         \/ held = c /\ held' = NoCommand /\ pending' = pending
         \/ c \in pending /\ pending' = pending \ {c} /\ held' = held
  PROVE  IInv'
<1>1. /\ c \in Commands /\ c # NoCommand /\ owner[c] \in Tasks
      /\ c \notin Elements(pool) /\ c \notin HeldByTasks
      /\ pool' = Append(pool, c)
  BY InFlightFacts DEF Conclude
<1>2. /\ pool' \in Seq(Commands) /\ Distinct(pool')
      /\ Elements(pool') = Elements(pool) \cup {c}
  BY <1>1, AppendElements DEF IInv, TypeOK, PoolConserved
<1>3. /\ InFlight' = InFlight \ {c}
      /\ Elements(queue') = Elements(queue)
      /\ HeldByAgent' \subseteq HeldByAgent /\ pending' \subseteq pending
      /\ HeldByTasks' = HeldByTasks
  BY <1>1 DEF IInv, PoolConserved, InFlight, HeldByAgent, HeldByTasks, Elements
<1>4. TypeOK'
  BY <1>1, <1>2 DEF IInv, TypeOK, Conclude
<1>5. PoolConserved'
  <2>1. Distinct(queue')
    BY DEF IInv, PoolConserved, Distinct
  <2>2. \A t, u \in Tasks :
          pc'[t] = "send" /\ pc'[u] = "send" /\ request'[t] = request'[u] => t = u
    BY DEF IInv, PoolConserved
  <2>3. Elements(pool') \cup HeldByTasks' \cup InFlight' = Commands
    BY <1>1, <1>2, <1>3 DEF IInv, PoolConserved
  <2>4. /\ Elements(pool') \cap (HeldByTasks' \cup InFlight') = {}
        /\ HeldByTasks' \cap InFlight' = {}
    BY <1>1, <1>2, <1>3 DEF IInv, PoolConserved
  <2>5. /\ Elements(queue') \cap (HeldByAgent' \cup pending') = {}
        /\ HeldByAgent' \cap pending' = {}
    BY <1>3 DEF IInv, PoolConserved
  <2> QED
    BY <1>2, <2>1, <2>2, <2>3, <2>4, <2>5 DEF PoolConserved
<1>6. owner' = [owner EXCEPT ![c] = NoTask] /\ answer' = [answer EXCEPT ![owner[c]] = c]
  BY DEF Conclude
<1>7. /\ owner \in [Commands -> Tasks \cup {NoTask}]
      /\ answer \in [Tasks -> Commands \cup {NoCommand}]
      /\ SyncTasks \subseteq Tasks /\ NoTask \notin Tasks
  BY TasksAssumption DEF IInv, TypeOK, Tasks
<1>8. RequestHeld'
  <2> SUFFICES ASSUME NEW t \in Tasks, pc'[t] = "send"
               PROVE  owner'[request'[t]] = t
    BY DEF IInv, RequestHeld
  <2>1. request[t] \in HeldByTasks /\ request[t] \in Commands /\ owner[request[t]] = t
    BY DEF IInv, RequestHeld, HeldByTasks
  <2> QED
    BY <1>1, <1>6, <1>7, <2>1
<1>9. ContextKnown'
  BY <1>1, <1>3, <1>6, <1>7 DEF IInv, ContextKnown, PoolConserved
<1>10. RequestOrAnswer'
  <2> SUFFICES ASSUME NEW t \in SyncTasks
               PROVE  /\ pc'[t] \in {"ready", "get", "send"} => answer'[t] = NoCommand
                      /\ pc'[t] \in {"notify", "wait"} =>
                           \/ /\ answer'[t] = NoCommand
                              /\ request'[t] \in InFlight' /\ owner'[request'[t]] = t
                           \/ /\ answer'[t] = request'[t]
                              /\ \A d \in InFlight' : owner'[d] # t
    BY DEF RequestOrAnswer
  <2>1. CASE owner[c] = t
    <3>1. pc[t] \in {"notify", "wait"} /\ request[t] = c
      BY <2>1 DEF IInv, ContextKnown
    <3>2. answer'[t] = c
      BY <1>6, <1>7, <2>1
    <3>3. \A d \in InFlight' : d \in InFlight /\ d # c /\ d \in Commands
      BY <1>3 DEF IInv, PoolConserved
    <3>4. \A d \in InFlight' : owner'[d] # t
      BY <1>6, <1>7, <3>1, <3>3 DEF IInv, ContextKnown
    <3> QED
      BY <3>1, <3>2, <3>4
  <2>2. CASE owner[c] # t
    <3>1. answer'[t] = answer[t]
      BY <1>6, <1>7, <2>2
    <3>2. \A d \in InFlight' : d \in InFlight /\ owner'[d] = owner[d]
      BY <1>3, <1>6, <1>7 DEF IInv, PoolConserved
    <3>3. request[t] \in InFlight /\ owner[request[t]] = t
            => request[t] \in InFlight' /\ owner'[request[t]] = t
      BY <1>3, <2>2, <3>2
    <3> QED
      BY <3>1, <3>2, <3>3 DEF IInv, RequestOrAnswer
  <2> QED
    BY <2>1, <2>2
<1> QED
  BY <1>4, <1>5, <1>8, <1>9, <1>10 DEF IInv

-----------------------------------------------------------------------------
(* The steps of a requesting task.                                         *)

LEMMA InitIInv == Init => IInv
<1> SUFFICES ASSUME Init PROVE IInv
  OBVIOUS
<1>1. pool = [i \in 1 .. PoolSize |-> i - 1]
  BY DEF Init, InitialPool
<1>2. pool \in Seq(Commands) /\ DOMAIN pool = 1 .. PoolSize
  BY <1>1, PoolSizeAssumption DEF Commands
<1>3. Distinct(pool) /\ Distinct(queue)
  BY <1>1, <1>2, PoolSizeAssumption DEF Distinct, Init
<1>4. Elements(pool) = Commands
  <2>1. ASSUME NEW c \in Commands PROVE c \in Elements(pool)
    <3>1. c + 1 \in 1 .. PoolSize /\ pool[c + 1] = c
      BY <1>1, PoolSizeAssumption DEF Commands
    <3> QED BY <1>2, <3>1 DEF Elements
  <2>2. ASSUME NEW c \in Elements(pool) PROVE c \in Commands
    BY <1>1, <1>2, PoolSizeAssumption DEF Elements, Commands
  <2> QED BY <2>1, <2>2
<1>5. HeldByTasks = {} /\ InFlight = {} /\ HeldByAgent = {} /\ pending = {}
  BY DEF Init, HeldByTasks, InFlight, HeldByAgent, Elements
<1>6. TypeOK
  BY <1>2 DEF Init, TypeOK, TaskStates, AgentStates
<1>7. PoolConserved
  BY <1>3, <1>4, <1>5 DEF PoolConserved, Init
<1> QED
  BY <1>5, <1>6, <1>7, TasksAssumption
  DEF IInv, Init, RequestHeld, ContextKnown, RequestOrAnswer, Tasks

(* Steps of a task that neither take nor give a command: the places of all *)
(* commands stay as they are.                                              *)
LEMMA SamePlaces ==
  ASSUME IInv, UNCHANGED <<pool, queue, held, pending>>, HeldByTasks' = HeldByTasks,
         NEW t \in Tasks, pc'[t] # "send",
         \A u \in Tasks \ {t} : pc'[u] = pc[u] /\ request'[u] = request[u]
  PROVE  /\ PoolConserved'
         /\ InFlight' = InFlight
<1>1. InFlight' = InFlight /\ HeldByAgent' = HeldByAgent /\ Elements(queue') = Elements(queue)
  BY DEF InFlight, HeldByAgent, Elements
<1> QED
  BY <1>1 DEF IInv, PoolConserved, Distinct, Elements

LEMMA ClearStep ==
  ASSUME IInv, NEW t \in Tasks, ClearNotification(t)
  PROVE  IInv'
<1> USE DEF ClearNotification, agentVars
<1>1. TypeOK'
  BY DEF IInv, TypeOK, TaskStates
<1>2. \A u \in Tasks \ {t} : pc'[u] = pc[u] /\ request'[u] = request[u]
  BY DEF IInv, TypeOK
<1>3. pc'[t] = "get" /\ pc[t] = "ready"
  BY DEF IInv, TypeOK
<1>4. HeldByTasks' = HeldByTasks
  BY <1>2, <1>3 DEF HeldByTasks
<1>5. PoolConserved' /\ InFlight' = InFlight
  BY <1>2, <1>3, <1>4, SamePlaces
<1>6. RequestHeld'
  BY <1>2, <1>3 DEF IInv, RequestHeld, TypeOK
<1>7. ContextKnown'
  BY <1>2, <1>3, <1>5, TasksAssumption DEF IInv, ContextKnown, Tasks
<1>8. RequestOrAnswer'
  BY <1>2, <1>3, <1>5, TasksAssumption DEF IInv, TypeOK, RequestOrAnswer, Tasks
<1> QED
  BY <1>1, <1>5, <1>6, <1>7, <1>8 DEF IInv

LEMMA GetStep ==
  ASSUME IInv, NEW t \in Tasks, GetCommand(t)
  PROVE  IInv'
<1> USE DEF GetCommand, agentVars
<1> DEFINE h == Head(pool)
<1>1. /\ h \in Commands /\ h \in Elements(pool) /\ h # NoCommand
      /\ pool' \in Seq(Commands) /\ Distinct(pool')
      /\ Elements(pool') = Elements(pool) \ {h}
  BY TailElements, NoCommandIsNull DEF IInv, TypeOK, PoolConserved
<1> HIDE DEF h
<1>2. /\ pc' = [pc EXCEPT ![t] = "send"] /\ request' = [request EXCEPT ![t] = h]
      /\ owner' = [owner EXCEPT ![h] = t] /\ inScope' = [inScope EXCEPT ![h] = TRUE]
      /\ pc[t] = "get" /\ UNCHANGED <<queue, held, pending, answer, flags, apc>>
  BY DEF h
<1>3. /\ pc'[t] = "send" /\ request'[t] = h
      /\ \A u \in Tasks \ {t} : pc'[u] = pc[u] /\ request'[u] = request[u]
  BY <1>2 DEF IInv, TypeOK
<1>4. TypeOK'
  BY <1>1, <1>2 DEF IInv, TypeOK, TaskStates
<1>5. /\ InFlight' = InFlight /\ HeldByAgent' = HeldByAgent
      /\ Elements(queue') = Elements(queue) /\ Distinct(queue')
  BY <1>2 DEF IInv, PoolConserved, InFlight, HeldByAgent, Elements, Distinct
<1>6. HeldByTasks' = HeldByTasks \cup {h}
  BY <1>2, <1>3 DEF HeldByTasks
<1>7. h \notin HeldByTasks /\ h \notin InFlight
  BY <1>1 DEF IInv, PoolConserved
<1>8. \A u, v \in Tasks :
        pc'[u] = "send" /\ pc'[v] = "send" /\ request'[u] = request'[v] => u = v
  <2> SUFFICES ASSUME NEW u \in Tasks, NEW v \in Tasks, pc'[u] = "send",
                      pc'[v] = "send", request'[u] = request'[v]
               PROVE  u = v
    OBVIOUS
  <2>1. \A w \in Tasks \ {t} : pc[w] = "send" => request[w] # h
    BY <1>7 DEF HeldByTasks
  <2> QED
    BY <1>3, <2>1 DEF IInv, PoolConserved
<1>9. PoolConserved'
  <2>1. Elements(pool') \cup HeldByTasks' \cup InFlight' = Commands
    BY <1>1, <1>5, <1>6 DEF IInv, PoolConserved
  <2>2. /\ Elements(pool') \cap (HeldByTasks' \cup InFlight') = {}
        /\ HeldByTasks' \cap InFlight' = {}
    BY <1>1, <1>5, <1>6, <1>7 DEF IInv, PoolConserved
  <2>3. /\ Elements(queue') \cap (HeldByAgent' \cup pending') = {}
        /\ HeldByAgent' \cap pending' = {}
    BY <1>2, <1>5 DEF IInv, PoolConserved
  <2> QED
    BY <1>1, <1>5, <1>8, <2>1, <2>2, <2>3 DEF PoolConserved
<1>10. /\ owner \in [Commands -> Tasks \cup {NoTask}]
       /\ owner'[h] = t /\ \A c \in Commands \ {h} : owner'[c] = owner[c]
  BY <1>1, <1>2 DEF IInv, TypeOK
<1>11. RequestHeld'
  <2>1. \A u \in Tasks \ {t} : pc[u] = "send" => request[u] \in Commands \ {h}
    BY <1>7 DEF IInv, RequestHeld, HeldByTasks
  <2> QED
    BY <1>1, <1>3, <1>10, <2>1 DEF IInv, RequestHeld
<1>12. \A c \in InFlight : c \in Commands \ {h}
  BY <1>7 DEF IInv, PoolConserved
<1>13. ContextKnown'
  BY <1>2, <1>3, <1>5, <1>10, <1>12, TasksAssumption DEF IInv, ContextKnown, Tasks
<1>14. RequestOrAnswer'
  BY <1>2, <1>3, <1>5, <1>10, <1>12, TasksAssumption DEF IInv, RequestOrAnswer, Tasks
<1> QED
  BY <1>4, <1>9, <1>11, <1>13, <1>14 DEF IInv

LEMMA GetFailsStep ==
  ASSUME IInv, NEW t \in Tasks, GetCommandFails(t)
  PROVE  IInv'
<1> USE DEF GetCommandFails, agentVars
<1>1. TypeOK'
  BY DEF IInv, TypeOK, TaskStates
<1>2. /\ pc'[t] = "ready" /\ pc[t] = "get"
      /\ \A u \in Tasks \ {t} : pc'[u] = pc[u] /\ request'[u] = request[u]
  BY DEF IInv, TypeOK
<1>3. HeldByTasks' = HeldByTasks
  BY <1>2 DEF HeldByTasks
<1>4. PoolConserved' /\ InFlight' = InFlight
  BY <1>2, <1>3, SamePlaces
<1>5. RequestHeld'
  BY <1>2 DEF IInv, RequestHeld, TypeOK
<1>6. ContextKnown'
  BY <1>2, <1>4, TasksAssumption DEF IInv, ContextKnown, Tasks
<1>7. RequestOrAnswer'
  BY <1>2, <1>4, TasksAssumption DEF IInv, RequestOrAnswer, Tasks
<1> QED
  BY <1>1, <1>4, <1>5, <1>6, <1>7 DEF IInv

(* What is known of a task that is about to post its command.              *)
LEMMA AboutToSend ==
  ASSUME IInv, NEW t \in Tasks, pc[t] = "send"
  PROVE  /\ request[t] \in Commands /\ request[t] \in HeldByTasks
         /\ owner[request[t]] = t
         /\ request[t] \notin Elements(pool) /\ request[t] \notin InFlight
         /\ \A u \in Tasks \ {t} : pc[u] = "send" => request[u] # request[t]
         /\ t \in SyncTasks => /\ answer[t] = NoCommand
                               /\ \A c \in InFlight : owner[c] # t
<1>1. request[t] \in Commands /\ request[t] \in HeldByTasks /\ owner[request[t]] = t
  BY DEF IInv, RequestHeld, HeldByTasks
<1>2. request[t] \notin Elements(pool) /\ request[t] \notin InFlight
  BY <1>1 DEF IInv, PoolConserved
<1>3. \A u \in Tasks \ {t} : pc[u] = "send" => request[u] # request[t]
  BY DEF IInv, PoolConserved
<1>4. t \in SyncTasks => answer[t] = NoCommand /\ \A c \in InFlight : owner[c] # t
  BY DEF IInv, RequestOrAnswer, ContextKnown
<1> QED
  BY <1>1, <1>2, <1>3, <1>4

LEMMA SendStep ==
  ASSUME IInv, NEW t \in Tasks, Send(t)
  PROVE  IInv'
<1> DEFINE c == request[t]
<1>1. /\ pc[t] = "send" /\ queue' = Append(queue, c) /\ pc' = [pc EXCEPT ![t] = "notify"]
      /\ UNCHANGED <<pool, flags, request, answer, owner, inScope, apc, held, pending>>
  BY DEF Send, agentVars
<1>2. /\ c \in Commands /\ c \in HeldByTasks /\ owner[c] = t
      /\ c \notin Elements(pool) /\ c \notin InFlight
      /\ \A u \in Tasks \ {t} : pc[u] = "send" => request[u] # c
      /\ t \in SyncTasks => answer[t] = NoCommand /\ \A d \in InFlight : owner[d] # t
  BY <1>1, AboutToSend
<1> HIDE DEF c
<1>3. /\ queue' \in Seq(Commands) /\ Distinct(queue')
      /\ Elements(queue') = Elements(queue) \cup {c}
  BY <1>1, <1>2, AppendElements DEF IInv, TypeOK, PoolConserved, InFlight
<1>4. /\ pc'[t] = "notify" /\ request[t] = c /\ request'[t] = c
      /\ \A u \in Tasks \ {t} : pc'[u] = pc[u] /\ request'[u] = request[u]
  BY <1>1 DEF IInv, TypeOK, c
<1>5. InFlight' = InFlight \cup {c} /\ HeldByAgent' = HeldByAgent
  BY <1>1, <1>3 DEF InFlight, HeldByAgent
<1>6. HeldByTasks' = HeldByTasks \ {c}
  BY <1>1, <1>2, <1>4 DEF HeldByTasks
<1>7. TypeOK'
  BY <1>1, <1>3 DEF IInv, TypeOK, TaskStates
<1>8. PoolConserved'
  <2>1. Elements(pool') = Elements(pool) /\ Distinct(pool')
    BY <1>1 DEF IInv, PoolConserved, Elements, Distinct
  <2>2. Elements(pool') \cup HeldByTasks' \cup InFlight' = Commands
    BY <1>2, <1>5, <1>6, <2>1 DEF IInv, PoolConserved
  <2>3. /\ Elements(pool') \cap (HeldByTasks' \cup InFlight') = {}
        /\ HeldByTasks' \cap InFlight' = {}
    BY <1>2, <1>5, <1>6, <2>1 DEF IInv, PoolConserved
  <2>4. c \notin HeldByAgent /\ c \notin pending
    BY <1>2 DEF InFlight
  <2>5. /\ Elements(queue') \cap (HeldByAgent' \cup pending') = {}
        /\ HeldByAgent' \cap pending' = {}
    BY <1>1, <1>3, <1>5, <2>4 DEF IInv, PoolConserved
  <2>6. \A u, v \in Tasks :
          pc'[u] = "send" /\ pc'[v] = "send" /\ request'[u] = request'[v] => u = v
    BY <1>1, <1>4 DEF IInv, PoolConserved
  <2> QED
    BY <1>3, <2>1, <2>2, <2>3, <2>5, <2>6 DEF PoolConserved
<1>9. RequestHeld'
  BY <1>1, <1>2, <1>4 DEF IInv, RequestHeld
<1>10. ContextKnown'
  BY <1>1, <1>2, <1>4, <1>5, TasksAssumption DEF IInv, ContextKnown, Tasks
<1>11. RequestOrAnswer'
  BY <1>1, <1>2, <1>4, <1>5, TasksAssumption DEF IInv, RequestOrAnswer, Tasks
<1> QED
  BY <1>7, <1>8, <1>9, <1>10, <1>11 DEF IInv

LEMMA SendFailsStep ==
  ASSUME IInv, NEW t \in Tasks, SendFails(t)
  PROVE  IInv'
<1> DEFINE c == request[t]
<1>1. /\ pc[t] = "send" /\ flags' = flags \cup {M_QUEUE} /\ pool' = Released(pool, c)
      /\ owner' = [owner EXCEPT ![c] = NoTask] /\ inScope' = [inScope EXCEPT ![c] = FALSE]
      /\ pc' = [pc EXCEPT ![t] = "ready"] /\ request' = [request EXCEPT ![t] = NoCommand]
      /\ UNCHANGED <<queue, answer, apc, held, pending>>
  BY DEF SendFails, agentVars
<1>2. /\ c \in Commands /\ c \in HeldByTasks /\ owner[c] = t
      /\ c \notin Elements(pool) /\ c \notin InFlight
      /\ \A u \in Tasks \ {t} : pc[u] = "send" => request[u] # c
      /\ t \in SyncTasks => answer[t] = NoCommand /\ \A d \in InFlight : owner[d] # t
  BY <1>1, AboutToSend
<1>3. request[t] = c
  OBVIOUS
<1> HIDE DEF c
<1>4. pool' = Append(pool, c)
  BY <1>1, <1>2, ReleaseAccepts DEF IInv, TypeOK, PoolConserved
<1>5. /\ pool' \in Seq(Commands) /\ Distinct(pool')
      /\ Elements(pool') = Elements(pool) \cup {c}
  BY <1>2, <1>4, AppendElements DEF IInv, TypeOK, PoolConserved
<1>6. /\ pc'[t] = "ready" /\ request'[t] = NoCommand
      /\ \A u \in Tasks \ {t} : pc'[u] = pc[u] /\ request'[u] = request[u]
  BY <1>1 DEF IInv, TypeOK
<1>7. /\ InFlight' = InFlight /\ HeldByAgent' = HeldByAgent
      /\ Elements(queue') = Elements(queue) /\ Distinct(queue')
  BY <1>1 DEF IInv, PoolConserved, InFlight, HeldByAgent, Elements, Distinct
<1>8. HeldByTasks' = HeldByTasks \ {c}
  BY <1>1, <1>2, <1>3, <1>6 DEF HeldByTasks
<1>9. TypeOK'
  BY <1>1, <1>2, <1>5 DEF IInv, TypeOK, TaskStates
<1>10. PoolConserved'
  <2>1. Elements(pool') \cup HeldByTasks' \cup InFlight' = Commands
    BY <1>2, <1>5, <1>7, <1>8 DEF IInv, PoolConserved
  <2>2. /\ Elements(pool') \cap (HeldByTasks' \cup InFlight') = {}
        /\ HeldByTasks' \cap InFlight' = {}
    BY <1>2, <1>5, <1>7, <1>8 DEF IInv, PoolConserved
  <2>3. /\ Elements(queue') \cap (HeldByAgent' \cup pending') = {}
        /\ HeldByAgent' \cap pending' = {}
    BY <1>1, <1>7 DEF IInv, PoolConserved
  <2>4. \A u, v \in Tasks :
          pc'[u] = "send" /\ pc'[v] = "send" /\ request'[u] = request'[v] => u = v
    BY <1>6 DEF IInv, PoolConserved
  <2> QED
    BY <1>5, <1>7, <2>1, <2>2, <2>3, <2>4 DEF PoolConserved
<1>11. \A d \in Commands \ {c} : owner'[d] = owner[d]
  BY <1>1 DEF IInv, TypeOK
<1>12. RequestHeld'
  BY <1>2, <1>6, <1>11 DEF IInv, RequestHeld
<1>13. \A d \in InFlight : d \in Commands \ {c}
  BY <1>2 DEF IInv, PoolConserved
<1>14. ContextKnown'
  BY <1>2, <1>6, <1>7, <1>11, <1>13, TasksAssumption DEF IInv, ContextKnown, Tasks
<1>15. RequestOrAnswer'
  BY <1>1, <1>2, <1>6, <1>7, <1>11, <1>13, TasksAssumption DEF IInv, RequestOrAnswer, Tasks
<1> QED
  BY <1>9, <1>10, <1>12, <1>14, <1>15 DEF IInv

LEMMA NotifyStep ==
  ASSUME IInv, NEW t \in Tasks, NotifyAgent(t)
  PROVE  IInv'
<1> USE DEF NotifyAgent, agentVars
<1>1. TypeOK'
  BY DEF IInv, TypeOK, TaskStates
<1>2. /\ pc'[t] = "wait" /\ pc[t] = "notify"
      /\ \A u \in Tasks \ {t} : pc'[u] = pc[u] /\ request'[u] = request[u]
  BY DEF IInv, TypeOK
<1>3. HeldByTasks' = HeldByTasks
  BY <1>2 DEF HeldByTasks
<1>4. PoolConserved' /\ InFlight' = InFlight
  BY <1>2, <1>3, SamePlaces
<1>5. RequestHeld'
  BY <1>2 DEF IInv, RequestHeld, TypeOK
<1>6. ContextKnown'
  BY <1>2, <1>4, TasksAssumption DEF IInv, ContextKnown, Tasks
<1>7. RequestOrAnswer'
  BY <1>2, <1>4, TasksAssumption DEF IInv, RequestOrAnswer, Tasks
<1> QED
  BY <1>1, <1>4, <1>5, <1>6, <1>7 DEF IInv

(* A task returns from its wait.  A synchronous one has been answered, so  *)
(* nothing in flight names it any more.                                    *)
LEMMA ReturnStep ==
  ASSUME IInv, NEW t \in Tasks, pc[t] = "wait", Return(t),
         UNCHANGED <<pool, queue, flags, owner, agentVars>>,
         answer' = [answer EXCEPT ![t] = NoCommand],
         t \in SyncTasks => answer[t] # NoCommand
  PROVE  IInv'
<1> USE DEF Return, agentVars
<1>1. TypeOK'
  BY DEF IInv, TypeOK, TaskStates
<1>2. /\ pc'[t] = "ready" /\ request'[t] = NoCommand /\ answer'[t] = NoCommand
      /\ \A u \in Tasks \ {t} : /\ pc'[u] = pc[u] /\ request'[u] = request[u]
                                /\ answer'[u] = answer[u]
  BY DEF IInv, TypeOK
<1>3. HeldByTasks' = HeldByTasks
  BY <1>2 DEF HeldByTasks
<1>4. PoolConserved' /\ InFlight' = InFlight
  BY <1>2, <1>3, SamePlaces
<1>5. RequestHeld'
  BY <1>2 DEF IInv, RequestHeld, TypeOK
<1>6. t \in SyncTasks => \A c \in InFlight : owner[c] # t
  BY DEF IInv, RequestOrAnswer
<1>7. ContextKnown'
  BY <1>2, <1>4, <1>6, TasksAssumption DEF IInv, ContextKnown, Tasks
<1>8. RequestOrAnswer'
  BY <1>2, <1>4, TasksAssumption DEF IInv, RequestOrAnswer, Tasks
<1> QED
  BY <1>1, <1>4, <1>5, <1>7, <1>8 DEF IInv

LEMMA TaskStep ==
  ASSUME IInv, NEW t \in Tasks, TaskNext(t)
  PROVE  IInv'
<1>1. CASE Answered(t)
  BY <1>1, ReturnStep DEF Answered
<1>2. CASE Timeout(t)
  <2>1. answer' = [answer EXCEPT ![t] = NoCommand]
    BY <1>2 DEF Timeout, IInv, TypeOK
  <2>2. t \notin SyncTasks
    BY <1>2, TasksAssumption DEF Timeout
  <2> QED
    BY <1>2, <2>1, <2>2, ReturnStep DEF Timeout
<1> QED
  BY <1>1, <1>2, ClearStep, GetStep, GetFailsStep, SendStep, SendFailsStep, NotifyStep
  DEF TaskNext

-----------------------------------------------------------------------------
(* The steps of the agent task.                                            *)

LEMMA ReceiveStep ==
  ASSUME IInv, held = NoCommand, Receive, UNCHANGED <<pool, taskVars, pending>>,
         apc' \in AgentStates
  PROVE  IInv'
<1>1. CASE ~Receivable
  BY <1>1, OnlyControl DEF Receive
<1>2. CASE Receivable
  <2>1. /\ queue # <<>> /\ held' = Head(queue) /\ queue' = Tail(queue) /\ flags' = {}
    BY <1>2 DEF Receive, Receivable
  <2>2. /\ Head(queue) \in Commands /\ Head(queue) \in Elements(queue)
        /\ queue' \in Seq(Commands) /\ Distinct(queue')
        /\ Elements(queue') = Elements(queue) \ {Head(queue)}
        /\ Head(queue) # NoCommand
    BY <2>1, TailElements, NoCommandIsNull DEF IInv, TypeOK, PoolConserved
  <2>3. HeldByAgent = {} /\ HeldByAgent' = {Head(queue)} /\ pending' = pending
    BY <2>1, <2>2 DEF HeldByAgent
  <2>4. InFlight' = InFlight
    BY <2>2, <2>3 DEF InFlight
  <2>5. /\ Elements(queue') \cap (HeldByAgent \cup pending)' = {}
        /\ (HeldByAgent \cap pending)' = {}
    BY <2>2, <2>3 DEF IInv, PoolConserved
  <2>6. pending' \in SUBSET Commands
    BY <2>3 DEF IInv, TypeOK
  <2> QED
    BY <2>1, <2>2, <2>4, <2>5, <2>6, MoveInFlight
<1> QED
  BY <1>1, <1>2

(* Between two receives the agent holds no command.                        *)
HandsFree == apc \in {"tls", "cancelBefore", "connect", "receive", "loop", "cancelAfter"}
               => held = NoCommand

LEMMA AgentStep ==
  ASSUME IInv, HandsFree,
         TlsConnected \/ MqttConnected \/ CancelNext \/ LoopNext \/ SocketRecvReady
  PROVE  IInv' /\ HandsFree'
<1>1. CASE TlsConnected
  BY <1>1, OnlyControl DEF TlsConnected, AgentStates, IInv, TypeOK, HandsFree
<1>2. CASE MqttConnected
  BY <1>2, OnlyControl DEF MqttConnected, AgentStates, IInv, TypeOK, HandsFree
<1>3. CASE SocketRecvReady
  BY <1>3, OnlyControl DEF SocketRecvReady, agentVars, IInv, TypeOK, HandsFree
<1>4. CASE CancelDone
  BY <1>4, OnlyControl DEF CancelDone, AgentStates, IInv, TypeOK, HandsFree
<1>5. CASE ProcessNothing
  BY <1>5, OnlyControl DEF ProcessNothing, AgentStates, IInv, TypeOK, HandsFree
<1>6. CASE LoopAgain
  BY <1>6, OnlyControl DEF LoopAgain, AgentStates, IInv, TypeOK, HandsFree
<1>7. CASE LoopFails
  BY <1>7, OnlyControl DEF LoopFails, AgentStates, IInv, TypeOK, HandsFree
<1>8. CASE Drain
  <2>1. IInv'
    BY <1>8, ReceiveStep DEF Drain, IInv, TypeOK
  <2> QED BY <1>8, <2>1 DEF Drain, HandsFree
<1>9. CASE DrainDone
  <2>1. IInv'
    BY <1>9, ReceiveStep DEF DrainDone, AgentStates
  <2> QED BY <1>9, <2>1 DEF DrainDone, Receive, HandsFree
<1>10. CASE LoopReceive
  <2>1. IInv'
    BY <1>10, ReceiveStep DEF LoopReceive, AgentStates, HandsFree
  <2> QED BY <1>10, <2>1 DEF LoopReceive, HandsFree
<1>11. CASE ProcessAwaitAck
  <2>1. /\ held \in Commands /\ held # NoCommand /\ held' = NoCommand
        /\ pending' = pending \cup {held} /\ apc' = "loop"
        /\ UNCHANGED <<pool, queue, flags, taskVars>>
    BY <1>11 DEF ProcessAwaitAck, IInv, TypeOK
  <2>2. HeldByAgent = {held} /\ HeldByAgent' = {} /\ Elements(queue') = Elements(queue)
    BY <2>1 DEF HeldByAgent, Elements
  <2>3. InFlight' = InFlight
    BY <2>1, <2>2 DEF InFlight
  <2>4. /\ queue' \in Seq(Commands) /\ Distinct(queue') /\ pending' \in SUBSET Commands
        /\ flags' \subseteq {SOCKET_RECV, M_QUEUE}
    BY <2>1 DEF IInv, TypeOK, PoolConserved, Distinct
  <2>5. /\ Elements(queue') \cap (HeldByAgent \cup pending)' = {}
        /\ (HeldByAgent \cap pending)' = {}
    BY <2>1, <2>2 DEF IInv, PoolConserved
  <2>6. IInv'
    BY <2>1, <2>3, <2>4, <2>5, MoveInFlight DEF AgentStates
  <2> QED BY <2>1, <2>6 DEF HandsFree
<1>12. CASE DrainConclude \/ ProcessConclude
  <2>1. /\ held \in InFlight /\ Conclude(held) /\ held' = NoCommand
        /\ UNCHANGED <<pc, request, queue, pending, flags>> /\ apc' \in AgentStates
    BY <1>12 DEF DrainConclude, ProcessConclude, InFlight, HeldByAgent, AgentStates,
                 IInv, TypeOK
  <2>2. IInv'
    BY <2>1, ConcludeStep DEF IInv, TypeOK
  <2> QED BY <2>1, <2>2 DEF HandsFree
<1>13. CASE CancelPending \/ ProcessAck
  <2>1. PICK c \in pending : Conclude(c) /\ pending' = pending \ {c}
    BY <1>13 DEF CancelPending, ProcessAck
  <2>2. c \in InFlight /\ UNCHANGED <<pc, request, queue, held, apc, flags>>
    BY <1>13 DEF CancelPending, ProcessAck, InFlight
  <2>3. IInv'
    BY <2>1, <2>2, ConcludeStep DEF IInv, TypeOK
  <2> QED BY <2>2, <2>3 DEF HandsFree
<1> QED
  BY <1>1, <1>2, <1>3, <1>4, <1>5, <1>6, <1>7, <1>8, <1>9, <1>10, <1>11, <1>12, <1>13
  DEF CancelNext, LoopNext

-----------------------------------------------------------------------------
(* The results.                                                            *)

LEMMA Invariance == Spec => [](IInv /\ HandsFree)
<1>1. Init => IInv /\ HandsFree
  BY InitIInv DEF Init, HandsFree
<1>2. IInv /\ HandsFree /\ [Next]_vars => (IInv /\ HandsFree)'
  <2> SUFFICES ASSUME IInv, HandsFree, [Next]_vars PROVE IInv' /\ HandsFree'
    OBVIOUS
  <2>1. CASE UNCHANGED vars
    BY <2>1, OnlyControl DEF vars, taskVars, IInv, TypeOK, HandsFree
  <2>2. ASSUME NEW t \in Tasks, TaskNext(t) PROVE IInv' /\ HandsFree'
    <3>1. UNCHANGED <<apc, held>>
      BY <2>2 DEF TaskNext, ClearNotification, GetCommand, GetCommandFails, Send,
                  SendFails, NotifyAgent, Answered, Timeout, agentVars
    <3> QED BY <2>2, <3>1, TaskStep DEF HandsFree
  <2> QED
    BY <2>1, <2>2, AgentStep DEF Next
<1> QED
  BY <1>1, <1>2, PTL DEF Spec

(* Every variable of the agent, its queues and its clients keeps its type. *)
THEOREM TypeCorrect == Spec => []TypeOK
<1>1. IInv => TypeOK
  BY DEF IInv
<1> QED
  BY <1>1, Invariance, PTL

(* Agent_GetCommand and Agent_ReleaseCommand neither lose nor duplicate a  *)
(* command structure, for pools of any size and any number of tasks.       *)
THEOREM PoolConservation == Spec => []PoolConserved
<1>1. IInv => PoolConserved
  BY DEF IInv
<1> QED
  BY <1>1, Invariance, PTL

(* xQueueSendToBack in prvAgentMessageSend never meets a full queue when   *)
(* the queue is at least as long as the pool is large.                     *)
THEOREM QueueHasRoom == Spec => []QueueNeverFull
<1>1. IInv => QueueNeverFull
  <2> SUFFICES ASSUME IInv, QueueLength >= PoolSize, NEW t \in Tasks, pc[t] = "send"
               PROVE  Len(queue) < QueueLength
    BY DEF QueueNeverFull
  <2>1. request[t] \in Commands /\ request[t] \notin Elements(queue)
    BY AboutToSend DEF InFlight
  <2>2. Len(queue) \in Nat /\ Len(queue) < PoolSize
    BY <2>1, DistinctLen DEF IInv, TypeOK, PoolConserved
  <2> QED
    BY <2>2, PoolSizeAssumption, QueueLengthAssumption
<1> QED
  BY <1>1, Invariance, PTL

(* prvSubscribeRqCallback / prvAgentRequestCallback: a synchronous caller  *)
(* is never orphaned by a cancellation, a failed post or another task.     *)
THEOREM NoOrphanedCaller == Spec => []NoOrphan
<1>1. IInv => NoOrphan
  BY NoCommandIsNull, TasksAssumption DEF IInv, RequestOrAnswer, RequestHeld, NoOrphan, Tasks
<1> QED
  BY <1>1, Invariance, PTL

(* A synchronous caller is only ever woken by the completion of its own    *)
(* request.                                                                *)
THEOREM AnswersMatch == Spec => []AnswerIsForRequest
<1>1. IInv => AnswerIsForRequest
  BY TasksAssumption DEF IInv, TypeOK, TaskStates, RequestOrAnswer, AnswerIsForRequest, Tasks
<1> QED
  BY <1>1, Invariance, PTL

-----------------------------------------------------------------------------
(* The refinement.  The post, the conclusion and the return of a           *)
(* synchronous request are the steps of RequestService; the rest, and all  *)
(* that the tasks with a timeout do, stutters.                             *)

(* Nothing happens to a synchronous request between its post and return.   *)
LEMMA RequestsUntouched ==
  ASSUME \A u \in SyncTasks :
           /\ Waiting(u)' <=> Waiting(u)
           /\ Waiting(u) => request'[u] = request[u] /\ answer'[u] = answer[u]
  PROVE  UNCHANGED RS!requestVars
BY DEF RS!requestVars

(* prvSubscribeRqCallback: the completion of a command in flight answers   *)
(* the one request it belongs to, for the first time.                      *)
LEMMA ConcludeRefines ==
  ASSUME IInv, NEW c \in InFlight, Conclude(c), UNCHANGED <<pc, request>>
  PROVE  [RS!RequestNext]_(RS!requestVars)
<1>1. owner[c] \in Tasks /\ answer' = [answer EXCEPT ![owner[c]] = c]
  BY InFlightFacts DEF Conclude
<1>2. answer \in [Tasks -> Commands \cup {NoCommand}] /\ SyncTasks \subseteq Tasks
  BY DEF IInv, TypeOK, Tasks
<1>3. CASE owner[c] \in SyncTasks
  <2>1. PICK t \in SyncTasks : t = owner[c]
    BY <1>3
  <2>2. Waiting(t) /\ request[t] = c /\ answer[t] = NoCommand /\ c # NoCommand
    BY <2>1, InFlightFacts DEF IInv, ContextKnown, RequestOrAnswer, Waiting
  <2>3. /\ answer'[t] = c
        /\ \A u \in SyncTasks \ {t} : answer'[u] = answer[u]
        /\ \A u \in SyncTasks : Waiting(u)' <=> Waiting(u)
    BY <1>1, <1>2, <2>1 DEF Waiting
  <2> DEFINE ticket == [u \in SyncTasks |-> IF Waiting(u) THEN request[u] ELSE NoCommand]
             reply == [u \in SyncTasks |-> IF Waiting(u) THEN answer[u] ELSE NoCommand]
  <2>4. ticket[t] = c /\ reply[t] = NoCommand
    BY <2>2
  <2>5. ticket' = ticket
    BY <2>3
  <2>6. reply' = [reply EXCEPT ![t] = c]
    BY <2>2, <2>3
  <2>7. RS!Answer(t)
    BY <2>2, <2>4, <2>5, <2>6 DEF RS!Answer, RS!OpenRequest
  <2> QED
    BY <2>7 DEF RS!RequestNext
<1>4. CASE owner[c] \notin SyncTasks
  <2>1. \A u \in SyncTasks : answer'[u] = answer[u] /\ (Waiting(u)' <=> Waiting(u))
    BY <1>1, <1>2, <1>4 DEF Waiting
  <2> QED
    BY <2>1, RequestsUntouched
<1> QED
  BY <1>3, <1>4

(* A step of a requesting task.                                            *)
LEMMA TaskRefines ==
  ASSUME IInv, NEW t \in Tasks, TaskNext(t)
  PROVE  [RS!RequestNext]_(RS!requestVars)
<1> USE DEF Waiting
<1>1. /\ pc \in [Tasks -> TaskStates] /\ request \in [Tasks -> Commands \cup {NoCommand}]
      /\ answer \in [Tasks -> Commands \cup {NoCommand}] /\ SyncTasks \subseteq Tasks
  BY DEF IInv, TypeOK, Tasks
<1>2. CASE ClearNotification(t) \/ GetCommand(t) \/ GetCommandFails(t) \/ SendFails(t)
  <2>1. \A u \in SyncTasks :
          /\ Waiting(u)' <=> Waiting(u)
          /\ Waiting(u) => request'[u] = request[u] /\ answer'[u] = answer[u]
    BY <1>1, <1>2 DEF ClearNotification, GetCommand, GetCommandFails, SendFails
  <2> QED
    BY <2>1, RequestsUntouched
<1>3. CASE NotifyAgent(t)
  <2>1. \A u \in SyncTasks :
          /\ Waiting(u)' <=> Waiting(u)
          /\ Waiting(u) => request'[u] = request[u] /\ answer'[u] = answer[u]
    BY <1>1, <1>3 DEF NotifyAgent
  <2> QED
    BY <2>1, RequestsUntouched
<1>4. CASE Send(t)
  <2>1. /\ pc[t] = "send" /\ pc' = [pc EXCEPT ![t] = "notify"]
        /\ UNCHANGED <<request, answer>>
    BY <1>4 DEF Send
  <2>2. CASE t \in SyncTasks
    <3>1. /\ request[t] \in Commands /\ request[t] \notin InFlight
          /\ answer[t] = NoCommand
      BY <2>1, <2>2, AboutToSend
    <3>2. \A u \in SyncTasks :
            Waiting(u) /\ answer[u] = NoCommand /\ request[u] # NoCommand
              => request[u] # request[t]
      BY <3>1 DEF IInv, RequestOrAnswer
    <3>3. /\ ~Waiting(t) /\ Waiting(t)'
          /\ \A u \in SyncTasks \ {t} : Waiting(u)' <=> Waiting(u)
      BY <1>1, <2>1, <2>2
    <3> HIDE DEF Waiting
    <3> DEFINE ticket == [u \in SyncTasks |-> IF Waiting(u) THEN request[u] ELSE NoCommand]
               reply == [u \in SyncTasks |-> IF Waiting(u) THEN answer[u] ELSE NoCommand]
    <3>4. ticket[t] = NoCommand /\ reply' = reply
      BY <2>1, <2>2, <3>1, <3>3
    <3>5. ticket' = [ticket EXCEPT ![t] = request[t]]
      BY <2>1, <2>2, <3>3
    <3>6. \A u \in SyncTasks :
            ticket[u] # NoCommand /\ reply[u] = NoCommand => ticket[u] # request[t]
      BY <3>2
    <3>7. PICK c \in Commands : c = request[t]
      BY <3>1
    <3>8. RS!Post(t, c)
      BY <3>4, <3>5, <3>6, <3>7 DEF RS!Post, RS!OpenRequest
    <3> QED
      BY <2>2, <3>8 DEF RS!RequestNext
  <2>3. CASE t \notin SyncTasks
    <3>1. \A u \in SyncTasks : Waiting(u)' <=> Waiting(u)
      BY <1>1, <2>1, <2>3
    <3> QED
      BY <2>1, <3>1, RequestsUntouched
  <2> QED
    BY <2>2, <2>3
<1>5. CASE t \notin SyncTasks /\ (Answered(t) \/ Timeout(t))
  <2>1. \A u \in SyncTasks :
          /\ Waiting(u)' <=> Waiting(u)
          /\ Waiting(u) => request'[u] = request[u] /\ answer'[u] = answer[u]
    BY <1>1, <1>5 DEF Answered, Timeout, Return
  <2> QED
    BY <2>1, RequestsUntouched
<1>6. CASE t \in SyncTasks /\ Answered(t)
  <2>1. /\ Waiting(t) /\ ~Waiting(t)' /\ answer[t] # NoCommand
        /\ \A u \in SyncTasks \ {t} :
             /\ Waiting(u)' <=> Waiting(u)
             /\ request'[u] = request[u] /\ answer'[u] = answer[u]
    BY <1>1, <1>6 DEF Answered, Return
  <2> HIDE DEF Waiting
  <2>2. RS!Collect(t)
    BY <1>6, <2>1 DEF RS!Collect
  <2> QED
    BY <1>6, <2>2 DEF RS!RequestNext
<1>7. ~(t \in SyncTasks /\ Timeout(t))
  BY TasksAssumption DEF Timeout
<1> QED
  BY <1>2, <1>3, <1>4, <1>5, <1>6, <1>7 DEF TaskNext

LEMMA NextRefines == IInv /\ [Next]_vars => [RS!RequestNext]_(RS!requestVars)
<1> SUFFICES ASSUME IInv, [Next]_vars PROVE [RS!RequestNext]_(RS!requestVars)
  OBVIOUS
<1>1. CASE UNCHANGED taskVars
  <2>1. UNCHANGED <<pc, request, answer>>
    BY <1>1 DEF taskVars
  <2> QED
    BY <2>1, RequestsUntouched DEF Waiting
<1>2. CASE DrainConclude \/ ProcessConclude
  <2>1. held \in InFlight /\ Conclude(held) /\ UNCHANGED <<pc, request>>
    BY <1>2 DEF DrainConclude, ProcessConclude, InFlight, HeldByAgent
  <2> QED
    BY <2>1, ConcludeRefines
<1>3. CASE CancelPending \/ ProcessAck
  <2>1. PICK c \in pending : Conclude(c)
    BY <1>3 DEF CancelPending, ProcessAck
  <2>2. c \in InFlight /\ UNCHANGED <<pc, request>>
    BY <1>3 DEF CancelPending, ProcessAck, InFlight
  <2> QED
    BY <2>1, <2>2, ConcludeRefines
<1>4. CASE \E t \in Tasks : TaskNext(t)
  BY <1>4, TaskRefines
<1>5. ASSUME UNCHANGED vars \/ SocketRecvReady \/ TlsConnected \/ MqttConnected
      PROVE  UNCHANGED taskVars
  BY <1>5 DEF vars, taskVars, SocketRecvReady, TlsConnected, MqttConnected
<1>6. ASSUME Drain \/ DrainDone \/ CancelDone \/ LoopReceive \/ ProcessNothing
             \/ ProcessAwaitAck \/ LoopAgain \/ LoopFails
      PROVE  UNCHANGED taskVars
  BY <1>6 DEF Drain, DrainDone, CancelDone, LoopReceive, ProcessNothing,
              ProcessAwaitAck, LoopAgain, LoopFails
<1> QED
  BY <1>1, <1>2, <1>3, <1>4, <1>5, <1>6 DEF Next, CancelNext, LoopNext

(* The agent, its pool and its queue implement RequestService for the      *)
(* synchronous requests of every number of tasks: MqttAgent_SubscribeSync  *)
(* and MqttAgent_UnSubscribeSync return with the one answer to their own   *)
(* command and never without it.                                           *)
THEOREM RequestsRefine == Spec => SyncRequests
<1>1. Init => RS!RequestInit
  BY DEF Init, RS!RequestInit, Waiting, Tasks
<1>2. IInv /\ [Next]_vars => [RS!RequestNext]_(RS!requestVars)
  BY NextRefines
<1> QED
  BY <1>1, <1>2, Invariance, PTL DEF Spec, SyncRequests, RS!RequestSpec

=============================================================================
