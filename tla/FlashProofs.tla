---------------------------- MODULE FlashProofs -----------------------------
(***************************************************************************)
(* Proofs about the two layers that put an image into flash, each with its *)
(* own specification and inductive invariant.                              *)
(*                                                                         *)
(* OtaPal, the OTA platform layer, for images of every size, every length  *)
(* of the queue and every number of jobs, faults and resets: no page is    *)
(* lost or programmed twice on its way into flash, the header is written   *)
(* after all of them, and no operation is requested of the flash while     *)
(* another goes on.                                                        *)
(*                                                                         *)
(* FlashDriver, the driver beneath it, for every layout of the blocks and  *)
(* every number of callers whose calls do not overlap, as in the           *)
(* application: it implements FlashService.                                *)
(***************************************************************************)
EXTENDS OtaPal, FlashDriver, FiniteSetTheorems, SequenceTheorems, TLAPS

-----------------------------------------------------------------------------
(* The inductive invariant.  PagesConserved is an account that is kept     *)
(* while an image is received and checked: every page that was taken from  *)
(* the agent is in the queue, in the hands of the flashing task, being     *)
(* programmed or done.  What has to be added is where else a page may be   *)
(* (nowhere), who may have the semaphore and the flash at each step of the *)
(* agent, and that the packets left over when a file is given up find the  *)
(* flash free or never get the semaphore.                                  *)

(* The account is kept.                                                    *)
Kept == Receiving \cup {"tailWait", "verify"}

(* The flashing task has nothing to do.                                    *)
Quiet == queue = <<>> /\ task.page = Nothing

(* fragmented_flash_block_list: what is in the list at each step of the    *)
(* agent.                                                                  *)
FragmentsKnown ==
  /\ ota = "open" => fragments = IF LastBlock \in accepted THEN {TailPage} ELSE {}
  /\ ota = "assemble" => hasTail /\ LastBlock \notin accepted /\ TailPage \in fragments
  /\ ota = "check" => ~hasTail /\ accepted = Blocks /\ fragments = {}
  /\ ota \in {"tail", "tailWait"} => hasTail /\ accepted = AllBlocks /\ fragments = {TailPage}
  /\ ota = "verify" => accepted = AllBlocks /\ fragments = {}

(* The task is there while a file is open; it has a packet exactly when it *)
(* waits for the semaphore, or was woken by it; and it has nothing to do   *)
(* before the area is erased and after the signature was accepted.  The    *)
(* agent waits for the flash with a callback of its own.                   *)
TaskKnown ==
  /\ ota \in Receiving => task.at # "none" /\ callback = "flashing"
  /\ ota = "erase" => task.at # "none" /\ accepted = {} /\ fragments = {}
  /\ task.at \in {"take", "woken"} => task.page # Nothing
  /\ task.page # Nothing => task.at \in {"take", "woken"}
  /\ task.at = "none" => sem = "none"
  /\ ota \in {"erase", "header", "headerWait", "closed"} => Quiet
  /\ ota \in {"erase", "tailWait", "headerWait", "commit"} => callback = "header"
  /\ ota = "tailWait" => sem = "taken"

(* xSemaphoreFlashig is given only if the flash is free, but for the       *)
(* operations that the agent waits for while the task has nothing to do;   *)
(* and the end of such an operation is seen only when it is over.          *)
SemaphoreMeansFree ==
  /\ sem = "given" /\ busy # Nothing =>
       Quiet /\ ota \in {"erase", "failed", "headerWait", "commit"}
  /\ ota = "commit" /\ sem = "given" => Quiet
  /\ ota \in {"tailWait", "headerWait", "commit"} /\ headerDone => busy = Nothing
  /\ ota = "header" => busy = Nothing
  /\ ota = "erase" => \/ busy = Erase /\ ~headerDone
                      \/ busy = Nothing /\ headerDone /\ flashed = {}

(* total_image_length and the pages that are still on their way.           *)
LengthBounded == total + Waiting <= Cardinality(Pages)

(* Only pages that were taken are anywhere, and the tail.                  *)
PlacesKnown ==
  /\ ota \in Kept =>
       /\ \A p \in Pages : InQueue(p) => p \in Taken
       /\ task.page \in Taken \cup {Nothing}
       /\ flashed \subseteq Taken \cup {TailPage}
  /\ ota \in Receiving => flashed \subseteq Taken
  /\ ota \in Receiving \cup {"verify"} => busy \in Taken \cup {Nothing}
  /\ ota = "tailWait" => busy \in {TailPage, Nothing}

IInv ==
  /\ TypeOK /\ FragmentsKnown /\ TaskKnown /\ SemaphoreMeansFree /\ LengthBounded
  /\ PlacesKnown /\ PagesConserved /\ NeverRefused

-----------------------------------------------------------------------------
(* Facts about pages and packets.                                          *)

(* The pages of an image, and what the flash may be busy with besides.     *)
LEMMA PageFacts ==
  /\ Pages = 1 .. TailPage /\ Pages \subseteq Nat \ {0} /\ TailPage \in Pages
  /\ Blocks \cap LastPages = {} /\ TailPage \notin Blocks \cup LastPages
  /\ Blocks \cup LastPages \subseteq Pages
  /\ Nothing \notin Pages /\ Erase \notin Pages /\ Header \notin Pages
  /\ Nothing # Erase /\ Nothing # Header /\ Erase # Header
BY SizesAssumption DEF Pages, Blocks, LastPages, TailPage, Nothing, Erase, Header

(* An image is finite.                                                     *)
LEMMA PagesFinite ==
  IsFiniteSet(Pages) /\ Cardinality(Pages) \in Nat
  /\ IsFiniteSet(Blocks) /\ Cardinality(Blocks) \in Nat
<1>1. TailPage \in Int /\ NumBlocks \in Int
  BY SizesAssumption DEF TailPage
<1>2. IsFiniteSet(1 .. TailPage) /\ IsFiniteSet(1 .. NumBlocks)
  BY <1>1, FS_Interval
<1>3. IsFiniteSet(Pages) /\ IsFiniteSet(Blocks)
  BY <1>2, PageFacts DEF Blocks
<1> QED
  BY <1>3, FS_CardinalityType

(* The tail is not among the pages that go to the queue.                   *)
LEMMA TakenFacts ==
  /\ Taken \subseteq Pages /\ TailPage \notin Taken /\ IsFiniteSet(Taken)
  /\ Cardinality(Taken) \in Nat /\ Cardinality(Taken) + 1 <= Cardinality(Pages)
<1>1. Taken \subseteq Pages /\ TailPage \notin Taken
  BY PageFacts DEF Taken
<1>2. IsFiniteSet(Taken) /\ Cardinality(Taken) \in Nat
  BY <1>1, PagesFinite, FS_Subset, FS_CardinalityType
<1>3. Cardinality(Taken \cup {TailPage}) = Cardinality(Taken) + 1
  BY <1>1, <1>2, FS_AddElement
<1>4. Taken \cup {TailPage} \subseteq Pages
  BY <1>1, PageFacts
<1>5. Cardinality(Taken \cup {TailPage}) <= Cardinality(Pages)
  BY <1>4, PagesFinite, FS_Subset
<1> QED
  BY <1>1, <1>2, <1>3, <1>5

(* One more page is taken.                                                 *)
LEMMA OneMorePage ==
  ASSUME NEW p \in Pages, p \notin Taken, Taken' = Taken \cup {p}
  PROVE  Cardinality(Taken') = Cardinality(Taken) + 1
         /\ Cardinality(Taken') <= Cardinality(Pages)
<1>1. Cardinality(Taken \cup {p}) = Cardinality(Taken) + 1
  BY TakenFacts, FS_AddElement
<1>2. Taken \cup {p} \subseteq Pages
  BY TakenFacts
<1>3. Cardinality(Taken \cup {p}) <= Cardinality(Pages)
  BY <1>2, PagesFinite, FS_Subset
<1> QED
  BY <1>1, <1>3

(* The numbers of the account are natural numbers.                         *)
LEMMA CountTypes ==
  ASSUME TypeOK
  PROVE  total \in Nat /\ Len(queue) \in Nat /\ InHand \in {0, 1} /\ Waiting \in Nat
<1>1. Len(queue) \in Nat /\ InHand \in {0, 1}
  BY LenProperties DEF TypeOK, InHand
<1>2. total \in Nat
  BY PagesFinite DEF TypeOK
<1> QED
  BY <1>1, <1>2 DEF Waiting

QueueDistinct == \A i, j \in DOMAIN queue : queue[i] = queue[j] => i = j

(* xQueue is a FIFO.                                                       *)
LEMMA QueueTail ==
  ASSUME TypeOK, queue # <<>>, queue' = Tail(queue)
  PROVE  /\ Head(queue) \in Pages /\ queue' \in Seq(Pages) /\ Len(queue') = Len(queue) - 1
         /\ Len(queue) \in Nat /\ InQueue(Head(queue))
         /\ \A p \in Pages : InQueue(p) => p = Head(queue) \/ InQueue(p)'
         /\ \A p \in Pages : InQueue(p)' => InQueue(p)
         /\ QueueDistinct => QueueDistinct' /\ ~(\E i \in DOMAIN queue' : queue'[i] = Head(queue))
<1>1. /\ queue \in Seq(Pages) /\ Head(queue) \in Pages /\ Tail(queue) \in Seq(Pages)
      /\ Len(Tail(queue)) = Len(queue) - 1
      /\ \A i \in 1 .. Len(Tail(queue)) : Tail(queue)[i] = queue[i + 1]
  BY HeadTailProperties DEF TypeOK
<1>2. /\ Len(queue) \in Nat /\ DOMAIN queue = 1 .. Len(queue)
      /\ DOMAIN Tail(queue) = 1 .. Len(queue) - 1
  BY <1>1, LenProperties
<1>3. Head(queue) = queue[1] /\ 1 \in DOMAIN queue
  <2>1. Len(queue) # 0
    BY <1>1, EmptySeq
  <2> QED
    BY <1>1, <1>2, <2>1
<1>4. ASSUME NEW p \in Pages, InQueue(p)
      PROVE  p = Head(queue) \/ InQueue(p)'
  <2>1. PICK i \in 1 .. Len(queue) : queue[i] = p
    BY <1>2, <1>4 DEF InQueue
  <2>2. CASE i = 1
    BY <1>3, <2>1, <2>2
  <2>3. CASE i # 1
    <3>1. i - 1 \in 1 .. Len(queue) - 1 /\ (i - 1) + 1 = i
      BY <1>2, <2>1, <2>3
    <3>2. queue'[i - 1] = p /\ i - 1 \in DOMAIN queue'
      BY <1>1, <1>2, <2>1, <3>1
    <3> QED
      BY <3>2 DEF InQueue
  <2> QED
    BY <2>2, <2>3
<1>5. ASSUME NEW i \in DOMAIN queue'
      PROVE  i + 1 \in DOMAIN queue /\ queue'[i] = queue[i + 1] /\ i + 1 # 1 /\ i \in Nat
  BY <1>1, <1>2
<1>6. \A p \in Pages : InQueue(p)' => InQueue(p)
  BY <1>5 DEF InQueue
<1>7. ASSUME QueueDistinct
      PROVE  QueueDistinct' /\ ~(\E i \in DOMAIN queue' : queue'[i] = Head(queue))
  <2>1. ASSUME NEW i \in DOMAIN queue', NEW j \in DOMAIN queue', queue'[i] = queue'[j]
        PROVE  i = j
    <3>1. i + 1 = j + 1
      BY <1>5, <1>7, <2>1 DEF QueueDistinct
    <3> QED
      BY <1>5, <3>1
  <2>2. ~(\E i \in DOMAIN queue' : queue'[i] = Head(queue))
    BY <1>3, <1>5, <1>7 DEF QueueDistinct
  <2> QED
    BY <2>1, <2>2 DEF QueueDistinct
<1> QED
  BY <1>1, <1>2, <1>3, <1>4, <1>6, <1>7 DEF InQueue

LEMMA QueueAppend ==
  ASSUME TypeOK, NEW p \in Pages, queue' = Append(queue, p)
  PROVE  /\ queue' \in Seq(Pages) /\ Len(queue') = Len(queue) + 1 /\ Len(queue) \in Nat
         /\ InQueue(p)' /\ \A q \in Pages : InQueue(q) => InQueue(q)'
         /\ \A q \in Pages : InQueue(q)' => q = p \/ InQueue(q)
         /\ QueueDistinct /\ ~InQueue(p) => QueueDistinct'
<1>1. queue \in Seq(Pages)
  BY DEF TypeOK
<1>2. /\ Append(queue, p) \in Seq(Pages) /\ Len(Append(queue, p)) = Len(queue) + 1
      /\ \A i \in 1 .. Len(queue) : Append(queue, p)[i] = queue[i]
      /\ Append(queue, p)[Len(queue) + 1] = p
      /\ Len(queue) \in Nat /\ DOMAIN queue = 1 .. Len(queue)
      /\ DOMAIN Append(queue, p) = 1 .. Len(queue) + 1
  BY <1>1, AppendProperties, LenProperties
<1>3. Len(queue) + 1 \in 1 .. Len(queue) + 1 /\ \A i \in 1 .. Len(queue) : i \in 1 .. Len(queue) + 1
  BY <1>2
<1>4. ASSUME NEW i \in DOMAIN queue'
      PROVE  \/ i \in DOMAIN queue /\ queue'[i] = queue[i]
             \/ i = Len(queue) + 1 /\ queue'[i] = p
  BY <1>2
<1>5. \A q \in Pages : InQueue(q)' => q = p \/ InQueue(q)
  BY <1>4 DEF InQueue
<1>6. ASSUME QueueDistinct, ~InQueue(p) PROVE QueueDistinct'
  BY <1>4, <1>6 DEF QueueDistinct, InQueue
<1> QED
  BY <1>2, <1>3, <1>5, <1>6 DEF InQueue

LEMMA EmptyQueue == <<>> \in Seq(Pages) /\ Len(<<>>) = 0 /\ 0 <= QueueLength
BY SizesAssumption, EmptySeq

(* Nothing on its way means nothing to do.                                 *)
LEMMA NoneWaiting ==
  ASSUME TypeOK, Waiting = 0
  PROVE  Quiet
<1>1. Len(queue) = 0 /\ InHand = 0
  BY CountTypes DEF Waiting
<1>2. queue = <<>>
  BY <1>1, EmptySeq DEF TypeOK
<1> QED
  BY <1>1, <1>2 DEF Quiet, InHand

(* Whatever the account speaks of is a page.                               *)
LEMMA KeptBusy ==
  ASSUME IInv, ota \in Kept
  PROVE  busy \in Pages \cup {Nothing} /\ busy \notin {Erase, Header}
BY TakenFacts, PageFacts DEF IInv, PlacesKnown, Kept

-----------------------------------------------------------------------------
(* The initial state.                                                      *)

LEMMA InitIInv == Init => IInv
<1> SUFFICES ASSUME Init PROVE IInv
  OBVIOUS
<1>1. /\ ota = "idle" /\ queue = <<>> /\ task = NoTask /\ sem = "none" /\ busy = Nothing
      /\ total = 0 /\ refused = FALSE
  BY DEF Init
<1>2. 0 \in 0 .. Cardinality(Pages) /\ 0 \in 0 .. MaxJobs /\ 0 \in 0 .. MaxFaults
      /\ 0 \in 0 .. MaxResets
  BY PagesFinite, SizesAssumption
<1>3. TypeOK
  BY <1>2, EmptyQueue DEF Init, TypeOK, NoTask, ImageStates
<1>4. Quiet /\ Waiting = 0
  BY <1>1, EmptyQueue DEF Quiet, Waiting, InHand, NoTask
<1>5. LengthBounded
  BY <1>1, <1>4, PagesFinite DEF LengthBounded
<1>6. FragmentsKnown /\ SemaphoreMeansFree /\ PlacesKnown /\ PagesConserved /\ NeverRefused
  BY <1>1 DEF FragmentsKnown, SemaphoreMeansFree, PlacesKnown, PagesConserved,
     NeverRefused, Receiving, Kept
<1>7. TaskKnown
  BY <1>1, <1>4 DEF TaskKnown, NoTask, Receiving
<1> QED
  BY <1>3, <1>5, <1>6, <1>7 DEF IInv

-----------------------------------------------------------------------------
(* The flashing task and the flash interrupt.                              *)

(* xQueueReceive: a packet goes from the queue into the task's hands.      *)
LEMMA FlashReceiveIInv ==
  ASSUME IInv, FlashReceive
  PROVE  IInv'
<1>1. /\ task.at = "receive" /\ queue # <<>> /\ queue' = Tail(queue)
      /\ task'.at = "take" /\ task'.page = Head(queue)
      /\ task' = [at |-> "take", page |-> Head(queue)]
      /\ UNCHANGED <<ota, hasTail, accepted, fragments, sem, busy, callback, headerDone, flashed,
                     total, saved, selfTest, refused, halted, jobs, bad, faults, resets>>
  BY DEF FlashReceive, faultVars
<1>2. /\ Head(queue) \in Pages /\ queue' \in Seq(Pages) /\ Len(queue') = Len(queue) - 1
      /\ Len(queue) \in Nat /\ InQueue(Head(queue))
      /\ \A p \in Pages : InQueue(p) => p = Head(queue) \/ InQueue(p)'
      /\ \A p \in Pages : InQueue(p)' => InQueue(p)
      /\ QueueDistinct => QueueDistinct' /\ ~(\E i \in DOMAIN queue' : queue'[i] = Head(queue))
  BY <1>1, QueueTail DEF IInv
<1>3. task.page = Nothing /\ task'.page # Nothing
  BY <1>1, <1>2, PageFacts DEF IInv, TaskKnown
<1>4. ~Quiet /\ ota \notin {"erase", "header", "headerWait", "closed"}
      /\ (sem = "given" => busy = Nothing /\ ota # "commit")
  BY <1>1 DEF IInv, TaskKnown, SemaphoreMeansFree, Quiet
<1>5. TypeOK'
  <2>1. Len(queue') <= QueueLength
    BY <1>2, SizesAssumption DEF IInv, TypeOK
  <2> QED
    BY <1>1, <1>2, <2>1 DEF IInv, TypeOK, AllBlocks
<1>6. FragmentsKnown' /\ TaskKnown' /\ SemaphoreMeansFree'
  BY <1>1, <1>3, <1>4 DEF IInv, FragmentsKnown, TaskKnown, SemaphoreMeansFree, AllBlocks, Receiving
<1>7. Taken' = Taken /\ TailCounted' = TailCounted
  BY <1>1 DEF Taken, LastBegun, TailCounted
<1>8. Waiting' = Waiting
  BY <1>2, <1>3 DEF Waiting, InHand
<1>9. LengthBounded'
  BY <1>1, <1>8 DEF IInv, LengthBounded
<1>10. PlacesKnown'
  BY <1>1, <1>2, <1>7 DEF IInv, PlacesKnown, Kept
<1>11. ASSUME ota \in Kept PROVE NoneLost' /\ LengthExact' /\ NoneTwice'
  <2>1. NoneLost /\ LengthExact /\ NoneTwice
    BY <1>11 DEF IInv, PagesConserved, Kept
  <2>2. NoneLost' /\ LengthExact'
    BY <1>1, <1>2, <1>3, <1>7, <1>8, <2>1, TakenFacts, PageFacts DEF NoneLost, LengthExact
  <2>3. QueueDistinct' /\ ~(\E i \in DOMAIN queue' : queue'[i] = Head(queue))
    BY <1>2, <2>1 DEF NoneTwice, QueueDistinct
  <2>4. \A p \in Pages : InQueue(p)' => p \notin flashed \cup {Head(queue), busy}
    BY <1>2, <2>1, <2>3 DEF NoneTwice, InQueue
  <2>5. Head(queue) \notin flashed \cup {busy}
    BY <1>2, <2>1 DEF NoneTwice
  <2> QED
    BY <1>1, <2>1, <2>2, <2>3, <2>4, <2>5 DEF NoneTwice, QueueDistinct
<1>12. PagesConserved' /\ NeverRefused'
  BY <1>1, <1>11 DEF IInv, PagesConserved, NeverRefused, Kept
<1> QED
  BY <1>5, <1>6, <1>9, <1>10, <1>12 DEF IInv

(* R_FLASH_Write of a packet, with the semaphore: the flash is free.       *)
LEMMA FlashWriteIInv ==
  ASSUME IInv, FlashWrite
  PROVE  IInv'
<1>1. /\ task.at \in {"take", "woken"} /\ sem = "given" /\ sem' = "taken" /\ total' = total + 1
      /\ task'.at = "receive" /\ task'.page = Nothing
      /\ task' = [at |-> "receive", page |-> Nothing]
      /\ UNCHANGED <<ota, hasTail, accepted, fragments, queue, callback, headerDone, flashed,
                     saved, selfTest, halted, jobs, bad, faults, resets>>
  BY DEF FlashWrite, faultVars
<1>2. task.page # Nothing /\ task.page \in Pages
  BY <1>1 DEF IInv, TaskKnown, TypeOK
<1>3. busy = Nothing /\ ota \notin {"erase", "header", "headerWait", "closed", "commit", "tailWait"}
  BY <1>1, <1>2 DEF IInv, TaskKnown, SemaphoreMeansFree, Quiet
<1>4. busy' = task.page /\ refused' = refused
  BY <1>3 DEF FlashWrite, Request, IInv, TypeOK
<1>5. Taken' = Taken /\ TailCounted' = TailCounted
  BY <1>1 DEF Taken, LastBegun, TailCounted
<1>6. total \in Nat /\ Waiting \in Nat /\ Len(queue) \in Nat /\ InHand = 1 /\ InHand' = 0
  BY <1>1, <1>2, CountTypes DEF IInv, InHand
<1>7. total' \in Nat /\ Waiting' \in Nat /\ total' + Waiting' = total + Waiting
  BY <1>1, <1>6 DEF Waiting
<1>8. LengthBounded'
  BY <1>7 DEF IInv, LengthBounded
<1>9. TypeOK'
  <2>1. total' \in 0 .. Cardinality(Pages)
    BY <1>7, <1>8, PagesFinite DEF LengthBounded
  <2> QED
    BY <1>1, <1>2, <1>4, <2>1 DEF IInv, TypeOK, AllBlocks
<1>10. FragmentsKnown' /\ TaskKnown'
  BY <1>1, <1>3 DEF IInv, FragmentsKnown, TaskKnown, AllBlocks
<1>11. SemaphoreMeansFree'
  BY <1>1, <1>3 DEF SemaphoreMeansFree
<1>12. PlacesKnown'
  BY <1>1, <1>2, <1>3, <1>4, <1>5 DEF IInv, PlacesKnown, Kept, InQueue, Receiving
<1>13. ASSUME ota \in Kept PROVE NoneLost' /\ LengthExact' /\ NoneTwice'
  <2>1. NoneLost /\ LengthExact /\ NoneTwice
    BY <1>13 DEF IInv, PagesConserved, Kept
  <2>2. NoneLost' /\ LengthExact'
    BY <1>1, <1>3, <1>4, <1>5, <1>7, <2>1, TakenFacts, PageFacts DEF NoneLost, LengthExact, InQueue
  <2>3. NoneTwice'
    BY <1>1, <1>2, <1>4, <2>1, PageFacts DEF NoneTwice, InQueue
  <2> QED
    BY <2>2, <2>3
<1>14. PagesConserved' /\ NeverRefused'
  BY <1>1, <1>4, <1>13 DEF IInv, PagesConserved, NeverRefused, Kept
<1> QED
  BY <1>8, <1>9, <1>10, <1>11, <1>12, <1>14 DEF IInv

(* The task was woken and finds the semaphore taken.                       *)
LEMMA FlashBlocksAgainIInv ==
  ASSUME IInv, FlashBlocksAgain
  PROVE  IInv'
<1>1. /\ task.at = "woken" /\ task' = [task EXCEPT !.at = "take"]
      /\ UNCHANGED <<ota, hasTail, accepted, fragments, queue, sem, busy, callback, headerDone,
                     flashed, total, saved, selfTest, refused, halted, jobs, bad, faults, resets>>
  BY DEF FlashBlocksAgain, faultVars
<1>2. task'.at = "take" /\ task'.page = task.page /\ task' \in [at : {"take"}, page : Pages \cup {Nothing}]
  BY <1>1 DEF IInv, TypeOK
<1>3. TypeOK'
  BY <1>1, <1>2 DEF IInv, TypeOK, AllBlocks
<1>4. FragmentsKnown' /\ TaskKnown' /\ SemaphoreMeansFree'
  BY <1>1, <1>2 DEF IInv, FragmentsKnown, TaskKnown, SemaphoreMeansFree, AllBlocks, Quiet
<1>5. Taken' = Taken /\ TailCounted' = TailCounted /\ Waiting' = Waiting
  BY <1>1, <1>2 DEF Taken, LastBegun, TailCounted, Waiting, InHand
<1>6. LengthBounded' /\ PlacesKnown' /\ NeverRefused'
  BY <1>1, <1>2, <1>5 DEF IInv, LengthBounded, PlacesKnown, NeverRefused, InQueue
<1>7. PagesConserved'
  BY <1>1, <1>2, <1>5 DEF IInv, PagesConserved, NoneLost, LengthExact, NoneTwice, InQueue
<1> QED
  BY <1>3, <1>4, <1>6, <1>7 DEF IInv

(* An operation ends: what it was to program is in flash, or it is bad.    *)
LEMMA EndsFacts ==
  ASSUME IInv, NEW ok \in BOOLEAN, Ends(ok)
  PROVE  /\ busy # Nothing /\ busy' = Nothing /\ faults' \in 0 .. MaxFaults
         /\ flashed' \subseteq Pages /\ bad' \subseteq Pages \cup {Header}
         /\ busy = Erase => flashed' = {}
         /\ busy # Erase => /\ flashed \cup bad \subseteq flashed' \cup bad'
                            /\ flashed' \subseteq flashed \cup {busy}
                            /\ busy \in Pages => busy \in flashed' \cup bad'
<1>1. busy # Nothing /\ busy' = Nothing
  BY DEF Ends
<1>2. faults' \in 0 .. MaxFaults
  BY SizesAssumption DEF IInv, TypeOK, Ends
<1>3. CASE busy = Erase
  <2>1. flashed' = {} /\ (bad' = {} \/ \E k \in Pages : bad' = 1 .. k)
    BY <1>3 DEF Ends
  <2>2. \A k \in Pages : 1 .. k \subseteq Pages
    BY PageFacts, SizesAssumption DEF TailPage
  <2> QED
    BY <1>1, <1>2, <1>3, <2>1, <2>2
<1>4. CASE busy # Erase
  <2>1. /\ bad' = bad \/ bad' = bad \cup {busy}
        /\ flashed' = flashed \cup (({busy} \cap Pages) \ bad')
    BY <1>4 DEF Ends
  <2>2. busy \in Pages \cup {Header} /\ flashed \subseteq Pages /\ bad \subseteq Pages \cup {Header}
    BY <1>1, <1>4 DEF IInv, TypeOK
  <2> QED
    BY <1>1, <1>2, <1>4, <2>1, <2>2
<1> QED
  BY <1>3, <1>4

(* The end of an operation keeps the account.                              *)
LEMMA EndsAccounted ==
  ASSUME IInv, NEW ok \in BOOLEAN, Ends(ok), task'.page = task.page,
         UNCHANGED <<ota, hasTail, accepted, fragments, queue, total, refused>>
  PROVE  /\ FragmentsKnown' /\ LengthBounded' /\ PlacesKnown' /\ PagesConserved'
         /\ NeverRefused'
<1>1. Taken' = Taken /\ Waiting' = Waiting /\ TailCounted' = TailCounted
  BY DEF Taken, LastBegun, Waiting, InHand, TailCounted
<1>2. FragmentsKnown' /\ LengthBounded' /\ NeverRefused'
  BY <1>1 DEF IInv, FragmentsKnown, LengthBounded, NeverRefused, AllBlocks
<1>3. ota \in Kept =>
        /\ busy # Erase /\ busy \in Pages /\ busy' = Nothing /\ flashed' \subseteq Pages
        /\ flashed \cup bad \subseteq flashed' \cup bad' /\ busy \in flashed' \cup bad'
        /\ flashed' \subseteq flashed \cup {busy}
  BY EndsFacts, KeptBusy
<1>4. PlacesKnown'
  BY <1>1, <1>3, PageFacts DEF IInv, PlacesKnown, InQueue, Kept, Receiving, Nothing
<1>5. ASSUME ota \in Kept PROVE NoneLost' /\ LengthExact' /\ NoneTwice'
  <2>1. NoneLost /\ LengthExact /\ NoneTwice
    BY <1>5 DEF IInv, PagesConserved, Kept
  <2>2. NoneLost'
    BY <1>1, <1>3, <1>5, <2>1 DEF NoneLost, InQueue
  <2>3. LengthExact'
    BY <1>1, <2>1 DEF LengthExact
  <2>4. NoneTwice'
    BY <1>3, <1>5, <2>1, PageFacts DEF NoneTwice, InQueue
  <2> QED
    BY <2>2, <2>3, <2>4
<1>6. PagesConserved'
  BY <1>5 DEF PagesConserved, Kept
<1> QED
  BY <1>2, <1>4, <1>6

(* ota_flashing_callback: the semaphore is given when the flash is free.   *)
LEMMA FlashingCallbackIInv ==
  ASSUME IInv, NEW ok \in BOOLEAN, FlashingCallback(ok)
  PROVE  IInv'
<1>1. /\ Ends(ok) /\ halted' \in BOOLEAN /\ callback = "flashing"
      /\ sem' = IF sem = "none" THEN sem ELSE "given"
      /\ task' = IF task.at = "take" THEN [task EXCEPT !.at = "woken"] ELSE task
      /\ UNCHANGED <<ota, hasTail, accepted, fragments, queue, callback, headerDone, total,
                     saved, selfTest, refused, jobs, resets>>
  BY DEF FlashingCallback
<1>2. /\ task' \in [at : {"none", "receive", "take", "woken"}, page : Pages \cup {Nothing}]
      /\ task'.page = task.page
      /\ task'.at = IF task.at = "take" THEN "woken" ELSE task.at
  BY <1>1 DEF IInv, TypeOK
<1>3. sem' \in {"none", "given"} /\ (sem = "none" => sem' = "none")
  BY <1>1
<1>4. TypeOK'
  BY <1>1, <1>2, <1>3, EndsFacts DEF IInv, TypeOK, AllBlocks
<1>5. ota \notin {"erase", "tailWait", "headerWait", "commit"}
  BY <1>1 DEF IInv, TaskKnown
<1>6. TaskKnown'
  BY <1>1, <1>2, <1>3, <1>5 DEF IInv, TaskKnown, Quiet
<1>7. SemaphoreMeansFree'
  BY <1>1, <1>5, EndsFacts DEF SemaphoreMeansFree
<1> QED
  BY <1>1, <1>2, <1>4, <1>6, <1>7, EndsAccounted DEF IInv

LEMMA HeaderCallbackIInv ==
  ASSUME IInv, NEW ok \in BOOLEAN, HeaderCallback(ok)
  PROVE  IInv'
<1>1. /\ Ends(ok) /\ headerDone' = TRUE
      /\ UNCHANGED <<ota, hasTail, accepted, fragments, queue, task, sem, callback, total,
                     saved, selfTest, refused, halted, jobs, resets>>
  BY DEF HeaderCallback
<1>2. TypeOK'
  BY <1>1, EndsFacts DEF IInv, TypeOK, AllBlocks
<1>3. TaskKnown'
  BY <1>1 DEF IInv, TaskKnown, Quiet
<1>4. SemaphoreMeansFree'
  BY <1>1, EndsFacts, PageFacts DEF IInv, SemaphoreMeansFree, Quiet
<1> QED
  BY <1>1, <1>2, <1>3, <1>4, EndsAccounted DEF IInv

-----------------------------------------------------------------------------
(* The agent: steps after which no file is being received.                 *)

(* Where the account is not kept there is little to say.                   *)
LEMMA NoFile ==
  ASSUME IInv, ota' \notin Kept, refused' = refused, LengthBounded'
  PROVE  /\ FragmentsKnown' /\ PlacesKnown' /\ PagesConserved' /\ NeverRefused'
BY DEF IInv, FragmentsKnown, PlacesKnown, PagesConserved, NeverRefused, Receiving, Kept

(* The length that is left behind, when the queue is emptied or not.       *)
LEMMA LengthLeft ==
  ASSUME IInv, total' = total,
         (queue' = <<>> /\ task'.page = Nothing) \/ UNCHANGED <<queue, task>>
  PROVE  LengthBounded'
<1>1. total \in Nat /\ Waiting \in Nat /\ total + Waiting <= Cardinality(Pages)
      /\ Cardinality(Pages) \in Nat
  BY CountTypes, PagesFinite DEF IInv, LengthBounded
<1>2. Waiting' = 0 \/ Waiting' = Waiting
  BY EmptyQueue DEF Waiting, InHand
<1> QED
  BY <1>1, <1>2 DEF LengthBounded

(* otaPal_CreateFileForRx up to the erase.                                 *)
LEMMA CreateFileForRxIInv ==
  ASSUME IInv, CreateFileForRx
  PROVE  IInv'
<1>1. /\ jobs < MaxJobs /\ jobs' = jobs + 1 /\ ota' \in {"failed", "erase"}
      /\ queue' = <<>> /\ task' = [at |-> "receive", page |-> Nothing] /\ sem' = "given"
      /\ hasTail' \in BOOLEAN /\ fragments' = {} /\ accepted' = {}
      /\ ota' = "erase" => headerDone' = FALSE /\ busy' = Erase /\ callback' = "header"
      /\ UNCHANGED <<flashed, total, saved, selfTest, refused, halted, bad, faults, resets>>
      /\ busy' \in Pages \cup {Nothing, Erase, Header} /\ callback' \in {"flashing", "header"}
      /\ headerDone' \in BOOLEAN
  BY DEF CreateFileForRx, faultVars, IInv, TypeOK
<1>2. TypeOK'
  <2>1. jobs' \in 0 .. MaxJobs
    BY <1>1, SizesAssumption DEF IInv, TypeOK
  <2> QED
    BY <1>1, <2>1, EmptyQueue DEF IInv, TypeOK
<1>3. TaskKnown' /\ SemaphoreMeansFree'
  BY <1>1 DEF TaskKnown, SemaphoreMeansFree, Quiet, Receiving
<1> QED
  BY <1>1, <1>2, <1>3, NoFile, LengthLeft DEF IInv, Receiving, Kept

(* otaPal_Abort and the end of otaPal_CloseFile delete the task, the queue *)
(* and the semaphore.                                                      *)
LEMMA AbortIInv ==
  ASSUME IInv, Abort \/ CloseDone \/ HeaderFails
  PROVE  IInv'
<1>1. /\ task' = NoTask /\ queue' = <<>> /\ sem' = "none" /\ ota' \in {"idle", "closed"}
      /\ task'.page = Nothing /\ task'.at = "none"
      /\ UNCHANGED <<hasTail, accepted, fragments, busy, callback, headerDone, flashed, total,
                     saved, selfTest, refused, halted, jobs, bad, faults, resets>>
  BY DEF Abort, CloseDone, HeaderFails, faultVars, NoTask
<1>2. TypeOK'
  BY <1>1, EmptyQueue DEF IInv, TypeOK, NoTask, AllBlocks
<1>3. TaskKnown' /\ SemaphoreMeansFree'
  BY <1>1 DEF TaskKnown, SemaphoreMeansFree, Quiet, Receiving
<1> QED
  BY <1>1, <1>2, <1>3, NoFile, LengthLeft DEF IInv, Receiving, Kept

(* otaPal_SetPlatformImageState: the flash is free when the erase starts,  *)
(* and a flashing task that was left over will not get the semaphore.      *)
LEMMA SetPlatformImageStateIInv ==
  ASSUME IInv, FlashTaskBlocked, NEW s \in ImageStates, SetPlatformImageState(s)
  PROVE  IInv'
<1>1. /\ ota \in {"idle", "closed", "rejected"}
      /\ \/ UNCHANGED <<ota, busy, callback, headerDone>>
         \/ /\ ota' = "commit" /\ busy' = Erase /\ callback' = "header" /\ headerDone' = FALSE
            /\ task.at # "woken"
      /\ UNCHANGED <<hasTail, accepted, fragments, queue, task, sem, flashed, total,
                     refused, halted, jobs, bad, faults, resets>>
  BY DEF SetPlatformImageState, faultVars
<1>2. TypeOK'
  <2>1. saved' \in ImageStates
    BY DEF SetPlatformImageState, IInv, TypeOK
  <2>2. selfTest' \in BOOLEAN
    <3>1. selfTest' = selfTest \/ selfTest' = (selfTest /\ s = "Testing")
      BY Zenon DEF SetPlatformImageState
    <3> QED
      BY <3>1, Zenon DEF IInv, TypeOK
  <2>3. /\ busy' \in Pages \cup {Nothing, Erase, Header} /\ callback' \in {"flashing", "header"}
        /\ headerDone' \in BOOLEAN
    BY <1>1 DEF IInv, TypeOK
  <2> QED
    BY <1>1, <2>1, <2>2, <2>3 DEF IInv, TypeOK, AllBlocks
<1>3. TaskKnown'
  BY <1>1 DEF IInv, TaskKnown, Quiet, Receiving
<1>4. SemaphoreMeansFree'
  <2>1. CASE ota' = "commit" /\ task.at # "woken"
    <3>1. sem = "given" => Quiet
      BY <2>1 DEF IInv, TypeOK, TaskKnown, FlashTaskBlocked, Quiet
    <3> QED
      BY <1>1, <2>1, <3>1 DEF SemaphoreMeansFree, Quiet
  <2>2. CASE UNCHANGED <<ota, busy, callback, headerDone>>
    BY <1>1, <2>2 DEF IInv, SemaphoreMeansFree, Quiet
  <2> QED
    BY <1>1, <2>1, <2>2
<1> QED
  BY <1>1, <1>2, <1>3, <1>4, NoFile, LengthLeft DEF IInv, Receiving, Kept

LEMMA CommitErasedIInv ==
  ASSUME IInv, CommitErased
  PROVE  IInv'
<1>1. /\ ota = "commit" /\ headerDone /\ ota' = "idle" /\ saved' = "Accepted" /\ selfTest' = FALSE
      /\ UNCHANGED <<hasTail, accepted, fragments, queue, task, sem, busy, callback, headerDone,
                     flashed, total, refused, halted, jobs, bad, faults, resets>>
  BY DEF CommitErased, faultVars
<1>2. TypeOK'
  BY <1>1 DEF IInv, TypeOK, AllBlocks, ImageStates
<1>3. TaskKnown' /\ SemaphoreMeansFree'
  BY <1>1 DEF IInv, TaskKnown, SemaphoreMeansFree, Quiet, Receiving
<1> QED
  BY <1>1, <1>2, <1>3, NoFile, LengthLeft DEF IInv, Receiving, Kept

(* A reset loses what is in RAM.                                           *)
LEMMA ResetIInv ==
  ASSUME IInv, ActivateNewImage \/ ResetDevice
  PROVE  IInv'
<1>1. /\ resets < MaxResets /\ resets' = resets + 1 /\ ota' = "idle" /\ accepted' = {}
      /\ fragments' = {} /\ queue' = <<>> /\ task' = NoTask /\ sem' = "none" /\ busy' = Nothing
      /\ callback' = "header" /\ headerDone' = FALSE /\ total' = 0 /\ saved' = "Unknown"
      /\ UNCHANGED <<hasTail, flashed, refused, halted, jobs, bad, faults>>
  BY DEF ActivateNewImage, ResetDevice, Reset, faultVars
<1>2. selfTest' \in BOOLEAN
  BY DEF ActivateNewImage, ResetDevice
<1>3. task'.at = "none" /\ task'.page = Nothing
  BY <1>1 DEF NoTask
<1>4. Waiting' = 0
  BY <1>1, <1>3, EmptyQueue DEF Waiting, InHand
<1>5. TypeOK'
  <2>1. resets' \in 0 .. MaxResets /\ total' \in 0 .. Cardinality(Pages)
    BY <1>1, SizesAssumption, PagesFinite DEF IInv, TypeOK
  <2> QED
    BY <1>1, <1>2, <2>1, EmptyQueue DEF IInv, TypeOK, NoTask, ImageStates
<1>6. TaskKnown' /\ SemaphoreMeansFree'
  BY <1>1, <1>3 DEF TaskKnown, SemaphoreMeansFree, Quiet, Receiving
<1>7. LengthBounded'
  BY <1>1, <1>4, PagesFinite DEF LengthBounded
<1> QED
  BY <1>1, <1>5, <1>6, <1>7, NoFile DEF IInv, Receiving, Kept

(* If every page is in flash and the length is that of the image, nothing  *)
(* is on its way.                                                          *)
LEMMA WholeIsQuiet ==
  ASSUME IInv, ota = "verify", ImageIsWhole
  PROVE  Quiet /\ busy = Nothing
<1>1. NoneLost /\ LengthExact /\ NoneTwice /\ accepted = AllBlocks /\ fragments = {}
  BY DEF IInv, PagesConserved, FragmentsKnown
<1>2. flashed = Image /\ total = Cardinality(Image) /\ hasTail \in BOOLEAN
  BY DEF ImageIsWhole, IInv, TypeOK
<1>3. Taken \subseteq Image /\ Cardinality(Image) = Cardinality(Taken) + TailCounted
  <2>1. CASE hasTail
    <3>1. Taken = Blocks \cup LastPages /\ Image = Pages /\ TailCounted = 1
      BY <1>1, <2>1, PageFacts DEF Taken, LastBegun, AllBlocks, LastBlock, Image, TailCounted
    <3>2. Pages = Taken \cup {TailPage} /\ TailPage \notin Taken
      BY <3>1, PageFacts DEF Pages
    <3>3. Cardinality(Taken \cup {TailPage}) = Cardinality(Taken) + 1
      BY <3>2, TakenFacts, FS_AddElement
    <3> QED
      BY <3>1, <3>2, <3>3
  <2>2. CASE ~hasTail
    <3>1. Taken = Blocks /\ Image = Blocks /\ TailCounted = 0
      BY <1>1, <2>2, PageFacts DEF Taken, LastBegun, AllBlocks, LastBlock, Image, TailCounted
    <3> QED
      BY <3>1, PagesFinite
  <2> QED
    BY <1>2, <2>1, <2>2
<1>4. Waiting = 0
  BY <1>1, <1>2, <1>3, CountTypes DEF LengthExact, IInv
<1>5. busy = Nothing
  BY <1>1, <1>2, <1>3 DEF NoneTwice, IInv, PlacesKnown
<1> QED
  BY <1>4, <1>5, NoneWaiting DEF IInv

(* The signature is right, or not.                                         *)
LEMMA VerifyIInv ==
  ASSUME IInv, Verify
  PROVE  IInv'
<1>1. /\ ota = "verify" /\ saved' \in ImageStates
      /\ ota' = "rejected" \/ (ota' = "header" /\ ImageIsWhole)
      /\ UNCHANGED <<hasTail, accepted, fragments, queue, task, sem, busy, callback, headerDone,
                     flashed, total, selfTest, refused, halted, jobs, bad, faults, resets>>
  BY DEF Verify, faultVars, ImageStates, IInv, TypeOK
<1>2. ota' = "header" => Quiet /\ busy = Nothing
  BY <1>1, WholeIsQuiet
<1>3. TypeOK'
  BY <1>1 DEF IInv, TypeOK, AllBlocks
<1>4. TaskKnown' /\ SemaphoreMeansFree'
  BY <1>1, <1>2 DEF IInv, TaskKnown, SemaphoreMeansFree, Quiet, Receiving
<1> QED
  BY <1>1, <1>3, <1>4, NoFile, LengthLeft DEF IInv, Receiving, Kept

(* The header is programmed when the flash is free.                        *)
LEMMA HeaderWriteIInv ==
  ASSUME IInv, HeaderWrite
  PROVE  IInv'
<1>1. /\ ota = "header" /\ ota' = "headerWait" /\ callback' = "header" /\ headerDone' = FALSE
      /\ UNCHANGED <<hasTail, accepted, fragments, queue, task, sem, flashed, total,
                     saved, selfTest, halted, jobs, bad, faults, resets>>
  BY DEF HeaderWrite, faultVars
<1>2. busy = Nothing
  BY <1>1 DEF IInv, SemaphoreMeansFree
<1>3. busy' = Header /\ refused' = refused
  BY <1>2 DEF HeaderWrite, Request, IInv, TypeOK
<1>4. TypeOK'
  BY <1>1, <1>3 DEF IInv, TypeOK, AllBlocks
<1>5. TaskKnown' /\ SemaphoreMeansFree'
  BY <1>1 DEF IInv, TaskKnown, SemaphoreMeansFree, Quiet, Receiving
<1> QED
  BY <1>1, <1>3, <1>4, <1>5, NoFile, LengthLeft DEF IInv, Receiving, Kept

-----------------------------------------------------------------------------
(* The agent: steps of a file that is being received.                      *)

(* The area is erased; nothing is taken yet.                               *)
LEMMA CreateFileErasedIInv ==
  ASSUME IInv, CreateFileErased
  PROVE  IInv'
<1>1. /\ ota = "erase" /\ headerDone /\ callback' = "flashing" /\ total' = 0 /\ saved' = "Unknown"
      /\ ota' = "open"
      /\ UNCHANGED <<hasTail, accepted, fragments, queue, task, sem, busy, headerDone, flashed,
                     selfTest, refused, halted, jobs, bad, faults, resets>>
  BY DEF CreateFileErased, faultVars
<1>2. /\ busy = Nothing /\ flashed = {} /\ queue = <<>> /\ task.page = Nothing /\ task.at # "none"
      /\ Waiting' = 0 /\ accepted = {} /\ fragments = {}
  BY <1>1, EmptyQueue
  DEF IInv, SemaphoreMeansFree, TaskKnown, Quiet, Waiting, InHand
<1>3. Taken' = {} /\ TailCounted' = 0
  BY <1>1, <1>2 DEF Taken, LastBegun, TailCounted
<1>4. Cardinality({}) = 0
  BY FS_EmptySet
<1>5. LengthBounded' /\ LengthExact'
  BY <1>1, <1>2, <1>3, <1>4, PagesFinite DEF LengthBounded, LengthExact
<1>6. TypeOK'
  <2>1. total' \in 0 .. Cardinality(Pages)
    BY <1>1, PagesFinite
  <2> QED
    BY <1>1, <2>1 DEF IInv, TypeOK, AllBlocks, ImageStates
<1>7. FragmentsKnown' /\ TaskKnown' /\ SemaphoreMeansFree'
  BY <1>1, <1>2, PageFacts
  DEF IInv, FragmentsKnown, TaskKnown, SemaphoreMeansFree, Receiving, Quiet
<1>8. DOMAIN queue = {}
  BY <1>2
<1>9. NoneLost' /\ NoneTwice' /\ PlacesKnown'
  BY <1>1, <1>2, <1>3, <1>8 DEF NoneLost, NoneTwice, PlacesKnown, InQueue
<1>10. NeverRefused'
  BY <1>1 DEF IInv, NeverRefused
<1> QED
  BY <1>5, <1>6, <1>7, <1>9, <1>10 DEF IInv, PagesConserved

(* A page goes to the queue.                                               *)
LEMMA PageQueued ==
  ASSUME IInv, NEW p \in Pages, p \notin Taken, Taken' = Taken \cup {p},
         ota \in {"open", "assemble"}, ota' = ota, Len(queue) < QueueLength,
         queue' = Append(queue, p), accepted' \subseteq AllBlocks,
         fragments' \subseteq fragments,
         UNCHANGED <<hasTail, task, sem, busy, callback, headerDone, flashed, total,
                     saved, selfTest, refused, halted, jobs, bad, faults, resets>>
  PROVE  /\ TypeOK' /\ TaskKnown' /\ SemaphoreMeansFree' /\ LengthBounded' /\ PlacesKnown'
         /\ PagesConserved' /\ NeverRefused'
<1>1. /\ queue' \in Seq(Pages) /\ Len(queue') = Len(queue) + 1 /\ Len(queue) \in Nat
      /\ InQueue(p)' /\ \A q \in Pages : InQueue(q) => InQueue(q)'
      /\ \A q \in Pages : InQueue(q)' => q = p \/ InQueue(q)
      /\ QueueDistinct /\ ~InQueue(p) => QueueDistinct'
  BY QueueAppend DEF IInv
<1>2. TypeOK'
  <2>1. Len(queue') <= QueueLength
    BY <1>1, SizesAssumption
  <2>2. accepted' \subseteq AllBlocks'
    BY DEF AllBlocks
  <2>3. fragments' \subseteq LastPages \cup {TailPage}
    BY DEF IInv, TypeOK
  <2> QED
    BY <1>1, <2>1, <2>2, <2>3 DEF IInv, TypeOK
<1>3. TaskKnown'
  BY DEF IInv, TaskKnown, Receiving
<1>4. SemaphoreMeansFree'
  BY DEF IInv, SemaphoreMeansFree
<1>5. NoneLost /\ LengthExact /\ NoneTwice
  BY DEF IInv, PagesConserved, Receiving
<1>6. LengthBounded' /\ LengthExact'
  <2>1. total \in Nat /\ InHand \in {0, 1} /\ Waiting = Len(queue) + InHand
        /\ InHand' = InHand /\ TailCounted = 0 /\ TailCounted' = 0
    BY CountTypes DEF IInv, Waiting, InHand, TailCounted
  <2>2. Waiting' = Waiting + 1 /\ Waiting \in Nat
    BY <1>1, <2>1 DEF Waiting
  <2>3. total + Waiting = Cardinality(Taken)
    BY <1>5, <2>1, TakenFacts DEF LengthExact
  <2>4. Cardinality(Taken') = Cardinality(Taken) + 1 /\ Cardinality(Taken') <= Cardinality(Pages)
        /\ Cardinality(Taken) \in Nat
    BY OneMorePage, TakenFacts
  <2>5. total' + Waiting' = Cardinality(Taken')
    BY <2>1, <2>2, <2>3, <2>4
  <2> QED
    BY <2>1, <2>4, <2>5 DEF LengthBounded, LengthExact
<1>7. PlacesKnown'
  BY <1>1 DEF IInv, PlacesKnown, Receiving, Kept
<1>8. NoneLost'
  BY <1>1, <1>5, TakenFacts DEF NoneLost
<1>9. p \notin flashed \cup {task.page, busy} /\ ~InQueue(p)
  BY PageFacts DEF IInv, PlacesKnown, Receiving, Kept
<1>10. NoneTwice'
  <2>1. QueueDistinct'
    BY <1>1, <1>5, <1>9 DEF NoneTwice, QueueDistinct
  <2>2. \A q \in Pages : InQueue(q)' => q \notin flashed \cup {task.page, busy}
    BY <1>1, <1>5, <1>9 DEF NoneTwice
  <2> QED
    BY <1>5, <2>1, <2>2 DEF NoneTwice, QueueDistinct
<1>11. NeverRefused'
  BY DEF IInv, NeverRefused
<1> QED
  BY <1>2, <1>3, <1>4, <1>6, <1>7, <1>8, <1>10, <1>11 DEF PagesConserved

(* A page finds the queue full: the file is given up.                      *)
LEMMA QueueFull ==
  ASSUME IInv, ota \in {"open", "assemble"}, ota' = "failed", fragments' \subseteq fragments,
         UNCHANGED <<hasTail, accepted, queue, task, sem, busy, callback, headerDone, flashed,
                     total, saved, selfTest, refused, halted, jobs, bad, faults, resets>>
  PROVE  IInv'
<1>1. TypeOK'
  BY DEF IInv, TypeOK, AllBlocks
<1>2. TaskKnown' /\ SemaphoreMeansFree'
  BY DEF IInv, TaskKnown, SemaphoreMeansFree, Receiving
<1> QED
  BY <1>1, <1>2, NoFile, LengthLeft DEF IInv, Receiving, Kept

LEMMA WriteBlockIInv ==
  ASSUME IInv, NEW b \in Blocks, WriteBlock(b)
  PROVE  IInv'
<1>1. /\ ota = "open" /\ b \notin accepted
      /\ UNCHANGED <<hasTail, fragments, task, sem, busy, callback, headerDone, flashed, total,
                     saved, selfTest, refused, halted, jobs, bad, faults, resets>>
  BY DEF WriteBlock, faultVars
<1>2. CASE Len(queue) < QueueLength
  <2>1. queue' = Append(queue, b) /\ accepted' = accepted \cup {b} /\ ota' = ota
    BY <1>2 DEF WriteBlock
  <2>2. b \in Pages /\ b \notin LastPages /\ b # TailPage
    BY PageFacts
  <2>3. b \notin Taken /\ Taken' = Taken \cup {b}
    BY <1>1, <2>1, <2>2 DEF Taken, LastBegun, LastBlock
  <2>4. accepted' \subseteq AllBlocks
    BY <2>1 DEF IInv, TypeOK, AllBlocks
  <2>5. FragmentsKnown'
    BY <1>1, <2>1, <2>2 DEF IInv, FragmentsKnown, LastBlock
  <2> QED
    BY <1>1, <1>2, <2>1, <2>2, <2>3, <2>4, <2>5, PageQueued DEF IInv
<1>3. CASE ~(Len(queue) < QueueLength)
  <2>1. ota' = "failed" /\ UNCHANGED <<queue, accepted>>
    BY <1>3 DEF WriteBlock
  <2> QED
    BY <1>1, <2>1, QueueFull
<1> QED
  BY <1>2, <1>3

(* Steps that only move the agent, and the fragment list of a block that   *)
(* is new.                                                                 *)
LEMMA AgentMoves ==
  ASSUME IInv, ota \in Receiving, ota' \in Receiving, FragmentsKnown', Taken' = Taken,
         accepted' \subseteq AllBlocks, fragments' \subseteq LastPages \cup {TailPage},
         UNCHANGED <<hasTail, queue, task, sem, busy, callback, headerDone, flashed, total,
                     saved, selfTest, refused, halted, jobs, bad, faults, resets>>
  PROVE  IInv'
<1>1. TypeOK'
  BY DEF IInv, TypeOK, AllBlocks, Receiving
<1>2. TaskKnown'
  BY DEF IInv, TaskKnown, Receiving
<1>3. SemaphoreMeansFree'
  BY DEF IInv, SemaphoreMeansFree, Receiving
<1>4. TailCounted = 0 /\ TailCounted' = 0 /\ Waiting' = Waiting
  BY DEF TailCounted, Receiving, Waiting, InHand
<1>5. LengthBounded' /\ PlacesKnown'
  BY <1>4 DEF IInv, LengthBounded, PlacesKnown, Kept, InQueue, Receiving
<1>6. PagesConserved'
  BY <1>4 DEF IInv, PagesConserved, NoneLost, LengthExact, NoneTwice, InQueue
<1>7. NeverRefused'
  BY DEF IInv, NeverRefused
<1> QED
  BY <1>1, <1>2, <1>3, <1>5, <1>6, <1>7 DEF IInv

LEMMA WriteLastBlockIInv ==
  ASSUME IInv, WriteLastBlock
  PROVE  IInv'
<1>1. /\ ota = "open" /\ hasTail /\ LastBlock \notin accepted /\ ota' = "assemble"
      /\ fragments' = LastPages \cup {TailPage}
      /\ UNCHANGED <<hasTail, accepted, queue, task, sem, busy, callback, headerDone, flashed,
                     total,
                     saved, selfTest, refused, halted, jobs, bad, faults, resets>>
  BY DEF WriteLastBlock, faultVars
<1>2. Taken' = Taken
  BY <1>1 DEF Taken, LastBegun
<1>3. FragmentsKnown'
  BY <1>1 DEF FragmentsKnown
<1>4. accepted' \subseteq AllBlocks
  BY <1>1 DEF IInv, TypeOK
<1> QED
  BY <1>1, <1>2, <1>3, <1>4, AgentMoves DEF Receiving

LEMMA AssembleDoneIInv ==
  ASSUME IInv, AssembleDone
  PROVE  IInv'
<1>1. /\ ota = "assemble" /\ fragments \cap LastPages = {} /\ ota' = "open"
      /\ accepted' = accepted \cup {LastBlock}
      /\ UNCHANGED <<hasTail, fragments, queue, task, sem, busy, callback, headerDone, flashed,
                     total,
                     saved, selfTest, refused, halted, jobs, bad, faults, resets>>
  BY DEF AssembleDone, faultVars
<1>2. hasTail /\ fragments = {TailPage}
  BY <1>1 DEF IInv, FragmentsKnown, TypeOK
<1>3. Taken' = Taken
  BY <1>1, PageFacts DEF Taken, LastBegun, LastBlock
<1>4. FragmentsKnown'
  BY <1>1, <1>2 DEF FragmentsKnown
<1>5. accepted' \subseteq AllBlocks /\ fragments' \subseteq LastPages \cup {TailPage}
  BY <1>1, <1>2 DEF IInv, TypeOK, AllBlocks
<1> QED
  BY <1>1, <1>3, <1>4, <1>5, AgentMoves DEF Receiving

LEMMA CloseFileIInv ==
  ASSUME IInv, CloseFile
  PROVE  IInv'
<1>1. /\ ota = "open" /\ accepted = AllBlocks
      /\ \/ ota' = (IF fragments # {} THEN "tail" ELSE "check") /\ saved' = saved
         \/ ota' = "rejected" /\ saved' = "Rejected"
      /\ UNCHANGED <<hasTail, accepted, fragments, queue, task, sem, busy, callback, headerDone,
                     flashed, total, selfTest, refused, halted, jobs, bad, faults, resets>>
  BY DEF CloseFile, faultVars
<1>2. CASE ota' = (IF fragments # {} THEN "tail" ELSE "check") /\ saved' = saved
  <2>1. fragments = IF LastBlock \in accepted THEN {TailPage} ELSE {}
    BY <1>1 DEF IInv, FragmentsKnown
  <2>2. Taken' = Taken
    BY <1>1, <1>2 DEF Taken, LastBegun
  <2>3. hasTail => LastBlock \in accepted
    BY <1>1 DEF AllBlocks
  <2>4. ~hasTail => LastBlock \notin accepted /\ accepted = Blocks
    BY <1>1, PageFacts DEF AllBlocks, LastBlock
  <2>5. FragmentsKnown'
    BY <1>1, <1>2, <2>1, <2>3, <2>4 DEF FragmentsKnown, AllBlocks
  <2>6. accepted' \subseteq AllBlocks /\ fragments' \subseteq LastPages \cup {TailPage}
    BY <1>1 DEF IInv, TypeOK
  <2> QED
    BY <1>1, <1>2, <2>2, <2>5, <2>6, AgentMoves DEF Receiving
<1>3. CASE ota' = "rejected" /\ saved' = "Rejected"
  <2>1. TypeOK'
    BY <1>1, <1>3 DEF IInv, TypeOK, AllBlocks, ImageStates
  <2>2. TaskKnown' /\ SemaphoreMeansFree'
    BY <1>1, <1>3 DEF IInv, TaskKnown, SemaphoreMeansFree, Quiet, Receiving
  <2> QED
    BY <1>1, <1>3, <2>1, <2>2, NoFile, LengthLeft DEF IInv, Receiving, Kept
<1> QED
  BY <1>1, <1>2, <1>3

(* fragmented_flash_block_list_assemble queues the next full page.         *)
LEMMA AssemblePageIInv ==
  ASSUME IInv, AssemblePage
  PROVE  IInv'
<1>1. /\ ota = "assemble"
      /\ UNCHANGED <<hasTail, accepted, task, sem, busy, callback, headerDone, flashed, total,
                     saved, selfTest, refused, halted, jobs, bad, faults, resets>>
  BY DEF AssemblePage, faultVars
<1>2. PICK p \in fragments \cap LastPages :
        /\ fragments' = fragments \ {p}
        /\ IF Len(queue) < QueueLength
             THEN queue' = Append(queue, p) /\ ota' = ota
             ELSE queue' = queue /\ ota' = "failed"
  BY DEF AssemblePage
<1>3. CASE Len(queue) < QueueLength
  <2>1. p \in Pages /\ p \notin Blocks /\ p # TailPage
    BY PageFacts
  <2>2. p \notin Taken /\ Taken' = Taken \cup {p}
    BY <1>1, <1>2, <1>3, <2>1 DEF Taken, LastBegun
  <2>3. accepted' \subseteq AllBlocks
    BY <1>1 DEF IInv, TypeOK
  <2>4. FragmentsKnown'
    BY <1>1, <1>2, <1>3, <2>1 DEF IInv, FragmentsKnown
  <2> QED
    BY <1>1, <1>2, <1>3, <2>1, <2>2, <2>3, <2>4, PageQueued DEF IInv
<1>4. CASE ~(Len(queue) < QueueLength)
  BY <1>1, <1>2, <1>4, QueueFull
<1> QED
  BY <1>3, <1>4

(* otaPal_CheckFileSignature, no tail: the semaphore was there to take;    *)
(* what is still on its way stays in the account.                          *)
LEMMA WaitFlashedIInv ==
  ASSUME IInv, WaitFlashed
  PROVE  IInv'
<1>1. /\ ota = "check" /\ sem = "given" /\ ota' = "verify"
      /\ UNCHANGED <<hasTail, accepted, fragments, queue, task, sem, busy, callback, headerDone,
                     flashed, total, saved, selfTest, refused, halted, jobs, bad, faults, resets>>
  BY DEF WaitFlashed, faultVars
<1>2. busy = Nothing /\ ~hasTail /\ accepted = Blocks /\ fragments = {}
  BY <1>1 DEF IInv, SemaphoreMeansFree, FragmentsKnown
<1>3. Taken' = Taken /\ Waiting' = Waiting /\ TailCounted = 0 /\ TailCounted' = 0
  BY <1>1, <1>2 DEF Taken, LastBegun, Waiting, InHand, TailCounted
<1>4. TypeOK'
  BY <1>1 DEF IInv, TypeOK, AllBlocks
<1>5. FragmentsKnown' /\ NeverRefused'
  BY <1>1, <1>2 DEF IInv, FragmentsKnown, NeverRefused, AllBlocks
<1>6. TaskKnown' /\ SemaphoreMeansFree'
  BY <1>1, <1>2 DEF IInv, TaskKnown, SemaphoreMeansFree, Receiving, Quiet
<1>7. LengthBounded' /\ PlacesKnown'
  BY <1>1, <1>2, <1>3 DEF IInv, LengthBounded, PlacesKnown, Kept, InQueue, Receiving
<1>8. PagesConserved'
  BY <1>1, <1>3
  DEF IInv, PagesConserved, NoneLost, LengthExact, NoneTwice, InQueue, Receiving
<1> QED
  BY <1>4, <1>5, <1>6, <1>7, <1>8 DEF IInv

(* With a tail: its page is programmed, and the semaphore stays taken.     *)
LEMMA TailWriteIInv ==
  ASSUME IInv, TailWrite
  PROVE  IInv'
<1>1. /\ ota = "tail" /\ sem = "given" /\ sem' = "taken" /\ callback' = "header"
      /\ headerDone' = FALSE /\ ota' = "tailWait"
      /\ UNCHANGED <<hasTail, accepted, fragments, queue, task, flashed, total,
                     saved, selfTest, halted, jobs, bad, faults, resets>>
  BY DEF TailWrite, faultVars
<1>2. busy = Nothing /\ task.at # "none"
  BY <1>1 DEF IInv, SemaphoreMeansFree, TaskKnown, Receiving
<1>3. busy' = TailPage /\ refused' = refused
  BY <1>2 DEF TailWrite, Request, IInv, TypeOK
<1>4. Taken' = Taken /\ Waiting' = Waiting /\ TailCounted' = TailCounted
  BY <1>1 DEF Taken, LastBegun, Waiting, InHand, TailCounted
<1>5. TypeOK'
  BY <1>1, <1>3, PageFacts DEF IInv, TypeOK, AllBlocks
<1>6. FragmentsKnown' /\ NeverRefused'
  BY <1>1, <1>3 DEF IInv, FragmentsKnown, NeverRefused, AllBlocks
<1>7. TaskKnown' /\ SemaphoreMeansFree'
  BY <1>1, <1>2 DEF IInv, TaskKnown, SemaphoreMeansFree, Receiving, Quiet
<1>8. LengthBounded' /\ PlacesKnown'
  BY <1>1, <1>3, <1>4 DEF IInv, LengthBounded, PlacesKnown, Kept, InQueue, Receiving
<1>9. NoneLost /\ LengthExact /\ NoneTwice
  BY <1>1 DEF IInv, PagesConserved, Receiving
<1>10. NoneLost' /\ LengthExact'
  BY <1>1, <1>2, <1>4, <1>9, TakenFacts, PageFacts DEF NoneLost, LengthExact, InQueue
<1>11. /\ TailPage \notin flashed /\ task.page # TailPage
       /\ \A p \in Pages : InQueue(p) => p # TailPage
  BY <1>1, TakenFacts, PageFacts DEF IInv, PlacesKnown, Kept, Receiving
<1>12. NoneTwice'
  BY <1>1, <1>3, <1>9, <1>11 DEF NoneTwice, InQueue
<1> QED
  BY <1>5, <1>6, <1>7, <1>8, <1>10, <1>12 DEF IInv, PagesConserved

(* The tail is in flash; the semaphore is given, and a packet that is left *)
(* finds the flash free.                                                   *)
LEMMA TailFlashedIInv ==
  ASSUME IInv, TailFlashed
  PROVE  IInv'
<1>1. /\ ota = "tailWait" /\ headerDone /\ sem' = "given" /\ total' = total + 1
      /\ flashed' \subseteq flashed /\ flashed \ {TailPage} \subseteq flashed'
      /\ fragments' = {} /\ ota' = "verify"
      /\ UNCHANGED <<hasTail, accepted, queue, task, busy, callback, headerDone,
                     saved, selfTest, refused, halted, jobs, bad, faults, resets>>
  BY DEF TailFlashed, faultVars
<1>2. busy = Nothing /\ sem = "taken"
  BY <1>1 DEF IInv, SemaphoreMeansFree, TaskKnown
<1>3. hasTail /\ accepted = AllBlocks /\ fragments = {TailPage}
  BY <1>1 DEF IInv, FragmentsKnown
<1>4. Taken' = Taken /\ Waiting' = Waiting /\ TailCounted = 0 /\ TailCounted' = 1
  BY <1>1, <1>3, PageFacts DEF Taken, LastBegun, Waiting, InHand, TailCounted
<1>5. NoneLost /\ LengthExact /\ NoneTwice
  BY <1>1 DEF IInv, PagesConserved
<1>6. LengthBounded' /\ LengthExact' /\ total' \in 0 .. Cardinality(Pages)
  <2>1. total \in Nat /\ Waiting \in Nat /\ total + Waiting = Cardinality(Taken)
    BY <1>4, <1>5, CountTypes, TakenFacts DEF IInv, LengthExact
  <2>2. total' + Waiting' = Cardinality(Taken) + 1 /\ total' \in Nat
    BY <1>1, <1>4, <2>1
  <2> QED
    BY <1>4, <2>1, <2>2, TakenFacts, PagesFinite DEF LengthBounded, LengthExact
<1>7. TypeOK'
  BY <1>1, <1>6 DEF IInv, TypeOK, AllBlocks
<1>8. FragmentsKnown' /\ NeverRefused'
  BY <1>1, <1>3 DEF IInv, FragmentsKnown, NeverRefused, AllBlocks
<1>9. TaskKnown' /\ SemaphoreMeansFree'
  BY <1>1, <1>2 DEF IInv, TaskKnown, SemaphoreMeansFree, Receiving, Quiet
<1>10. PlacesKnown'
  BY <1>1, <1>2, <1>4 DEF IInv, PlacesKnown, Kept, InQueue, Receiving
<1>11. NoneLost' /\ NoneTwice'
  BY <1>1, <1>4, <1>5, TakenFacts DEF NoneLost, NoneTwice, InQueue
<1> QED
  BY <1>6, <1>7, <1>8, <1>9, <1>10, <1>11 DEF IInv, PagesConserved

-----------------------------------------------------------------------------
(* All steps.                                                              *)

LEMMA StutterIInv ==
  ASSUME IInv, UNCHANGED vars
  PROVE  IInv'
<1>1. TypeOK' /\ FragmentsKnown' /\ TaskKnown' /\ SemaphoreMeansFree'
  BY DEF vars, faultVars, IInv, TypeOK, FragmentsKnown, TaskKnown, SemaphoreMeansFree, AllBlocks,
     Quiet
<1>2. Taken' = Taken /\ Waiting' = Waiting /\ TailCounted' = TailCounted
  BY DEF vars, Taken, LastBegun, Waiting, InHand, TailCounted
<1>3. LengthBounded' /\ PlacesKnown' /\ NeverRefused'
  BY <1>2 DEF vars, faultVars, IInv, LengthBounded, PlacesKnown, NeverRefused, InQueue
<1>4. PagesConserved'
  BY <1>2 DEF vars, faultVars, IInv, PagesConserved, NoneLost, LengthExact, NoneTwice, InQueue
<1> QED
  BY <1>1, <1>3, <1>4 DEF IInv

LEMMA NextIInv ==
  ASSUME IInv, [Next]_vars
  PROVE  IInv'
<1>1. ASSUME CloseStep
      PROVE  IInv'
  BY <1>1, CloseFileIInv, WaitFlashedIInv, TailWriteIInv, TailFlashedIInv, VerifyIInv,
     HeaderWriteIInv, AbortIInv DEF CloseStep
<1>2. ASSUME AgentStep
      PROVE  IInv'
  BY <1>1, <1>2, CreateFileForRxIInv, CreateFileErasedIInv, WriteBlockIInv, WriteLastBlockIInv,
     AssemblePageIInv, AssembleDoneIInv, AbortIInv, SetPlatformImageStateIInv, CommitErasedIInv,
     ResetIInv DEF AgentStep
<1>3. ASSUME FlashTaskStep
      PROVE  IInv'
  BY <1>3, FlashReceiveIInv, FlashWriteIInv, FlashBlocksAgainIInv DEF FlashTaskStep
<1>4. ASSUME FlashInterrupt
      PROVE  IInv'
  BY <1>4, FlashingCallbackIInv, HeaderCallbackIInv DEF FlashInterrupt
<1> QED
  BY <1>2, <1>3, <1>4, StutterIInv DEF Next

(* The account of the pages is kept by every step of the OTA agent's task, *)
(* of ota_flashing_task and of the flash interrupt.                        *)
THEOREM IInvHolds == Spec => []IInv
<1>1. IInv /\ [Next]_vars => IInv'
  BY NextIInv
<1> QED
  BY InitIInv, <1>1, PTL DEF Spec

-----------------------------------------------------------------------------
(* The properties that the run checks.                                     *)

(* The state of the platform layer keeps its types: the queue never has    *)
(* more packets than places, and total_image_length never exceeds the      *)
(* image, whatever was aborted, refused or reset before.                   *)
THEOREM PalTypes == Spec => []TypeOK
<1>1. IInv => TypeOK
  BY DEF IInv
<1> QED
  BY <1>1, IInvHolds, PTL

(* otaPal_WriteBlock, ota_flashing_task: from the first block of an image  *)
(* to the check of its signature no page that was accepted is lost or      *)
(* programmed twice, whoever of the flashing task and the agent takes the  *)
(* semaphore first, and total_image_length counts those given to the       *)
(* flash.                                                                  *)
THEOREM PagesAreConserved == Spec => []PagesConserved
<1>1. IInv => PagesConserved
  BY DEF IInv
<1> QED
  BY <1>1, IInvHolds, PTL

(* otaPal_CheckFileSignature: a signature that is accepted is that of an   *)
(* image that is in flash to its last page: the header is written when     *)
(* nothing is in the queue, with the flashing task or in the flash.        *)
THEOREM HeaderComesLast == Spec => [](ota = "header" => Quiet /\ busy = Nothing)
<1>1. IInv => (ota = "header" => Quiet /\ busy = Nothing)
  BY DEF IInv, TaskKnown, SemaphoreMeansFree
<1> QED
  BY <1>1, IInvHolds, PTL

(* xSemaphoreFlashig: R_FLASH_Write never finds the flash busy, so that    *)
(* the result that nobody looks at is never a refusal.                     *)
THEOREM WritesAreAccepted == Spec => []NeverRefused
<1>1. IInv => NeverRefused
  BY DEF IInv
<1> QED
  BY <1>1, IInvHolds, PTL

-----------------------------------------------------------------------------
(* FlashDriver: arithmetic of the layout.                                  *)

(* The rest of a division, and what it says of multiples.                  *)
LEMMA Multiple ==
  ASSUME NEW x \in Int, NEW m \in Nat \ {0}, x % m = 0
  PROVE  \E q \in Int : x = q * m
<1>1. x = (x \div m) * m
  BY Z3
<1> QED
  BY <1>1

LEMMA MultipleRest ==
  ASSUME NEW q \in Int, NEW m \in Nat \ {0}
  PROVE  q * m \in Int /\ (q * m) % m = 0
OBVIOUS

LEMMA Distribute ==
  ASSUME NEW q \in Int, NEW r \in Int, NEW m \in Int
  PROVE  /\ q * m \in Int
         /\ (q + r) * m = q * m + r * m /\ (q - r) * m = q * m - r * m
OBVIOUS

(* One multiple more is a whole size more.                                 *)
LEMMA MultiplesApart ==
  ASSUME NEW q \in Int, NEW r \in Int, NEW m \in Nat \ {0}, q < r
  PROVE  q * m + m <= r * m
OBVIOUS

(* The two banks end at the top of the address space, with more room below *)
(* them than all blocks of a bank would take.                              *)
Banks == {LoBankLoAddr, HiBankLoAddr}

LEMMA Sizes ==
  /\ NumSmall \in Nat \ {0} /\ NumMedium \in Nat \ {0} /\ MediumSize \in Nat \ {0}
  /\ MaxUnits \in Nat \ {0} /\ Modulus \in Nat \ {0}
  /\ NumMedium * MediumSize \in Nat \ {0}
  /\ BankSize = NumSmall + NumMedium * MediumSize
  /\ HiBankLoAddr = Modulus - BankSize /\ LoBankLoAddr = Modulus - 2 * BankSize
  /\ BankSize \in Nat \ {0} /\ LoBankLoAddr > NumBlocksCF * MediumSize
  /\ NumBlocksCF = NumSmall + NumMedium /\ NumBlocksCF * MediumSize \in Nat
  /\ NumBlocksCF * MediumSize >= BankSize
  /\ LoBankLoAddr \in Nat \ {0} /\ HiBankLoAddr \in Nat \ {0}
<1>1. /\ NumSmall \in Nat \ {0} /\ NumMedium \in Nat \ {0} /\ MediumSize \in Nat \ {0}
      /\ MaxUnits \in Nat \ {0} /\ Modulus \in Nat
  BY GeometryAssumption
<1>2. NumMedium * MediumSize \in Nat \ {0} /\ (NumSmall + NumMedium) * MediumSize \in Nat
  BY <1>1
<1>3. (NumSmall + NumMedium) * MediumSize = NumSmall * MediumSize + NumMedium * MediumSize
  BY <1>1
<1>4. NumSmall * MediumSize \in Nat /\ NumSmall * MediumSize >= NumSmall
  BY <1>1
<1>5. Modulus > 2 * (NumSmall + NumMedium * MediumSize) + (NumSmall + NumMedium) * MediumSize
  BY GeometryAssumption
<1> QED
  BY <1>1, <1>2, <1>3, <1>4, <1>5 DEF BankSize, HiBankLoAddr, LoBankLoAddr, NumBlocksCF

(* Every bank begins on a boundary of the medium blocks.                   *)
LEMMA BanksAligned ==
  ASSUME NEW low \in Banks
  PROVE  low \in Nat \ {0} /\ \E q \in Int : low = q * MediumSize
<1>1. PICK p \in Int : Modulus = p * MediumSize
  BY Multiple, Sizes, GeometryAssumption
<1>2. PICK s \in Int : NumSmall = s * MediumSize
  BY Multiple, Sizes, GeometryAssumption
<1>3. BankSize = (s + NumMedium) * MediumSize
  BY <1>2, Sizes, Distribute
<1>4. HiBankLoAddr = (p - (s + NumMedium)) * MediumSize
  BY <1>1, <1>3, Sizes, Distribute
<1>5. LoBankLoAddr = ((p - (s + NumMedium)) - (s + NumMedium)) * MediumSize
  BY <1>4, <1>3, Sizes, Distribute
<1>6. p - (s + NumMedium) \in Int /\ (p - (s + NumMedium)) - (s + NumMedium) \in Int
  BY Sizes
<1> QED
  BY <1>4, <1>5, <1>6, Sizes DEF Banks

(* The blocks of a bank, with ascending addresses.                         *)
BlockNumbers == 0 .. NumBlocksCF - 1
BlockAt(low, k) ==
  IF k < NumMedium THEN low + k * MediumSize ELSE low + NumMedium * MediumSize + (k - NumMedium)

LEMMA BlockAtBounds ==
  ASSUME NEW low \in Banks, NEW k \in BlockNumbers
  PROVE  /\ k \in Nat /\ k * MediumSize \in Nat /\ BlockAt(low, k) \in Nat
         /\ low <= BlockAt(low, k) /\ BlockAt(low, k) < low + BankSize
         /\ k < NumMedium <=> BlockAt(low, k) < low + NumMedium * MediumSize
<1>1. low \in Nat
  BY BanksAligned
<1>2. k \in Nat /\ k < NumSmall + NumMedium
  BY Sizes DEF BlockNumbers
<1>3. k * MediumSize \in Nat
  BY <1>2, Sizes
<1>4. k < NumMedium => k * MediumSize + MediumSize <= NumMedium * MediumSize
  BY <1>2, Sizes, MultiplesApart
<1> QED
  BY <1>1, <1>2, <1>3, <1>4, Sizes DEF BlockAt

LEMMA BanksApart ==
  ASSUME NEW low \in Banks, NEW a \in Int, low <= a, a < low + BankSize
  PROVE  a \in CodeFlash /\ LowAddr(a) = low /\ SizeBoundary(a) = low + NumMedium * MediumSize
BY Sizes DEF Banks, CodeFlash, LowAddr, SizeBoundary

LEMMA BlockAtStarts ==
  ASSUME NEW low \in Banks, NEW k \in BlockNumbers
  PROVE  /\ BlockAt(low, k) \in BlockStarts /\ LowAddr(BlockAt(low, k)) = low
         /\ SizeBoundary(BlockAt(low, k)) = low + NumMedium * MediumSize
<1> DEFINE a == BlockAt(low, k)
<1>1. /\ k \in Nat /\ a \in Nat /\ low <= a /\ a < low + BankSize
      /\ k < NumMedium <=> a < low + NumMedium * MediumSize
  BY BlockAtBounds
<1>2. a \in CodeFlash /\ LowAddr(a) = low /\ SizeBoundary(a) = low + NumMedium * MediumSize
  BY <1>1, BanksApart
<1>3. CASE k < NumMedium
  <2>1. PICK q \in Int : low = q * MediumSize
    BY BanksAligned
  <2>2. a = (q + k) * MediumSize
    BY <2>1, <1>3, <1>1, Sizes, Distribute DEF BlockAt
  <2>3. a % MediumSize = 0
    BY <2>2, <1>1, Sizes, MultipleRest
  <2> QED
    BY <1>2, <2>3 DEF BlockStarts, OnBlockBoundary
<1>4. CASE ~(k < NumMedium)
  <2>1. a >= SizeBoundary(a)
    BY <1>1, <1>2, <1>4, Sizes, BanksAligned
  <2> QED
    BY <1>2, <2>1 DEF BlockStarts, OnBlockBoundary
<1> QED
  BY <1>3, <1>4

LEMMA StartsAreBlocks ==
  ASSUME NEW b \in BlockStarts
  PROVE  /\ LowAddr(b) \in Banks
         /\ \E k \in BlockNumbers : b = BlockAt(LowAddr(b), k)
<1> DEFINE low == LowAddr(b)
<1>1. b \in Int /\ b >= LoBankLoAddr /\ b < Modulus /\ OnBlockBoundary(b)
  BY Sizes DEF BlockStarts, CodeFlash
<1>2. low \in Banks /\ low <= b /\ b < low + BankSize
  BY <1>1, Sizes DEF LowAddr, Banks
<1>3. SizeBoundary(b) = low + NumMedium * MediumSize
  BY <1>1, <1>2, BanksApart
<1>4. low \in Nat
  BY <1>2, BanksAligned
<1> HIDE DEF low
<1>5. CASE b >= SizeBoundary(b)
  <2> DEFINE k == NumMedium + (b - SizeBoundary(b))
  <2>1. k \in BlockNumbers /\ ~(k < NumMedium) /\ b = low + NumMedium * MediumSize + (k - NumMedium)
    BY <1>1, <1>2, <1>3, <1>4, <1>5, Sizes DEF BlockNumbers
  <2> HIDE DEF k
  <2>2. b = BlockAt(low, k)
    BY <2>1 DEF BlockAt
  <2> QED
    BY <1>2, <2>1, <2>2 DEF low
<1>6. CASE ~(b >= SizeBoundary(b))
  <2>1. b % MediumSize = 0
    BY <1>1, <1>6 DEF OnBlockBoundary
  <2>2. PICK q \in Int : b = q * MediumSize
    BY <2>1, <1>1, Sizes, Multiple
  <2>3. PICK r \in Int : low = r * MediumSize
    BY <1>2, BanksAligned
  <2> DEFINE k == q - r
  <2>4. k \in Int /\ k * MediumSize = b - low
    BY <2>2, <2>3, Sizes, Distribute
  <2> HIDE DEF k
  <2>5. k * MediumSize \in Int /\ k * MediumSize >= 0 /\ k * MediumSize < NumMedium * MediumSize
    BY <2>4, <1>1, <1>2, <1>3, <1>4, <1>6, Sizes
  <2>6. ~(k < 0)
    <3>1. SUFFICES ASSUME k < 0 PROVE FALSE
      OBVIOUS
    <3>2. k * MediumSize + MediumSize <= 0 * MediumSize
      BY <3>1, <2>4, Sizes, MultiplesApart
    <3> QED
      BY <3>2, <2>5, Sizes
  <2>7. ~(NumMedium <= k)
    <3>1. SUFFICES ASSUME NumMedium <= k PROVE FALSE
      OBVIOUS
    <3>2. NumMedium = k \/ NumMedium * MediumSize + MediumSize <= k * MediumSize
      BY <3>1, <2>4, Sizes, MultiplesApart
    <3> QED
      BY <3>2, <2>5, Sizes
  <2>8. k \in BlockNumbers /\ k < NumMedium
    BY <2>4, <2>6, <2>7, Sizes DEF BlockNumbers
  <2>9. b = BlockAt(low, k)
    BY <2>4, <2>8, <1>1, <1>4 DEF BlockAt
  <2> QED
    BY <1>2, <2>8, <2>9 DEF low
<1> QED
  BY <1>5, <1>6

LEMMA BlocksAscend ==
  ASSUME NEW low \in Banks, NEW j \in BlockNumbers, NEW k \in BlockNumbers
  PROVE  j < k <=> BlockAt(low, j) < BlockAt(low, k)
<1>1. \A i, l \in BlockNumbers : i < l => BlockAt(low, i) < BlockAt(low, l)
  <2> SUFFICES ASSUME NEW i \in BlockNumbers, NEW l \in BlockNumbers, i < l
               PROVE  BlockAt(low, i) < BlockAt(low, l)
    OBVIOUS
  <2>1. /\ i \in Nat /\ l \in Nat /\ low \in Nat /\ i * MediumSize \in Nat /\ l * MediumSize \in Nat
    BY BlockAtBounds, BanksAligned
  <2>2. i * MediumSize + MediumSize <= l * MediumSize
    BY <2>1, Sizes, MultiplesApart
  <2>3. i < NumMedium => i * MediumSize + MediumSize <= NumMedium * MediumSize
    BY <2>1, Sizes, MultiplesApart
  <2> QED
    BY <2>1, <2>2, <2>3, Sizes DEF BlockAt
<1>2. BlockAt(low, j) \in Nat /\ BlockAt(low, k) \in Nat /\ j \in Nat /\ k \in Nat
  BY BlockAtBounds
<1> QED
  BY <1>1, <1>2

(* As many blocks as the numbers say lie between two blocks of a bank.     *)
LEMMA BlocksCounted ==
  ASSUME NEW low \in Banks, NEW lo \in Int, NEW hi \in Int, lo .. hi \subseteq BlockNumbers
  PROVE  LET S == {BlockAt(low, i) : i \in lo .. hi}
         IN  IsFiniteSet(S) /\ Cardinality(S) = IF lo > hi THEN 0 ELSE hi - lo + 1
<1> DEFINE S == {BlockAt(low, i) : i \in lo .. hi}
           f == [i \in lo .. hi |-> BlockAt(low, i)]
<1>1. f \in [lo .. hi -> S]
  OBVIOUS
<1>2. \A s \in S : \E i \in lo .. hi : f[i] = s
  OBVIOUS
<1>3. ASSUME NEW i \in lo .. hi, NEW j \in lo .. hi, f[i] = f[j] PROVE i = j
  <2>1. i \in BlockNumbers /\ j \in BlockNumbers /\ i \in Int /\ j \in Int
    OBVIOUS
  <2>2. BlockAt(low, i) = BlockAt(low, j) /\ BlockAt(low, i) \in Nat
    BY <1>3, <2>1, BlockAtBounds
  <2>3. ~(i < j) /\ ~(j < i)
    BY <2>1, <2>2, BlocksAscend
  <2> QED
    BY <2>1, <2>3
<1> HIDE DEF S, f
<1>4. f \in Bijection(lo .. hi, S)
  BY <1>1, <1>2, <1>3 DEF Bijection, Injection, Surjection, IsInjective
<1>5. ExistsBijection(lo .. hi, S)
  BY <1>4 DEF ExistsBijection
<1>6. IsFiniteSet(lo .. hi) /\ Cardinality(lo .. hi) = IF lo > hi THEN 0 ELSE hi - lo + 1
  BY FS_Interval
<1>7. IsFiniteSet(S) /\ Cardinality(S) = Cardinality(lo .. hi)
  BY <1>5, <1>6, FS_Bijection
<1> QED
  BY <1>6, <1>7 DEF S

(* An erase of n blocks from block k on has the block k and those below    *)
(* it, as far as there are any.                                            *)
Lowest(k, n) == IF k - n + 1 > 0 THEN k - n + 1 ELSE 0

LEMMA BlocksBetween ==
  ASSUME NEW low \in Banks, NEW j \in BlockNumbers, NEW k \in BlockNumbers, j <= k
  PROVE  Cardinality({c \in BlockStarts : BlockAt(low, j) < c /\ c <= BlockAt(low, k)}) = k - j
<1> DEFINE T == {c \in BlockStarts : BlockAt(low, j) < c /\ c <= BlockAt(low, k)}
           S == {BlockAt(low, i) : i \in j + 1 .. k}
<1>1. j \in Int /\ k \in Int /\ 0 <= j /\ k <= NumBlocksCF - 1
  BY Sizes DEF BlockNumbers
<1>2. j + 1 .. k \subseteq BlockNumbers
  BY <1>1, Sizes DEF BlockNumbers
<1>3. ASSUME NEW c \in T PROVE c \in S
  <2>1. c \in BlockStarts /\ BlockAt(low, j) < c /\ c <= BlockAt(low, k)
    OBVIOUS
  <2>2. PICK i \in BlockNumbers : c = BlockAt(LowAddr(c), i)
    BY <2>1, StartsAreBlocks
  <2>3. low <= c /\ c < low + BankSize /\ c \in Int
    BY <2>1, <2>2, BlockAtBounds, StartsAreBlocks, BanksAligned, Sizes
  <2>4. LowAddr(c) = low
    BY <2>3, BanksApart
  <2>5. j < i /\ ~(k < i)
    BY <2>1, <2>2, <2>4, BlocksAscend, BlockAtBounds
  <2>6. i \in j + 1 .. k
    BY <2>5, <1>1, Sizes DEF BlockNumbers
  <2> QED
    BY <2>2, <2>4, <2>6
<1>4. ASSUME NEW c \in S PROVE c \in T
  <2>1. PICK i \in j + 1 .. k : c = BlockAt(low, i)
    OBVIOUS
  <2>2. i \in BlockNumbers /\ j < i /\ ~(k < i)
    BY <1>1, <1>2
  <2>3. c \in BlockStarts /\ BlockAt(low, j) < c /\ ~(BlockAt(low, k) < c)
    BY <2>1, <2>2, BlockAtStarts, BlocksAscend
  <2>4. c \in Nat /\ BlockAt(low, k) \in Nat
    BY <2>1, <2>2, BlockAtBounds
  <2> QED
    BY <2>3, <2>4
<1>5. T = S
  BY <1>3, <1>4
<1>6. Cardinality(S) = IF j + 1 > k THEN 0 ELSE k - (j + 1) + 1
  <2>1. j + 1 \in Int
    BY <1>1
  <2> QED
    BY <1>1, <1>2, <2>1, BlocksCounted, Zenon
<1> QED
  BY <1>1, <1>5, <1>6

LEMMA EraseAreaBlocks ==
  ASSUME NEW low \in Banks, NEW k \in BlockNumbers, NEW n \in Nat
  PROVE  EraseArea(BlockAt(low, k), n) = {BlockAt(low, i) : i \in Lowest(k, n) .. k}
<1> DEFINE a == BlockAt(low, k)
           S == {BlockAt(low, i) : i \in Lowest(k, n) .. k}
<1>1. k \in Int /\ 0 <= k /\ k <= NumBlocksCF - 1
  BY Sizes DEF BlockNumbers
<1>2. \A i \in BlockNumbers : i \in Lowest(k, n) .. k <=> i <= k /\ k - i < n
  BY <1>1, Sizes DEF BlockNumbers, Lowest
<1>3. Lowest(k, n) .. k \subseteq BlockNumbers
  BY <1>1, Sizes DEF BlockNumbers, Lowest
<1>4. a \in BlockStarts /\ LowAddr(a) = low
  BY BlockAtStarts
<1>5. ASSUME NEW b \in EraseArea(a, n) PROVE b \in S
  <2>1. /\ b \in BlockStarts /\ LowAddr(b) = low /\ b <= a
        /\ Cardinality({c \in BlockStarts : b < c /\ c <= a}) < n
    BY <1>4 DEF EraseArea
  <2>2. PICK i \in BlockNumbers : b = BlockAt(low, i)
    BY <2>1, StartsAreBlocks
  <2>3. i \in Int /\ b \in Nat /\ a \in Nat
    BY <2>2, BlockAtBounds
  <2>4. i <= k
    BY <2>1, <2>2, <2>3, <1>1, BlocksAscend
  <2>5. k - i < n
    BY <2>1, <2>2, <2>4, BlocksBetween
  <2> QED
    BY <1>2, <2>2, <2>4, <2>5
<1>6. ASSUME NEW b \in S PROVE b \in EraseArea(a, n)
  <2>1. PICK i \in Lowest(k, n) .. k : b = BlockAt(low, i)
    OBVIOUS
  <2>2. i \in BlockNumbers /\ i <= k /\ k - i < n
    BY <1>2, <1>3
  <2>3. b \in BlockStarts /\ LowAddr(b) = low
    BY <2>1, <2>2, BlockAtStarts
  <2>4. b <= a
    BY <2>1, <2>2, <1>1, BlocksAscend, BlockAtBounds
  <2>5. Cardinality({c \in BlockStarts : b < c /\ c <= a}) < n
    BY <2>1, <2>2, BlocksBetween
  <2> QED
    BY <1>4, <2>3, <2>4, <2>5 DEF EraseArea
<1> QED
  BY <1>5, <1>6

LEMMA EraseAreaSize ==
  ASSUME NEW low \in Banks, NEW k \in BlockNumbers, NEW n \in Nat
  PROVE  Cardinality(EraseArea(BlockAt(low, k), n)) = IF n <= k + 1 THEN n ELSE k + 1
<1>1. k \in Int /\ 0 <= k /\ k <= NumBlocksCF - 1
  BY Sizes DEF BlockNumbers
<1>2. Lowest(k, n) \in Int /\ Lowest(k, n) .. k \subseteq BlockNumbers
  BY <1>1, Sizes DEF BlockNumbers, Lowest
<1>3. Cardinality(EraseArea(BlockAt(low, k), n))
        = IF Lowest(k, n) > k THEN 0 ELSE k - Lowest(k, n) + 1
  BY <1>1, <1>2, EraseAreaBlocks, BlocksCounted
<1> QED
  BY <1>1, <1>3 DEF Lowest

(* check_cf_block_total on a block: the wrap of the count does not matter. *)
LEMMA EraseAllowedBlocks ==
  ASSUME NEW low \in Banks, NEW k \in BlockNumbers, NEW n \in Nat
  PROVE  EraseAllowed(BlockAt(low, k), n) <=> n > 0 /\ n <= k + 1
<1> DEFINE a == BlockAt(low, k)
           top == low + NumMedium * MediumSize
           small == IF a >= top THEN a - top + 1 ELSE 0
           medium == IF small < n THEN n - small ELSE 0
           first == IF a >= top THEN top - MediumSize ELSE a
<1>1. k \in Int /\ 0 <= k /\ k <= NumBlocksCF - 1
  BY Sizes DEF BlockNumbers
<1>2. a \in BlockStarts /\ LowAddr(a) = low /\ SizeBoundary(a) = top
  BY BlockAtStarts
<1>3. a \in CodeFlash /\ OnBlockBoundary(a)
  BY <1>2 DEF BlockStarts
<1>4. BlockTotal(a, n) <=> Word(first - Word(medium - 1) * MediumSize) >= low
  BY <1>2, <1>3 DEF BlockTotal
<1>5. /\ a \in Nat /\ low \in Nat /\ low <= a /\ a < low + BankSize
      /\ k < NumMedium <=> a < top
      /\ k * MediumSize \in Nat /\ low + BankSize <= Modulus /\ low > NumBlocksCF * MediumSize
  BY BlockAtBounds, BanksAligned, Sizes DEF Banks
<1>6. SUFFICES ASSUME n \in 1 .. NumBlocksCF
               PROVE  Word(first - Word(medium - 1) * MediumSize) >= low <=> n <= k + 1
  BY <1>1, <1>3, <1>4, Sizes DEF EraseAllowed
<1>7. /\ small \in Nat /\ medium \in Nat /\ medium <= NumBlocksCF
      /\ ~(k < NumMedium) => small = k - NumMedium + 1
      /\ k < NumMedium => small = 0 /\ medium = n
  BY <1>5, <1>6, <1>1, Sizes DEF BlockAt
<1>8. /\ first \in Nat /\ first < Modulus /\ low <= first
      /\ ~(k < NumMedium) => first = low + (NumMedium - 1) * MediumSize
      /\ k < NumMedium => first = low + k * MediumSize
  <2>1. NumMedium * MediumSize >= MediumSize
    BY Sizes
  <2>2. (NumMedium - 1) * MediumSize = NumMedium * MediumSize - MediumSize
    BY Sizes
  <2> QED
    BY <2>1, <2>2, <1>5, <1>1, Sizes DEF BlockAt
<1> HIDE DEF first, small
<1>9. CASE medium = 0
  <2>1. ~(k < NumMedium) /\ n <= k + 1
    BY <1>9, <1>7, <1>6, <1>1, Sizes
  <2>2. Word(medium - 1) = Modulus - 1
    <3>1. (-1) = (-1) * Modulus + (Modulus - 1)
      BY Sizes
    <3>2. ((-1) * Modulus + (Modulus - 1)) % Modulus = Modulus - 1
      BY Sizes
    <3> QED
      BY <3>1, <3>2, <1>9, Sizes DEF Word
  <2>3. first - (Modulus - 1) * MediumSize = (- MediumSize) * Modulus + (first + MediumSize)
    BY <1>8, Sizes
  <2>4. first + MediumSize = top
    <3>1. (NumMedium - 1) * MediumSize = NumMedium * MediumSize - MediumSize
      BY Sizes
    <3> QED
      BY <3>1, <2>1, <1>8, <1>5, Sizes
  <2>5. top \in Int /\ 0 <= top /\ top < Modulus
    BY <1>5, Sizes
  <2> HIDE DEF top
  <2>6. ((- MediumSize) * Modulus + top) % Modulus = top
    BY <2>5, Sizes
  <2>7. Word(first - Word(medium - 1) * MediumSize) = top
    BY <2>2, <2>3, <2>4, <2>6 DEF Word
  <2> QED
    BY <2>1, <2>7, <1>5, Sizes DEF top
<1>10. CASE medium # 0
  <2> DEFINE m == medium - 1
  <2>1. m \in Nat /\ m < NumBlocksCF
    BY <1>7, <1>10, Sizes
  <2>2. NumBlocksCF <= NumBlocksCF * MediumSize /\ m < Modulus
    BY <2>1, <1>5, Sizes
  <2>3. Word(m) = m
    BY <2>1, <2>2, Sizes DEF Word
  <2>4. m * MediumSize \in Nat /\ m * MediumSize <= NumBlocksCF * MediumSize
    BY <2>1, Sizes, MultiplesApart
  <2>5. /\ first - m * MediumSize \in Int /\ 0 <= first - m * MediumSize
        /\ first - m * MediumSize < Modulus
    BY <2>4, <1>5, <1>8, Sizes
  <2> HIDE DEF medium
  <2>6. Word(first - Word(m) * MediumSize) = first - m * MediumSize
    <3> DEFINE x == first - m * MediumSize
    <3>1. x \in Int /\ 0 <= x /\ x < Modulus
      BY <2>5
    <3> HIDE DEF x
    <3>2. x % Modulus = x
      BY <3>1, Sizes
    <3> QED
      BY <3>2, <2>3 DEF Word, x
  <2> DEFINE j == IF k < NumMedium THEN k ELSE NumMedium - 1
  <2>7. j \in Int /\ first = low + j * MediumSize
    BY <1>1, <1>8, Sizes
  <2>8. n <= k + 1 <=> m <= j
    BY <1>1, <1>6, <1>7, <1>10, Sizes DEF medium
  <2> HIDE DEF j, m
  <2>9. m <= j <=> m * MediumSize <= j * MediumSize
    <3>1. j * MediumSize \in Int /\ m * MediumSize \in Int
      BY <2>1, <2>7, Sizes
    <3>2. m < j => m * MediumSize + MediumSize <= j * MediumSize
      BY <2>1, <2>7, Sizes, MultiplesApart
    <3>3. j < m => j * MediumSize + MediumSize <= m * MediumSize
      BY <2>1, <2>7, Sizes, MultiplesApart
    <3> QED
      BY <3>1, <3>2, <3>3, <2>1, <2>7, Sizes
  <2>10. j * MediumSize \in Int
    BY <2>7, Sizes
  <2>11. Word(first - Word(m) * MediumSize) >= low <=> n <= k + 1
    BY <2>4, <2>6, <2>7, <2>8, <2>9, <2>10, <1>5
  <2> QED
    BY <2>11 DEF m
<1> QED
  BY <1>9, <1>10

LEMMA NextBlockBelow ==
  ASSUME NEW low \in Banks, NEW k \in BlockNumbers, k > 0
  PROVE  k - 1 \in BlockNumbers /\ NextBlock(BlockAt(low, k)) = BlockAt(low, k - 1)
<1>1. k \in Int /\ k <= NumBlocksCF - 1 /\ low \in Nat /\ k - 1 \in BlockNumbers
  BY Sizes, BanksAligned DEF BlockNumbers
<1>2. SizeBoundary(BlockAt(low, k)) = low + NumMedium * MediumSize
  BY BlockAtStarts
<1>3. /\ k * MediumSize \in Nat
      /\ k < NumMedium => BlockAt(low, k) < low + NumMedium * MediumSize
  BY BlockAtBounds
<1>4. (k - 1) * MediumSize = k * MediumSize - MediumSize
  BY <1>1, Sizes
<1>5. CASE k < NumMedium
  BY <1>1, <1>2, <1>3, <1>4, <1>5, Sizes DEF NextBlock, BlockAt
<1>6. CASE k = NumMedium
  BY <1>1, <1>2, <1>3, <1>4, <1>6, Sizes DEF NextBlock, BlockAt
<1>7. CASE k > NumMedium
  BY <1>1, <1>2, <1>3, <1>7, Sizes DEF NextBlock, BlockAt
<1> QED
  BY <1>1, <1>5, <1>6, <1>7, Sizes

(* EraseCheckExact, for every number of blocks.                            *)
LEMMA EraseCheck ==
  ASSUME NEW a \in Addresses, NEW n \in Nat
  PROVE  EraseAllowed(a, n) <=> a \in BlockStarts /\ n > 0 /\ Cardinality(EraseArea(a, n)) = n
<1>1. CASE a \in BlockStarts
  <2> DEFINE low == LowAddr(a)
  <2>1. low \in Banks
    BY <1>1, StartsAreBlocks
  <2>2. PICK k \in BlockNumbers : a = BlockAt(low, k)
    BY <1>1, StartsAreBlocks
  <2> HIDE DEF low
  <2>3. EraseAllowed(a, n) <=> n > 0 /\ n <= k + 1
    BY <2>1, <2>2, EraseAllowedBlocks
  <2>4. Cardinality(EraseArea(a, n)) = IF n <= k + 1 THEN n ELSE k + 1
    BY <2>1, <2>2, EraseAreaSize
  <2>5. k \in Int
    BY Sizes DEF BlockNumbers
  <2> QED
    BY <1>1, <2>3, <2>4, <2>5
<1>2. CASE a \notin BlockStarts
  BY <1>2 DEF BlockStarts, EraseAllowed, BlockTotal
<1> QED
  BY <1>1, <1>2

(* The area of an erase, and what of it is left when its first block is    *)
(* off.                                                                    *)
LEMMA EraseAreaFirst ==
  ASSUME NEW low \in Banks, NEW k \in BlockNumbers, NEW n \in Nat, n > 0
  PROVE  /\ EraseArea(BlockAt(low, k), n) \subseteq CodeFlash
         /\ BlockAt(low, k) \in EraseArea(BlockAt(low, k), n)
         /\ BlockAt(low, k) \in CodeFlash
<1>1. k \in Lowest(k, n) .. k
  BY Sizes DEF BlockNumbers, Lowest
<1>2. BlockAt(low, k) \in EraseArea(BlockAt(low, k), n)
  BY <1>1, EraseAreaBlocks
<1> QED
  BY <1>2 DEF EraseArea, BlockStarts

LEMMA EraseAreaLast ==
  ASSUME NEW low \in Banks, NEW k \in BlockNumbers
  PROVE  EraseArea(BlockAt(low, k), 1) \ {BlockAt(low, k)} = {}
<1>1. Lowest(k, 1) .. k = {k}
  BY Sizes DEF BlockNumbers, Lowest
<1> QED
  BY <1>1, EraseAreaBlocks

LEMMA EraseAreaRest ==
  ASSUME NEW low \in Banks, NEW k \in BlockNumbers, NEW n \in Nat, n > 0, n <= k
  PROVE  EraseArea(BlockAt(low, k), n + 1) \ {BlockAt(low, k)} = EraseArea(BlockAt(low, k - 1), n)
<1>1. k \in Int /\ 0 <= k /\ k <= NumBlocksCF - 1 /\ k - 1 \in BlockNumbers
  BY Sizes DEF BlockNumbers
<1>2. /\ Lowest(k, n + 1) = Lowest(k - 1, n) /\ Lowest(k, n + 1) \in Nat
      /\ Lowest(k, n + 1) .. k = (Lowest(k - 1, n) .. k - 1) \cup {k}
      /\ Lowest(k - 1, n) .. k - 1 \subseteq BlockNumbers
  BY <1>1, Sizes DEF Lowest, BlockNumbers
<1>3. \A i \in Lowest(k - 1, n) .. k - 1 : BlockAt(low, i) # BlockAt(low, k)
  <2> SUFFICES ASSUME NEW i \in Lowest(k - 1, n) .. k - 1
               PROVE  BlockAt(low, i) # BlockAt(low, k)
    OBVIOUS
  <2>1. i \in BlockNumbers /\ i < k
    BY <1>1, <1>2
  <2> QED
    BY <2>1, BlocksAscend, BlockAtBounds
<1>4. EraseArea(BlockAt(low, k), n + 1) = {BlockAt(low, i) : i \in Lowest(k, n + 1) .. k}
  BY EraseAreaBlocks
<1>5. EraseArea(BlockAt(low, k - 1), n) = {BlockAt(low, i) : i \in Lowest(k - 1, n) .. k - 1}
  BY <1>1, EraseAreaBlocks
<1> QED
  BY <1>2, <1>3, <1>4, <1>5

(* is_cf_overflow: the units of a write that is let through are all there. *)
LEMMA WriteFits ==
  ASSUME NEW a \in Addresses, NEW n \in Nat, WriteAllowed(a, n)
  PROVE  /\ a \in CodeFlash /\ n > 0 /\ a + n <= Modulus
         /\ a .. a + n - 1 \subseteq CodeFlash /\ a .. a + n - 1 # {}
<1>1. a \in CodeFlash /\ n > 0 /\ n <= BankSize
  BY Sizes DEF WriteAllowed, CfOverflow
<1>2. a \in Int /\ LoBankLoAddr <= a /\ a < Modulus
  BY <1>1, Sizes DEF CodeFlash
<1>3. a + n <= Modulus
  <2>1. SUFFICES ASSUME a + n > Modulus PROVE FALSE
    BY <1>2, Sizes
  <2> DEFINE r == a + n - 1 - Modulus
  <2>2. r \in Nat /\ r < BankSize /\ r < Modulus /\ a + n - 1 = 1 * Modulus + r
    BY <1>1, <1>2, <2>1, Sizes
  <2> HIDE DEF r
  <2>3. (1 * Modulus + r) % Modulus = r
    BY <2>2, Sizes
  <2>4. Word(a + n - 1) = r
    BY <2>2, <2>3 DEF Word
  <2>5. r < LoBankLoAddr /\ r < HiBankLoAddr
    BY <2>2, Sizes
  <2> QED
    BY <2>2, <2>4, <2>5, Sizes DEF WriteAllowed, CfOverflow
<1> QED
  BY <1>1, <1>2, <1>3, Sizes DEF CodeFlash

-----------------------------------------------------------------------------

(* The flash driver: an inductive invariant for callers that do not        *)
(* overlap.  An operation is somewhere between the lock that a call took   *)
(* and the interrupt that ends it, so the invariant says where the call    *)
(* is, what the sequencer may be doing, which interrupts may be pending,   *)
(* and how the area of the operation divides into what is done, what the   *)
(* sequencer has, and what was not begun.                                  *)

Working == job # Service!NoJob
AtRest == \A c \in Callers : pc[c] = "rest"
OneCall == \A c, d \in Callers : pc[c] # "rest" /\ pc[d] # "rest" => c = d

(* Where the only call is.                                                 *)
Place == IF AtRest THEN "rest" ELSE pc[CHOOSE c \in Callers : pc[c] # "rest"]

(* Who has the lock: a call that has not started its operation, or the     *)
(* operation.                                                              *)
LockHeld ==
  /\ lock => Working \/ Place \in {"close", "open", "erase", "write"}
  /\ Working \/ Place \in {"close", "open", "erase", "write"} => lock
  /\ Working => opened /\ cur = job.kind
  /\ ~Working => worked = {} /\ fcu = Idle
  /\ lock => state # "READY"
  /\ opened /\ ~lock => state = "READY"

(* What a call may rely on at each of its steps.                           *)
CallKnown ==
  /\ Working => Place \in {"rest", "erase1", "write1", "feed", "final"}
  /\ Place = "open" => ~opened
  /\ Place \in {"opened", "arm", "erase", "write", "feed", "final", "abort", "release"} => opened
  /\ Place \in {"erase1", "write1"} => Working /\ fcu = Ready /\ worked = {}
  /\ Place = "erase1" => cur = "erase"
  /\ Place = "write1" => cur = "write"
  /\ Place \in {"feed", "final"} /\ Working => cur = "write" /\ fcu.at \in {"feeding", "locked"}
  /\ Place \in {"feed", "final"} /\ ~Working => cur = "stop"
  /\ Place \in {"abort", "release"} => cur = "stop"

(* What the sequencer does.                                                *)
SequencerKnown ==
  /\ Working => fcu.at \in {"ready", "feeding", "busy", "locked"}
  /\ fcu.at = "busy" => Place = "rest"
  /\ fcu.at = "feeding" => Place \in {"feed", "final"}

(* An interrupt is pending only if it was enabled; a ready interrupt that  *)
(* no error goes before is the end of a unit or left over from a stop.     *)
InterruptsKnown ==
  /\ pending # {} => irq
  /\ irq => opened
  /\ irq /\ ~readyOn => Place \in {"feed", "final"}
  /\ "error" \in pending => Working /\ fcu.at = "locked"
  /\ "ready" \in pending =>
       \/ "error" \in pending
       \/ Working /\ fcu.at = "ready" /\ Place = "rest"
       \/ cur = "stop" /\ Place = "release"

(* The parameters of an operation that goes on.                            *)
WriteKnown ==
  Working /\ cur = "write" =>
    /\ addr \in LoBankLoAddr .. Modulus /\ addr + totalCount <= Modulus
    /\ Place \in {"write1", "feed"} => totalCount > 0
    /\ fcu.at = "feeding" /\ Place = "feed" => fcu.addr = addr

EraseKnown ==
  Working /\ cur = "erase" =>
    /\ count < totalCount
    /\ \E low \in Banks, k \in BlockNumbers : addr = BlockAt(low, k) /\ totalCount - count <= k + 1

(* The division of the area.                                               *)
InSequencer == IF fcu.at \in {"busy", "feeding"} THEN {fcu.addr} ELSE {}
NotBegun ==
  IF cur = "write"
  THEN (IF Place = "feed" THEN addr + 1 ELSE addr) .. addr + totalCount - 1
  ELSE EraseArea(addr, totalCount - count) \ (IF Place = "erase1" THEN {} ELSE {addr})

AreaDivided ==
  Working =>
    /\ worked \subseteq job.area
    /\ fcu.at # "locked" =>
         /\ job.area = worked \cup InSequencer \cup NotBegun
         /\ worked \cap InSequencer = {} /\ worked \cap NotBegun = {}
         /\ InSequencer \cap NotBegun = {}

DriverInv ==
  /\ DriverTypeOK /\ OneCall /\ LockHeld /\ CallKnown /\ SequencerKnown /\ InterruptsKnown
  /\ WriteKnown /\ EraseKnown /\ AreaDivided

-----------------------------------------------------------------------------
(* Calls do not overlap, so a step of a call moves the only one.           *)

LEMMA CallPlace ==
  ASSUME OneCall, NEW c \in Callers, pc[c] # "rest"
  PROVE  Place = pc[c]
BY DEF OneCall, Place, AtRest

LEMMA RestPlace == AtRest <=> Place = "rest"
BY DEF Place, AtRest

LEMMA CallMoves ==
  ASSUME DriverTypeOK, OneCall, NEW c \in Callers, pc[c] # "rest" \/ AtRest,
         NEW s, Goto(c, s)
  PROVE  OneCall' /\ Place' = s
<1>1. pc' = [pc EXCEPT ![c] = s] /\ DOMAIN pc = Callers
  BY DEF Goto, DriverTypeOK
<1>2. pc'[c] = s /\ \A d \in Callers \ {c} : pc'[d] = "rest"
  BY <1>1 DEF OneCall, AtRest
<1>3. OneCall'
  BY <1>2 DEF OneCall
<1>4. CASE s = "rest"
  BY <1>2, <1>3, <1>4 DEF Place, AtRest
<1>5. CASE s # "rest"
  <2>1. ~AtRest'
    BY <1>2, <1>5 DEF AtRest
  <2>2. (CHOOSE d \in Callers : pc'[d] # "rest") = c
    BY <1>2, <1>5
  <2> QED
    BY <2>1, <2>2, <1>2, <1>3 DEF Place
<1> QED
  BY <1>3, <1>4, <1>5

LEMMA CallsStay ==
  ASSUME OneCall, pc' = pc
  PROVE  OneCall' /\ Place' = Place
BY DEF OneCall, Place, AtRest

(* A call goes on when no interrupt is pending.                            *)
LEMMA NothingPending ==
  ASSUME DriverInv, ~Deliverable
  PROVE  pending = {}
<1>1. "error" \notin pending
  BY DEF Deliverable
<1>2. "ready" \notin pending
  BY <1>1 DEF DriverInv, DriverTypeOK, InterruptsKnown, Deliverable
<1> QED
  BY <1>1, <1>2 DEF DriverInv, DriverTypeOK

LEMMA CallStarts ==
  ASSUME DriverInv, ~Overlapping, NEW c \in Callers, CallFrom(c), NEW s, Goto(c, s)
  PROVE  AtRest /\ Place = "rest" /\ pending = {} /\ OneCall' /\ Place' = s
<1>1. AtRest /\ ~Deliverable
  BY DEF CallFrom, AtRest
<1> QED
  BY <1>1, RestPlace, NothingPending, CallMoves DEF DriverInv

LEMMA CallContinues ==
  ASSUME DriverInv, NEW c \in Callers, NEW r, r # "rest", At(c, r), NEW s, Goto(c, s)
  PROVE  Place = r /\ pending = {} /\ OneCall' /\ Place' = s
<1>1. pc[c] = r /\ ~Deliverable
  BY DEF At
<1> QED
  BY <1>1, CallPlace, NothingPending, CallMoves DEF DriverInv

(* Where no operation goes on, nothing is said of its parameters.          *)
LEMMA NoOperation ==
  ASSUME job' = Service!NoJob
  PROVE  ~Working' /\ WriteKnown' /\ EraseKnown' /\ AreaDivided'
BY DEF Working, WriteKnown, EraseKnown, AreaDivided

-----------------------------------------------------------------------------
(* Each step of a call while no operation goes on.                         *)

LEMMA CloseCallInv ==
  ASSUME DriverInv, ~Overlapping, NEW c \in Callers, CloseCall(c)
  PROVE  DriverInv'
<1>1. Place = "rest" /\ pending = {} /\ OneCall' /\ Place' = "close"
  BY CallStarts DEF CloseCall
<1>2. job = Service!NoJob
  BY <1>1 DEF DriverInv, DriverTypeOK, LockHeld, CallKnown, Working, CloseCall, LockState
<1>3. job' = Service!NoJob /\ ~Working /\ ~Working'
  BY <1>2 DEF CloseCall, history, Working
<1>4. WriteKnown' /\ EraseKnown' /\ AreaDivided'
  BY <1>3, NoOperation
<1>5. DriverTypeOK'
  BY <1>2, <1>3 DEF DriverInv, DriverTypeOK, CloseCall, Goto, params, history, Idle, LockState
<1>6. LockHeld'
  BY <1>1, <1>3
     DEF DriverInv, DriverTypeOK, LockHeld, CallKnown, CloseCall, params, history, LockState
<1>7. CallKnown' /\ SequencerKnown'
  BY <1>1, <1>3
     DEF DriverInv, DriverTypeOK, LockHeld, CallKnown, SequencerKnown, CloseCall, params,
         history, Idle, LockState
<1>8. InterruptsKnown'
  BY <1>1, <1>3
     DEF DriverInv, DriverTypeOK, LockHeld, CallKnown, InterruptsKnown, CloseCall, params,
         history, LockState
<1> QED
  BY <1>1, <1>4, <1>5, <1>6, <1>7, <1>8 DEF DriverInv

LEMMA CloseEndInv ==
  ASSUME DriverInv, NEW c \in Callers, CloseEnd(c)
  PROVE  DriverInv'
<1>1. Place = "close" /\ pending = {} /\ OneCall' /\ Place' = "rest"
  BY CallContinues DEF CloseEnd
<1>2. job = Service!NoJob
  BY <1>1 DEF DriverInv, DriverTypeOK, LockHeld, CallKnown, Working, CloseEnd
<1>3. job' = Service!NoJob /\ ~Working /\ ~Working'
  BY <1>2 DEF CloseEnd, history, Working
<1>4. WriteKnown' /\ EraseKnown' /\ AreaDivided'
  BY <1>3, NoOperation
<1>5. DriverTypeOK'
  BY <1>2, <1>3
     DEF DriverInv, DriverTypeOK, CloseEnd, Goto, params, history, Idle, InterruptsOff
<1>6. LockHeld'
  BY <1>1, <1>3 DEF DriverInv, DriverTypeOK, LockHeld, CallKnown, CloseEnd, params, history
<1>7. CallKnown' /\ SequencerKnown'
  BY <1>1, <1>3
     DEF DriverInv, DriverTypeOK, LockHeld, CallKnown, SequencerKnown, CloseEnd, params,
         history, Idle
<1>8. InterruptsKnown'
  BY <1>1, <1>3
     DEF DriverInv, DriverTypeOK, LockHeld, CallKnown, InterruptsKnown, CloseEnd, params,
         history, InterruptsOff
<1> QED
  BY <1>1, <1>4, <1>5, <1>6, <1>7, <1>8 DEF DriverInv

LEMMA OpenCallInv ==
  ASSUME DriverInv, ~Overlapping, NEW c \in Callers, OpenCall(c)
  PROVE  DriverInv'
<1>1. Place = "rest" /\ pending = {} /\ OneCall' /\ Place' = "open"
  BY CallStarts DEF OpenCall
<1>2. job = Service!NoJob
  BY <1>1 DEF DriverInv, DriverTypeOK, LockHeld, CallKnown, Working, OpenCall, LockState
<1>3. job' = Service!NoJob /\ ~Working /\ ~Working'
  BY <1>2 DEF OpenCall, history, Working
<1>4. WriteKnown' /\ EraseKnown' /\ AreaDivided'
  BY <1>3, NoOperation
<1>5. DriverTypeOK'
  BY <1>2, <1>3 DEF DriverInv, DriverTypeOK, OpenCall, Goto, params, history, Idle, LockState
<1>6. LockHeld'
  BY <1>1, <1>3
     DEF DriverInv, DriverTypeOK, LockHeld, CallKnown, OpenCall, params, history, LockState
<1>7. CallKnown' /\ SequencerKnown'
  BY <1>1, <1>3
     DEF DriverInv, DriverTypeOK, LockHeld, CallKnown, SequencerKnown, OpenCall, params,
         history, Idle, LockState
<1>8. InterruptsKnown'
  BY <1>1, <1>3
     DEF DriverInv, DriverTypeOK, LockHeld, CallKnown, InterruptsKnown, OpenCall, params,
         history, LockState
<1> QED
  BY <1>1, <1>4, <1>5, <1>6, <1>7, <1>8 DEF DriverInv

LEMMA OpenEndInv ==
  ASSUME DriverInv, NEW c \in Callers, OpenEnd(c)
  PROVE  DriverInv'
<1>1. Place = "open" /\ pending = {} /\ OneCall' /\ Place' = "opened"
  BY CallContinues DEF OpenEnd
<1>2. job = Service!NoJob
  BY <1>1 DEF DriverInv, DriverTypeOK, LockHeld, CallKnown, Working, OpenEnd, ReleaseState
<1>3. job' = Service!NoJob /\ ~Working /\ ~Working'
  BY <1>2 DEF OpenEnd, history, Working
<1>4. WriteKnown' /\ EraseKnown' /\ AreaDivided'
  BY <1>3, NoOperation
<1>5. DriverTypeOK'
  BY <1>2, <1>3
     DEF DriverInv, DriverTypeOK, OpenEnd, Goto, params, history, Idle, ReleaseState,
         InterruptsOff
<1>6. LockHeld'
  BY <1>1, <1>3
     DEF DriverInv, DriverTypeOK, LockHeld, CallKnown, OpenEnd, params, history, ReleaseState
<1>7. CallKnown' /\ SequencerKnown'
  BY <1>1, <1>3
     DEF DriverInv, DriverTypeOK, LockHeld, CallKnown, SequencerKnown, OpenEnd, params,
         history, Idle, ReleaseState
<1>8. InterruptsKnown'
  BY <1>1, <1>3
     DEF DriverInv, DriverTypeOK, LockHeld, CallKnown, InterruptsKnown, OpenEnd, params,
         history, ReleaseState, InterruptsOff
<1> QED
  BY <1>1, <1>4, <1>5, <1>6, <1>7, <1>8 DEF DriverInv

LEMMA OpenReadyInv ==
  ASSUME DriverInv, NEW c \in Callers, OpenReady(c)
  PROVE  DriverInv'
<1>1. Place = "opened" /\ pending = {} /\ OneCall' /\ Place' = "rest"
  BY CallContinues DEF OpenReady
<1>2. job = Service!NoJob
  BY <1>1 DEF DriverInv, DriverTypeOK, LockHeld, CallKnown, Working, OpenReady
<1>3. job' = Service!NoJob /\ ~Working /\ ~Working'
  BY <1>2 DEF OpenReady, history, Working
<1>4. WriteKnown' /\ EraseKnown' /\ AreaDivided'
  BY <1>3, NoOperation
<1>5. DriverTypeOK'
  BY <1>2, <1>3 DEF DriverInv, DriverTypeOK, OpenReady, Goto, params, history, Idle
<1>6. LockHeld'
  BY <1>1, <1>3 DEF DriverInv, DriverTypeOK, LockHeld, CallKnown, OpenReady, params, history
<1>7. CallKnown' /\ SequencerKnown'
  BY <1>1, <1>3
     DEF DriverInv, DriverTypeOK, LockHeld, CallKnown, SequencerKnown, OpenReady, params,
         history, Idle
<1>8. InterruptsKnown'
  BY <1>1, <1>3
     DEF DriverInv, DriverTypeOK, LockHeld, CallKnown, InterruptsKnown, OpenReady, params,
         history
<1> QED
  BY <1>1, <1>4, <1>5, <1>6, <1>7, <1>8 DEF DriverInv

LEMMA SetCallbackCallInv ==
  ASSUME DriverInv, ~Overlapping, NEW c \in Callers, SetCallbackCall(c)
  PROVE  DriverInv'
<1>1. Place = "rest" /\ pending = {} /\ OneCall' /\ Place' = "arm"
  BY CallStarts DEF SetCallbackCall
<1>2. job = Service!NoJob
  BY <1>1 DEF DriverInv, DriverTypeOK, LockHeld, CallKnown, Working, SetCallbackCall
<1>3. job' = Service!NoJob /\ ~Working /\ ~Working'
  BY <1>2 DEF SetCallbackCall, history, Working
<1>4. WriteKnown' /\ EraseKnown' /\ AreaDivided'
  BY <1>3, NoOperation
<1>5. DriverTypeOK'
  BY <1>2, <1>3 DEF DriverInv, DriverTypeOK, SetCallbackCall, Goto, params, history, Idle
<1>6. LockHeld'
  BY <1>1, <1>3
     DEF DriverInv, DriverTypeOK, LockHeld, CallKnown, SetCallbackCall, params, history
<1>7. CallKnown' /\ SequencerKnown'
  BY <1>1, <1>3
     DEF DriverInv, DriverTypeOK, LockHeld, CallKnown, SequencerKnown, SetCallbackCall, params,
         history, Idle
<1>8. InterruptsKnown'
  BY <1>1, <1>3
     DEF DriverInv, DriverTypeOK, LockHeld, CallKnown, InterruptsKnown, SetCallbackCall,
         params, history
<1> QED
  BY <1>1, <1>4, <1>5, <1>6, <1>7, <1>8 DEF DriverInv

LEMMA SetCallbackEndInv ==
  ASSUME DriverInv, NEW c \in Callers, SetCallbackEnd(c)
  PROVE  DriverInv'
<1>1. Place = "arm" /\ pending = {} /\ OneCall' /\ Place' = "rest"
  BY CallContinues DEF SetCallbackEnd
<1>2. job = Service!NoJob
  BY <1>1 DEF DriverInv, DriverTypeOK, LockHeld, CallKnown, Working, SetCallbackEnd
<1>3. job' = Service!NoJob /\ ~Working /\ ~Working'
  BY <1>2 DEF SetCallbackEnd, history, Working
<1>4. WriteKnown' /\ EraseKnown' /\ AreaDivided'
  BY <1>3, NoOperation
<1>5. DriverTypeOK'
  BY <1>2, <1>3
     DEF DriverInv, DriverTypeOK, SetCallbackEnd, Goto, params, history, Idle, InterruptsOn
<1>6. LockHeld'
  BY <1>1, <1>3
     DEF DriverInv, DriverTypeOK, LockHeld, CallKnown, SetCallbackEnd, params, history
<1>7. CallKnown' /\ SequencerKnown'
  BY <1>1, <1>3
     DEF DriverInv, DriverTypeOK, LockHeld, CallKnown, SequencerKnown, SetCallbackEnd, params,
         history, Idle
<1>8. InterruptsKnown'
  BY <1>1, <1>3
     DEF DriverInv, DriverTypeOK, LockHeld, CallKnown, InterruptsKnown, SetCallbackEnd, params,
         history, InterruptsOn
<1> QED
  BY <1>1, <1>4, <1>5, <1>6, <1>7, <1>8 DEF DriverInv

LEMMA EraseCallInv ==
  ASSUME DriverInv, ~Overlapping, NEW c \in Callers, EraseCall(c)
  PROVE  DriverInv'
<1>1. Place = "rest" /\ pending = {} /\ OneCall' /\ Place' = "erase"
  BY CallStarts DEF EraseCall
<1>2. job = Service!NoJob
  BY <1>1 DEF DriverInv, DriverTypeOK, LockHeld, CallKnown, Working, EraseCall, LockState
<1>3. job' = Service!NoJob /\ ~Working /\ ~Working'
  BY <1>2 DEF EraseCall, history, Working
<1>4. WriteKnown' /\ EraseKnown' /\ AreaDivided'
  BY <1>3, NoOperation
<1>5. DriverTypeOK'
  BY <1>2, <1>3 DEF DriverInv, DriverTypeOK, EraseCall, Goto, params, history, Idle, LockState
<1>6. LockHeld'
  BY <1>1, <1>3
     DEF DriverInv, DriverTypeOK, LockHeld, CallKnown, EraseCall, params, history, LockState
<1>7. CallKnown' /\ SequencerKnown'
  BY <1>1, <1>3
     DEF DriverInv, DriverTypeOK, LockHeld, CallKnown, SequencerKnown, EraseCall, params,
         history, Idle, LockState
<1>8. InterruptsKnown'
  BY <1>1, <1>3
     DEF DriverInv, DriverTypeOK, LockHeld, CallKnown, InterruptsKnown, EraseCall, params,
         history, LockState
<1> QED
  BY <1>1, <1>4, <1>5, <1>6, <1>7, <1>8 DEF DriverInv

LEMMA WriteCallInv ==
  ASSUME DriverInv, ~Overlapping, NEW c \in Callers, WriteCall(c)
  PROVE  DriverInv'
<1>1. Place = "rest" /\ pending = {} /\ OneCall' /\ Place' = "write"
  BY CallStarts DEF WriteCall
<1>2. job = Service!NoJob
  BY <1>1 DEF DriverInv, DriverTypeOK, LockHeld, CallKnown, Working, WriteCall, LockState
<1>3. job' = Service!NoJob /\ ~Working /\ ~Working'
  BY <1>2 DEF WriteCall, history, Working
<1>4. WriteKnown' /\ EraseKnown' /\ AreaDivided'
  BY <1>3, NoOperation
<1>5. DriverTypeOK'
  BY <1>2, <1>3 DEF DriverInv, DriverTypeOK, WriteCall, Goto, params, history, Idle, LockState
<1>6. LockHeld'
  BY <1>1, <1>3
     DEF DriverInv, DriverTypeOK, LockHeld, CallKnown, WriteCall, params, history, LockState
<1>7. CallKnown' /\ SequencerKnown'
  BY <1>1, <1>3
     DEF DriverInv, DriverTypeOK, LockHeld, CallKnown, SequencerKnown, WriteCall, params,
         history, Idle, LockState
<1>8. InterruptsKnown'
  BY <1>1, <1>3
     DEF DriverInv, DriverTypeOK, LockHeld, CallKnown, InterruptsKnown, WriteCall, params,
         history, LockState
<1> QED
  BY <1>1, <1>4, <1>5, <1>6, <1>7, <1>8 DEF DriverInv

LEMMA FeedStoppedInv ==
  ASSUME DriverInv, NEW c \in Callers, FeedStopped(c)
  PROVE  DriverInv'
<1>1. Place = "feed" /\ pending = {} /\ OneCall' /\ Place' = "abort"
  BY CallContinues DEF FeedStopped
<1>2. job = Service!NoJob
  BY <1>1 DEF DriverInv, DriverTypeOK, LockHeld, CallKnown, Working, FeedStopped
<1>3. job' = Service!NoJob /\ ~Working /\ ~Working'
  BY <1>2 DEF FeedStopped, history, Working
<1>4. WriteKnown' /\ EraseKnown' /\ AreaDivided'
  BY <1>3, NoOperation
<1>5. DriverTypeOK'
  BY <1>2, <1>3 DEF DriverInv, DriverTypeOK, FeedStopped, Goto, params, history, Idle
<1>6. LockHeld'
  BY <1>1, <1>3 DEF DriverInv, DriverTypeOK, LockHeld, CallKnown, FeedStopped, params, history
<1>7. CallKnown' /\ SequencerKnown'
  BY <1>1, <1>3
     DEF DriverInv, DriverTypeOK, LockHeld, CallKnown, SequencerKnown, FeedStopped, params,
         history, Idle
<1>8. InterruptsKnown'
  BY <1>1, <1>3
     DEF DriverInv, DriverTypeOK, LockHeld, CallKnown, InterruptsKnown, FeedStopped, params,
         history
<1> QED
  BY <1>1, <1>4, <1>5, <1>6, <1>7, <1>8 DEF DriverInv

LEMMA AbortResetInv ==
  ASSUME DriverInv, NEW c \in Callers, AbortReset(c)
  PROVE  DriverInv'
<1>1. Place = "abort" /\ pending = {} /\ OneCall' /\ Place' = "release"
  BY CallContinues DEF AbortReset
<1>2. job = Service!NoJob
  BY <1>1 DEF DriverInv, DriverTypeOK, LockHeld, CallKnown, Working, AbortReset
<1>3. job' = Service!NoJob /\ ~Working /\ ~Working'
  BY <1>2 DEF AbortReset, history, Working
<1>4. WriteKnown' /\ EraseKnown' /\ AreaDivided'
  BY <1>3, NoOperation
<1>5. DriverTypeOK'
  BY <1>2, <1>3 DEF DriverInv, DriverTypeOK, AbortReset, Goto, params, history, Idle
<1>6. LockHeld'
  BY <1>1, <1>3 DEF DriverInv, DriverTypeOK, LockHeld, CallKnown, AbortReset, params, history
<1>7. CallKnown' /\ SequencerKnown'
  BY <1>1, <1>3
     DEF DriverInv, DriverTypeOK, LockHeld, CallKnown, SequencerKnown, AbortReset, params,
         history, Idle
<1>8. InterruptsKnown'
  BY <1>1, <1>3
     DEF DriverInv, DriverTypeOK, LockHeld, CallKnown, InterruptsKnown, AbortReset, params,
         history
<1> QED
  BY <1>1, <1>4, <1>5, <1>6, <1>7, <1>8 DEF DriverInv

LEMMA AbortReleaseInv ==
  ASSUME DriverInv, NEW c \in Callers, AbortRelease(c)
  PROVE  DriverInv'
<1>1. Place = "release" /\ pending = {} /\ OneCall' /\ Place' = "rest"
  BY CallContinues DEF AbortRelease
<1>2. job = Service!NoJob
  BY <1>1 DEF DriverInv, DriverTypeOK, LockHeld, CallKnown, Working, AbortRelease, ReleaseState
<1>3. job' = Service!NoJob /\ ~Working /\ ~Working'
  BY <1>2 DEF AbortRelease, history, Working
<1>4. WriteKnown' /\ EraseKnown' /\ AreaDivided'
  BY <1>3, NoOperation
<1>5. DriverTypeOK'
  BY <1>2, <1>3
     DEF DriverInv, DriverTypeOK, AbortRelease, Goto, params, history, Idle, ReleaseState
<1>6. LockHeld'
  BY <1>1, <1>3
     DEF DriverInv, DriverTypeOK, LockHeld, CallKnown, AbortRelease, params, history,
         ReleaseState
<1>7. CallKnown' /\ SequencerKnown'
  BY <1>1, <1>3
     DEF DriverInv, DriverTypeOK, LockHeld, CallKnown, SequencerKnown, AbortRelease, params,
         history, Idle, ReleaseState
<1>8. InterruptsKnown'
  BY <1>1, <1>3
     DEF DriverInv, DriverTypeOK, LockHeld, CallKnown, InterruptsKnown, AbortRelease, params,
         history, ReleaseState
<1> QED
  BY <1>1, <1>4, <1>5, <1>6, <1>7, <1>8 DEF DriverInv

LEMMA BadParametersInv ==
  ASSUME DriverInv, NEW c \in Callers, NEW kind \in {"erase", "write"}, NEW a, NEW n,
         BadParameters(c, kind, a, n)
  PROVE  DriverInv'
<1>1. Place = kind /\ pending = {} /\ OneCall' /\ Place' = "rest"
  BY CallContinues DEF BadParameters
<1>2. job = Service!NoJob
  BY <1>1 DEF DriverInv, LockHeld, CallKnown, Working
<1>3. job' = Service!NoJob /\ ~Working /\ ~Working'
  BY <1>2 DEF BadParameters, history, Working
<1>4. WriteKnown' /\ EraseKnown' /\ AreaDivided'
  BY <1>3, NoOperation
<1>5. DriverTypeOK'
  BY <1>2, <1>3 DEF DriverInv, DriverTypeOK, BadParameters, Goto, params, history, ReleaseState
<1>6. LockHeld'
  BY <1>1, <1>3
     DEF DriverInv, DriverTypeOK, LockHeld, CallKnown, BadParameters, params, history, ReleaseState
<1>7. CallKnown' /\ SequencerKnown'
  BY <1>1, <1>3
     DEF DriverInv, DriverTypeOK, LockHeld, CallKnown, SequencerKnown, BadParameters, params,
         history, Idle
<1>8. InterruptsKnown'
  BY <1>1, <1>3 DEF DriverInv, DriverTypeOK, InterruptsKnown, BadParameters
<1> QED
  BY <1>1, <1>4, <1>5, <1>6, <1>7, <1>8 DEF DriverInv

-----------------------------------------------------------------------------
(* The steps of a call that starts an operation.                           *)

(* What the parameters that are let through make of the area.              *)
LEMMA AllowedArea ==
  ASSUME NEW kind \in {"erase", "write"}, NEW a \in Addresses, NEW n \in 0 .. MaxUnits,
         Allowed(kind, a, n)
  PROVE  /\ Area(kind, a, n) \in (SUBSET CodeFlash) \ {{}} /\ a \in CodeFlash /\ n > 0
         /\ kind = "write" => a + n <= Modulus
         /\ kind = "erase" => \E low \in Banks, k \in BlockNumbers : a = BlockAt(low, k) /\ n <= k + 1
<1>1. n \in Nat
  BY Sizes
<1>2. CASE kind = "write"
  <2>1. WriteAllowed(a, n) /\ Area(kind, a, n) = a .. a + n - 1
    BY <1>2 DEF Allowed, Area
  <2> QED
    BY <1>1, <1>2, <2>1, WriteFits
<1>3. CASE kind = "erase"
  <2>1. EraseAllowed(a, n) /\ Area(kind, a, n) = EraseArea(a, n)
    BY <1>3 DEF Allowed, Area
  <2>2. a \in BlockStarts
    BY <1>1, <2>1, EraseCheck
  <2>3. PICK low \in Banks, k \in BlockNumbers : a = BlockAt(low, k)
    BY <2>2, StartsAreBlocks
  <2>4. n > 0 /\ n <= k + 1
    BY <1>1, <2>1, <2>3, EraseAllowedBlocks
  <2> QED
    BY <1>1, <1>3, <2>1, <2>3, <2>4, EraseAreaFirst
<1> QED
  BY <1>2, <1>3

LEMMA GoodParametersInv ==
  ASSUME DriverInv, NEW c \in Callers, NEW kind \in {"erase", "write"}, NEW a \in Addresses,
         NEW n \in 0 .. MaxUnits, GoodParameters(c, kind, a, n)
  PROVE  DriverInv'
<1> DEFINE s == IF kind = "erase" THEN "erase1" ELSE "write1"
<1>1. Place = kind /\ pending = {} /\ OneCall' /\ Place' = s
  BY CallContinues DEF GoodParameters
<1>2. Allowed(kind, a, n)
  BY DEF GoodParameters
<1>3. /\ Area(kind, a, n) \in (SUBSET CodeFlash) \ {{}} /\ a \in CodeFlash /\ n > 0
      /\ kind = "write" => a + n <= Modulus
      /\ kind = "erase" => \E low \in Banks, k \in BlockNumbers : a = BlockAt(low, k) /\ n <= k + 1
  BY <1>2, AllowedArea
<1>4. /\ job' = [kind |-> kind, area |-> Area(kind, a, n)] /\ worked' = {} /\ fcu' = Ready
      /\ cur' = kind /\ addr' = a /\ totalCount' = n /\ count' = 0
  BY DEF GoodParameters
<1>5. job'.kind = kind /\ job'.area = Area(kind, a, n) /\ job' \in Service!Jobs /\ Working'
  BY <1>3, <1>4 DEF Working, Service!Jobs, Service!NoJob
<1>6. ~Working
  BY <1>1 DEF DriverInv, CallKnown
<1>7. n \in Nat /\ a \in LoBankLoAddr .. Modulus
  BY <1>3, Sizes DEF CodeFlash
<1>8. DriverTypeOK'
  BY <1>3, <1>4, <1>5, <1>7, Sizes
     DEF DriverInv, DriverTypeOK, GoodParameters, Goto, Ready
<1>9. LockHeld' /\ CallKnown' /\ SequencerKnown'
  BY <1>1, <1>4, <1>5, <1>6
     DEF DriverInv, DriverTypeOK, LockHeld, CallKnown, SequencerKnown, GoodParameters, Ready
<1>10. InterruptsKnown'
  BY <1>1 DEF DriverInv, DriverTypeOK, InterruptsKnown, GoodParameters
<1>11. WriteKnown'
  BY <1>3, <1>4, <1>7 DEF WriteKnown, Ready
<1>12. EraseKnown'
  BY <1>3, <1>4, <1>7 DEF EraseKnown
<1>13. AreaDivided'
  <2>1. InSequencer' = {}
    BY <1>4 DEF InSequencer, Ready
  <2>2. NotBegun' = Area(kind, a, n)
    <3>1. n - 0 = n
      BY <1>7
    <3> QED
      BY <1>1, <1>4, <3>1 DEF NotBegun, Area
  <2> QED
    BY <1>4, <1>5, <2>1, <2>2 DEF AreaDivided
<1> QED
  BY <1>1, <1>8, <1>9, <1>10, <1>11, <1>12, <1>13 DEF DriverInv

(* The first block: the sequencer takes it from what was not begun.        *)
LEMMA EraseFirstInv ==
  ASSUME DriverInv, NEW c \in Callers, EraseFirst(c)
  PROVE  DriverInv'
<1>1. Place = "erase1" /\ pending = {} /\ OneCall' /\ Place' = "rest"
  BY CallContinues DEF EraseFirst
<1>2. Working /\ fcu = Ready /\ worked = {} /\ cur = "erase"
  BY <1>1 DEF DriverInv, CallKnown
<1>3. PICK low \in Banks, k \in BlockNumbers : addr = BlockAt(low, k) /\ totalCount - count <= k + 1
  BY <1>2 DEF DriverInv, EraseKnown
<1>4. totalCount - count \in Nat /\ totalCount - count > 0
  BY <1>2, Sizes DEF DriverInv, DriverTypeOK, EraseKnown
<1>5. addr \in EraseArea(addr, totalCount - count) /\ addr \in CodeFlash
  BY <1>3, <1>4, EraseAreaFirst
<1>6. /\ fcu' = [at |-> "busy", addr |-> addr] /\ job' = job /\ worked' = worked /\ cur' = cur
      /\ addr' = addr /\ count' = count /\ totalCount' = totalCount
  BY DEF EraseFirst, params, history
<1>7. Working'
  BY <1>2, <1>6 DEF Working
<1>8. DriverTypeOK'
  BY <1>5, <1>6 DEF DriverInv, DriverTypeOK, EraseFirst, Goto, params, history
<1>9. LockHeld' /\ CallKnown' /\ SequencerKnown'
  BY <1>1, <1>2, <1>6, <1>7
     DEF DriverInv, DriverTypeOK, LockHeld, CallKnown, SequencerKnown, EraseFirst
<1>10. InterruptsKnown'
  BY <1>1 DEF DriverInv, DriverTypeOK, InterruptsKnown, EraseFirst
<1>11. WriteKnown' /\ EraseKnown'
  BY <1>2, <1>6, <1>7 DEF DriverInv, WriteKnown, EraseKnown
<1>12. AreaDivided'
  <2>1. InSequencer' = {addr} /\ InSequencer = {}
    BY <1>2, <1>6 DEF InSequencer, Ready
  <2>2. /\ NotBegun = EraseArea(addr, totalCount - count)
        /\ NotBegun' = EraseArea(addr, totalCount - count) \ {addr}
    BY <1>1, <1>2, <1>6 DEF NotBegun
  <2>3. job.area = NotBegun
    BY <1>2, <2>1 DEF DriverInv, AreaDivided, Ready
  <2> QED
    BY <1>2, <1>5, <1>6, <2>1, <2>2, <2>3 DEF AreaDivided
<1> QED
  BY <1>1, <1>8, <1>9, <1>10, <1>11, <1>12 DEF DriverInv

(* The first unit is fed.                                                  *)
LEMMA WriteFirstInv ==
  ASSUME DriverInv, NEW c \in Callers, WriteFirst(c)
  PROVE  DriverInv'
<1>1. Place = "write1" /\ pending = {} /\ OneCall' /\ Place' = "feed"
  BY CallContinues DEF WriteFirst
<1>2. Working /\ fcu = Ready /\ worked = {} /\ cur = "write"
  BY <1>1 DEF DriverInv, CallKnown
<1>3. /\ totalCount \in Nat /\ totalCount > 0 /\ addr \in LoBankLoAddr .. Modulus
      /\ addr + totalCount <= Modulus
  BY <1>1, <1>2, Sizes DEF DriverInv, DriverTypeOK, WriteKnown
<1>4. addr \in CodeFlash
  BY <1>3, Sizes DEF CodeFlash
<1>5. /\ fcu' = [at |-> "feeding", addr |-> addr] /\ job' = job /\ worked' = worked /\ cur' = cur
      /\ addr' = addr /\ count' = count /\ totalCount' = totalCount
  BY DEF WriteFirst, params, history
<1>6. Working'
  BY <1>2, <1>5 DEF Working
<1>7. DriverTypeOK'
  <2>1. fcu' \in [at : {"read", "ready", "feeding", "busy", "locked"}, addr : CodeFlash \cup {0}]
    BY <1>4, <1>5
  <2>2. readyOn' = FALSE
    BY DEF WriteFirst
  <2> QED
    BY <1>5, <2>1, <2>2 DEF DriverInv, DriverTypeOK, WriteFirst, Goto, params, history
<1>8. LockHeld' /\ CallKnown' /\ SequencerKnown'
  BY <1>1, <1>2, <1>5, <1>6
     DEF DriverInv, DriverTypeOK, LockHeld, CallKnown, SequencerKnown, WriteFirst
<1>9. InterruptsKnown'
  BY <1>1 DEF DriverInv, DriverTypeOK, InterruptsKnown, WriteFirst
<1>10. WriteKnown' /\ EraseKnown'
  BY <1>2, <1>3, <1>5, <1>6 DEF DriverInv, WriteKnown, EraseKnown
<1>11. AreaDivided'
  <2>1. InSequencer' = {addr} /\ InSequencer = {}
    BY <1>2, <1>5 DEF InSequencer, Ready
  <2>2. NotBegun = addr .. addr + totalCount - 1 /\ NotBegun' = addr + 1 .. addr + totalCount - 1
    BY <1>1, <1>2, <1>5 DEF NotBegun
  <2>3. NotBegun = {addr} \cup NotBegun' /\ addr \notin NotBegun'
    BY <1>3, <2>2, Sizes
  <2>4. job.area = NotBegun
    BY <1>2, <2>1 DEF DriverInv, AreaDivided, Ready
  <2> QED
    BY <1>2, <1>5, <2>1, <2>3, <2>4 DEF AreaDivided
<1> QED
  BY <1>1, <1>7, <1>8, <1>9, <1>10, <1>11 DEF DriverInv

(* The first unit is counted; a sequencer that has stopped without an      *)
(* interrupt does not matter.                                              *)
LEMMA FeedFirstInv ==
  ASSUME DriverInv, NEW c \in Callers, FeedFirst(c)
  PROVE  DriverInv'
<1>1. Place = "feed" /\ pending = {} /\ OneCall' /\ Place' = "final"
  BY CallContinues DEF FeedFirst
<1>2. Working /\ cur = "write" /\ fcu.at \in {"feeding", "locked"}
  BY <1>1 DEF DriverInv, CallKnown, FeedFirst
<1>3. /\ totalCount \in 1 .. MaxUnits /\ addr \in LoBankLoAddr .. Modulus
      /\ addr + totalCount <= Modulus
  BY <1>1, <1>2, Sizes DEF DriverInv, DriverTypeOK, WriteKnown
<1>4. /\ fcu' = fcu /\ job' = job /\ worked' = worked /\ cur' = cur
      /\ addr' = addr + 1 /\ count' = count /\ totalCount' = totalCount - 1
  BY DEF FeedFirst, history
<1>5. Working'
  BY <1>2, <1>4 DEF Working
<1>6. /\ addr' \in LoBankLoAddr .. Modulus /\ addr' + totalCount' <= Modulus
      /\ totalCount' \in 0 .. MaxUnits
  BY <1>3, <1>4, Sizes
<1>7. DriverTypeOK'
  BY <1>4, <1>6 DEF DriverInv, DriverTypeOK, FeedFirst, Goto, history
<1>8. LockHeld' /\ CallKnown' /\ SequencerKnown'
  BY <1>1, <1>2, <1>4, <1>5
     DEF DriverInv, DriverTypeOK, LockHeld, CallKnown, SequencerKnown, FeedFirst
<1>9. InterruptsKnown'
  BY <1>1 DEF DriverInv, DriverTypeOK, InterruptsKnown, FeedFirst
<1>10. WriteKnown' /\ EraseKnown'
  BY <1>1, <1>2, <1>4, <1>6 DEF WriteKnown, EraseKnown
<1>11. AreaDivided'
  <2>1. InSequencer' = InSequencer
    BY <1>4 DEF InSequencer
  <2>2. NotBegun' = NotBegun
    <3>1. addr + 1 + (totalCount - 1) - 1 = addr + totalCount - 1
      BY <1>3, Sizes
    <3> QED
      BY <3>1, <1>1, <1>2, <1>4 DEF NotBegun
  <2> QED
    BY <1>2, <1>4, <2>1, <2>2 DEF DriverInv, AreaDivided
<1> QED
  BY <1>1, <1>7, <1>8, <1>9, <1>10, <1>11 DEF DriverInv

LEMMA FinalFirstInv ==
  ASSUME DriverInv, NEW c \in Callers, FinalFirst(c)
  PROVE  DriverInv'
<1>1. Place = "final" /\ pending = {} /\ OneCall' /\ Place' = "rest"
  BY CallContinues DEF FinalFirst
<1>2. /\ job' = job /\ worked' = worked /\ cur' = cur
      /\ addr' = addr /\ count' = count /\ totalCount' = totalCount
  BY DEF FinalFirst, params, history
<1>3. Working' <=> Working
  BY <1>2 DEF Working
<1>4. fcu \in [at : {"read", "ready", "feeding", "busy", "locked"}, addr : CodeFlash \cup {0}]
  BY DEF DriverInv, DriverTypeOK
<1>5. /\ fcu' \in [at : {"read", "ready", "feeding", "busy", "locked"}, addr : CodeFlash \cup {0}]
      /\ fcu'.addr = fcu.addr
      /\ fcu.at = "feeding" => fcu'.at = "busy"
      /\ fcu.at # "feeding" => fcu' = fcu
  BY <1>4 DEF FinalFirst
<1>6. /\ Working => cur = "write" /\ fcu.at \in {"feeding", "locked"}
      /\ ~Working => fcu = Idle /\ fcu' = Idle
  BY <1>1, <1>5 DEF DriverInv, CallKnown, LockHeld, Idle
<1>7. DriverTypeOK'
  BY <1>5 DEF DriverInv, DriverTypeOK, FinalFirst, Goto, params, history
<1>8. LockHeld'
  BY <1>1, <1>2, <1>3, <1>6 DEF DriverInv, DriverTypeOK, LockHeld, FinalFirst
<1>9. CallKnown' /\ SequencerKnown'
  BY <1>1, <1>2, <1>3, <1>5, <1>6 DEF CallKnown, SequencerKnown, Idle
<1>10. InterruptsKnown'
  BY <1>1 DEF DriverInv, DriverTypeOK, InterruptsKnown, FinalFirst
<1>11. WriteKnown' /\ EraseKnown'
  BY <1>1, <1>2, <1>3, <1>6 DEF DriverInv, WriteKnown, EraseKnown
<1>12. AreaDivided'
  <2>1. CASE Working
    <3>1. InSequencer' = InSequencer
      BY <1>5, <1>6, <2>1 DEF InSequencer
    <3>2. NotBegun' = NotBegun
      BY <1>1, <1>2, <1>6, <2>1 DEF NotBegun
    <3>3. fcu.at # "locked" <=> fcu'.at # "locked"
      BY <1>5, <1>6, <2>1
    <3> QED
      BY <1>2, <2>1, <3>1, <3>2, <3>3 DEF DriverInv, AreaDivided
  <2>2. CASE ~Working
    BY <1>3, <2>2 DEF AreaDivided
  <2> QED
    BY <2>1, <2>2
<1> QED
  BY <1>1, <1>7, <1>8, <1>9, <1>10, <1>11, <1>12 DEF DriverInv

-----------------------------------------------------------------------------
(* The sequencer.                                                          *)

LEMMA WorkingJob ==
  ASSUME DriverInv, Working
  PROVE  /\ job \in Service!Jobs /\ job.area \subseteq CodeFlash /\ job.area # {}
         /\ job.kind \in {"erase", "write"} /\ cur = job.kind
BY DEF DriverInv, DriverTypeOK, LockHeld, Working, Service!Jobs

(* A unit that is done was not done before and belongs to the area.        *)
LEMMA UnitInArea ==
  ASSUME DriverInv, fcu.at = "busy"
  PROVE  Working /\ fcu.addr \in job.area \ worked /\ Place = "rest"
<1>1. Working
  BY DEF DriverInv, LockHeld, Idle
<1>2. InSequencer = {fcu.addr}
  BY DEF InSequencer
<1> QED
  BY <1>1, <1>2 DEF DriverInv, AreaDivided, SequencerKnown

LEMMA UnitDoneInv ==
  ASSUME DriverInv, UnitDone
  PROVE  DriverInv'
<1>1. OneCall' /\ Place' = Place
  BY CallsStay DEF DriverInv, UnitDone
<1>2. fcu.at = "busy" /\ Working /\ fcu.addr \in job.area \ worked /\ Place = "rest"
  BY UnitInArea DEF UnitDone
<1>3. /\ fcu' = Ready /\ worked' = worked \cup {fcu.addr} /\ job' = job /\ cur' = cur
      /\ addr' = addr /\ count' = count /\ totalCount' = totalCount
      /\ fcu'.at = "ready"
  BY DEF UnitDone, params, Ready
<1>4. Working'
  BY <1>2, <1>3 DEF Working
<1>5. pending' = (IF irq THEN pending \cup {"ready"} ELSE pending) /\ irq' = irq
  BY DEF UnitDone, Raise
<1>6. DriverTypeOK'
  <2>1. worked' \subseteq CodeFlash
    BY <1>2, <1>3, WorkingJob DEF DriverInv, DriverTypeOK
  <2>2. fcu' \in [at : {"read", "ready", "feeding", "busy", "locked"}, addr : CodeFlash \cup {0}]
    BY <1>3 DEF Ready
  <2>3. pending' \subseteq {"ready", "error"}
    BY <1>5 DEF DriverInv, DriverTypeOK
  <2> QED
    BY <2>1, <2>2, <2>3 DEF DriverInv, DriverTypeOK, UnitDone, params
<1>7. LockHeld' /\ CallKnown' /\ SequencerKnown'
  BY <1>1, <1>2, <1>3, <1>4 DEF DriverInv, LockHeld, CallKnown, SequencerKnown, UnitDone
<1>8. InterruptsKnown'
  BY <1>1, <1>2, <1>3, <1>4, <1>5 DEF DriverInv, DriverTypeOK, InterruptsKnown, UnitDone
<1>9. WriteKnown' /\ EraseKnown'
  BY <1>1, <1>2, <1>3, <1>4 DEF DriverInv, WriteKnown, EraseKnown
<1>10. AreaDivided'
  <2>1. InSequencer = {fcu.addr} /\ InSequencer' = {}
    BY <1>2, <1>3 DEF InSequencer
  <2>2. NotBegun' = NotBegun
    BY <1>1, <1>3 DEF NotBegun
  <2> QED
    BY <1>2, <1>3, <2>1, <2>2 DEF DriverInv, AreaDivided
<1> QED
  BY <1>1, <1>6, <1>7, <1>8, <1>9, <1>10 DEF DriverInv

LEMMA UnitFailsInv ==
  ASSUME DriverInv, UnitFails
  PROVE  DriverInv'
<1>1. OneCall' /\ Place' = Place
  BY CallsStay DEF DriverInv, UnitFails
<1>2. fcu.at \in {"busy", "feeding"} /\ Working /\ Place \in {"rest", "feed", "final"}
  BY DEF DriverInv, LockHeld, SequencerKnown, Idle, UnitFails
<1>3. /\ fcu' = [at |-> "locked", addr |-> 0] /\ worked' = worked /\ job' = job /\ cur' = cur
      /\ addr' = addr /\ count' = count /\ totalCount' = totalCount
      /\ fcu'.at = "locked"
  BY DEF UnitFails, params, history
<1>4. Working'
  BY <1>2, <1>3 DEF Working
<1>5. pending' = (IF irq THEN pending \cup {"ready", "error"} ELSE pending) /\ irq' = irq
  BY DEF UnitFails, Raise
<1>6. DriverTypeOK'
  <2>1. fcu' \in [at : {"read", "ready", "feeding", "busy", "locked"}, addr : CodeFlash \cup {0}]
    BY <1>3
  <2>2. pending' \subseteq {"ready", "error"}
    BY <1>5 DEF DriverInv, DriverTypeOK
  <2> QED
    BY <2>1, <2>2 DEF DriverInv, DriverTypeOK, UnitFails, params, history
<1>7. LockHeld' /\ CallKnown' /\ SequencerKnown'
  BY <1>1, <1>2, <1>3, <1>4 DEF DriverInv, LockHeld, CallKnown, SequencerKnown, UnitFails
<1>8. InterruptsKnown'
  BY <1>1, <1>2, <1>3, <1>4, <1>5 DEF DriverInv, DriverTypeOK, InterruptsKnown, UnitFails
<1>9. WriteKnown' /\ EraseKnown'
  BY <1>1, <1>2, <1>3, <1>4 DEF DriverInv, WriteKnown, EraseKnown
<1>10. AreaDivided'
  BY <1>2, <1>3 DEF DriverInv, AreaDivided
<1> QED
  BY <1>1, <1>6, <1>7, <1>8, <1>9, <1>10 DEF DriverInv

-----------------------------------------------------------------------------
(* The interrupt routines.  Unless a stop was forced, a ready interrupt is *)
(* taken when the sequencer has ended a unit and no call is on its way.    *)

LEMMA ReadyAfterUnit ==
  ASSUME DriverInv, ReadyTaken, cur # "stop"
  PROVE  /\ Working /\ fcu.at = "ready" /\ Place = "rest" /\ irq /\ lock /\ opened
         /\ pending \ {"ready"} = {}
         /\ InSequencer = {} /\ job.area = worked \cup NotBegun /\ worked \cap NotBegun = {}
<1>1. Working /\ fcu.at = "ready" /\ Place = "rest" /\ irq /\ pending \ {"ready"} = {}
  BY DEF DriverInv, DriverTypeOK, InterruptsKnown, ReadyTaken
<1>2. InSequencer = {}
  BY <1>1 DEF InSequencer
<1> QED
  BY <1>1, <1>2 DEF DriverInv, LockHeld, AreaDivided

LEMMA ReadyWriteNextInv ==
  ASSUME DriverInv, ReadyWriteNext
  PROVE  DriverInv'
<1>1. OneCall' /\ Place' = Place
  BY CallsStay DEF DriverInv, ReadyWriteNext
<1>2. /\ Working /\ fcu.at = "ready" /\ Place = "rest" /\ pending \ {"ready"} = {}
      /\ InSequencer = {} /\ job.area = worked \cup NotBegun /\ worked \cap NotBegun = {}
  BY ReadyAfterUnit DEF ReadyWriteNext
<1>3. /\ fcu' = [at |-> "busy", addr |-> addr] /\ worked' = worked /\ job' = job
      /\ cur' = cur /\ cur = "write" /\ pending' = {}
      /\ addr' = addr + 1 /\ count' = count /\ totalCount' = totalCount - 1
      /\ fcu'.at = "busy" /\ fcu'.addr = addr
  BY <1>2 DEF ReadyWriteNext, history
<1>4. Working'
  BY <1>2, <1>3 DEF Working
<1>5. totalCount \in 1 .. MaxUnits /\ addr \in LoBankLoAddr .. Modulus /\ addr + totalCount <= Modulus
  BY <1>2, <1>3, Sizes DEF DriverInv, DriverTypeOK, WriteKnown, ReadyWriteNext
<1>6. /\ addr' \in LoBankLoAddr .. Modulus /\ addr' + totalCount' <= Modulus
      /\ totalCount' \in 0 .. MaxUnits /\ addr \in CodeFlash
  BY <1>3, <1>5, Sizes DEF CodeFlash
<1>7. DriverTypeOK'
  <2>1. fcu' \in [at : {"read", "ready", "feeding", "busy", "locked"}, addr : CodeFlash \cup {0}]
    BY <1>3, <1>6
  <2> QED
    BY <2>1, <1>3, <1>6 DEF DriverInv, DriverTypeOK, ReadyWriteNext, history
<1>8. LockHeld' /\ CallKnown' /\ SequencerKnown'
  BY <1>1, <1>2, <1>3, <1>4 DEF DriverInv, LockHeld, CallKnown, SequencerKnown, ReadyWriteNext
<1>9. InterruptsKnown'
  BY <1>1, <1>3 DEF DriverInv, DriverTypeOK, InterruptsKnown, ReadyWriteNext
<1>10. WriteKnown' /\ EraseKnown'
  BY <1>1, <1>2, <1>3, <1>6 DEF WriteKnown, EraseKnown
<1>11. AreaDivided'
  <2>1. InSequencer' = {addr}
    BY <1>3 DEF InSequencer
  <2>2. /\ NotBegun = addr .. addr + totalCount - 1
        /\ NotBegun' = addr + 1 .. addr + 1 + (totalCount - 1) - 1
    BY <1>1, <1>2, <1>3 DEF NotBegun
  <2>3. NotBegun = {addr} \cup NotBegun' /\ addr \notin NotBegun'
    BY <1>5, <2>2, Sizes
  <2> QED
    BY <1>2, <1>3, <2>1, <2>3 DEF AreaDivided
<1> QED
  BY <1>1, <1>7, <1>8, <1>9, <1>10, <1>11 DEF DriverInv

LEMMA ReadyEraseNextInv ==
  ASSUME DriverInv, ReadyEraseNext
  PROVE  DriverInv'
<1>1. OneCall' /\ Place' = Place
  BY CallsStay DEF DriverInv, ReadyEraseNext
<1>2. /\ Working /\ fcu.at = "ready" /\ Place = "rest" /\ pending \ {"ready"} = {}
      /\ InSequencer = {} /\ job.area = worked \cup NotBegun /\ worked \cap NotBegun = {}
  BY ReadyAfterUnit DEF ReadyEraseNext
<1> DEFINE b == NextBlock(addr)
           n == totalCount - (count + 1)
<1>3. /\ fcu' = [at |-> "busy", addr |-> b] /\ worked' = worked /\ job' = job
      /\ cur' = cur /\ cur = "erase" /\ pending' = {}
      /\ addr' = b /\ count' = count + 1 /\ totalCount' = totalCount
      /\ fcu'.at = "busy" /\ fcu'.addr = b
  BY <1>2 DEF ReadyEraseNext, history
<1>4. Working'
  BY <1>2, <1>3 DEF Working
<1>5. PICK low \in Banks, k \in BlockNumbers : addr = BlockAt(low, k) /\ totalCount - count <= k + 1
  BY <1>2, <1>3 DEF DriverInv, EraseKnown
<1>6. /\ count \in Nat /\ totalCount \in Nat /\ totalCount <= MaxUnits /\ count + 1 < totalCount
      /\ k \in Int
  BY Sizes DEF DriverInv, DriverTypeOK, ReadyEraseNext, BlockNumbers
<1>7. n \in Nat /\ n > 0 /\ n <= k /\ totalCount - count = n + 1 /\ k > 0
  BY <1>5, <1>6
<1>8. k - 1 \in BlockNumbers /\ b = BlockAt(low, k - 1)
  BY <1>5, <1>7, NextBlockBelow
<1>9. b \in EraseArea(b, n) /\ b \in CodeFlash
  BY <1>7, <1>8, EraseAreaFirst
<1>10. EraseArea(addr, n + 1) \ {addr} = EraseArea(b, n)
  BY <1>5, <1>7, <1>8, EraseAreaRest
<1> HIDE DEF b
<1>11. DriverTypeOK'
  <2>1. fcu' \in [at : {"read", "ready", "feeding", "busy", "locked"}, addr : CodeFlash \cup {0}]
    BY <1>3, <1>9
  <2>2. addr' \in LoBankLoAddr .. Modulus \cup {0} /\ count' \in 0 .. MaxUnits
    BY <1>3, <1>6, <1>9, Sizes DEF CodeFlash
  <2> QED
    BY <2>1, <2>2, <1>3 DEF DriverInv, DriverTypeOK, ReadyEraseNext, history
<1>12. LockHeld' /\ CallKnown' /\ SequencerKnown'
  BY <1>1, <1>2, <1>3, <1>4 DEF DriverInv, LockHeld, CallKnown, SequencerKnown, ReadyEraseNext
<1>13. InterruptsKnown'
  BY <1>1, <1>3 DEF DriverInv, DriverTypeOK, InterruptsKnown, ReadyEraseNext
<1>14. WriteKnown' /\ EraseKnown'
  <2>1. totalCount' - count' <= (k - 1) + 1 /\ count' < totalCount'
    BY <1>3, <1>6, <1>7
  <2> QED
    BY <1>3, <1>8, <2>1 DEF WriteKnown, EraseKnown
<1>15. AreaDivided'
  <2>1. InSequencer' = {b}
    BY <1>3 DEF InSequencer
  <2>2. NotBegun = EraseArea(addr, n + 1) \ {addr} /\ NotBegun' = EraseArea(b, n) \ {b}
    BY <1>1, <1>2, <1>3, <1>7 DEF NotBegun
  <2>3. NotBegun = {b} \cup NotBegun' /\ b \notin NotBegun'
    BY <1>9, <1>10, <2>2
  <2> QED
    BY <1>2, <1>3, <2>1, <2>3 DEF AreaDivided
<1> QED
  BY <1>1, <1>11, <1>12, <1>13, <1>14, <1>15 DEF DriverInv

(* With nothing left the whole area has been worked on.                    *)
LEMMA WholeArea ==
  ASSUME DriverInv, ReadyTaken, NothingLeft, cur # "stop"
  PROVE  worked = job.area
<1>1. /\ Working /\ fcu.at = "ready" /\ Place = "rest" /\ job.area = worked \cup NotBegun
  BY ReadyAfterUnit
<1>2. cur \in {"erase", "write"}
  BY <1>1, WorkingJob
<1>3. CASE cur = "write"
  <2>1. totalCount = 0 /\ addr \in Int
    BY <1>1, <1>3, Sizes DEF DriverInv, NothingLeft, WriteKnown
  <2>2. NotBegun = {}
    BY <1>1, <1>3, <2>1 DEF NotBegun
  <2> QED
    BY <1>1, <2>2
<1>4. CASE cur = "erase"
  <2>1. totalCount - count = 1
    BY <1>1, <1>4, Sizes DEF DriverInv, DriverTypeOK, NothingLeft, EraseKnown
  <2>2. PICK low \in Banks, k \in BlockNumbers : addr = BlockAt(low, k)
    BY <1>1, <1>4 DEF DriverInv, EraseKnown
  <2>3. NotBegun = EraseArea(addr, 1) \ {addr}
    BY <1>1, <1>4, <2>1 DEF NotBegun
  <2>4. NotBegun = {}
    BY <2>2, <2>3, EraseAreaLast
  <2> QED
    BY <1>1, <2>4
<1> QED
  BY <1>2, <1>3, <1>4

LEMMA ReadyEndInv ==
  ASSUME DriverInv, ReadyEnd
  PROVE  DriverInv'
<1>1. OneCall' /\ Place' = Place
  BY CallsStay DEF DriverInv, ReadyEnd
<1>2. Working /\ Place = "rest" /\ opened /\ pending \ {"ready"} = {}
  BY ReadyAfterUnit DEF ReadyEnd
<1>3. job' = Service!NoJob /\ worked' = {} /\ fcu' = Idle /\ pending' = {} /\ ~Working'
  BY <1>2 DEF ReadyEnd, Report, Working
<1>4. WriteKnown' /\ EraseKnown' /\ AreaDivided'
  BY <1>3, NoOperation
<1>5. DriverTypeOK'
  <2>1. count' \in 0 .. MaxUnits
    BY <1>2, Sizes DEF DriverInv, DriverTypeOK, EraseKnown, ReadyEnd
  <2>2. fcu' \in [at : {"read", "ready", "feeding", "busy", "locked"}, addr : CodeFlash \cup {0}]
    BY <1>3 DEF Idle
  <2> QED
    BY <1>3, <2>1, <2>2 DEF DriverInv, DriverTypeOK, ReadyEnd, Report, ReleaseState
<1>6. LockHeld' /\ CallKnown' /\ SequencerKnown'
  BY <1>1, <1>2, <1>3 DEF LockHeld, CallKnown, SequencerKnown, ReadyEnd, ReleaseState, Idle
<1>7. InterruptsKnown'
  BY <1>1, <1>3 DEF DriverInv, DriverTypeOK, InterruptsKnown, ReadyEnd
<1> QED
  BY <1>1, <1>4, <1>5, <1>6, <1>7 DEF DriverInv

LEMMA ReadyIgnoredInv ==
  ASSUME DriverInv, ReadyIgnored
  PROVE  DriverInv'
<1>1. OneCall' /\ Place' = Place
  BY CallsStay DEF DriverInv, ReadyIgnored
<1>2. ~Working
  BY WorkingJob DEF ReadyIgnored
<1>3. job' = Service!NoJob /\ ~Working'
  BY <1>2 DEF ReadyIgnored, history, Working
<1>4. pending' = {}
  BY DEF DriverInv, DriverTypeOK, ReadyIgnored, ReadyTaken
<1>5. WriteKnown' /\ EraseKnown' /\ AreaDivided'
  BY <1>3, NoOperation
<1>6. DriverTypeOK'
  BY <1>3, <1>4 DEF DriverInv, DriverTypeOK, ReadyIgnored, params, history
<1>7. LockHeld' /\ CallKnown' /\ SequencerKnown'
  BY <1>1, <1>2, <1>3
     DEF DriverInv, LockHeld, CallKnown, SequencerKnown, ReadyIgnored, params, history
<1>8. InterruptsKnown'
  BY <1>1, <1>4 DEF DriverInv, DriverTypeOK, InterruptsKnown, ReadyIgnored
<1> QED
  BY <1>1, <1>5, <1>6, <1>7, <1>8 DEF DriverInv

LEMMA ErrorIsrInv ==
  ASSUME DriverInv, ErrorIsr
  PROVE  DriverInv'
<1>1. OneCall' /\ Place' = Place
  BY CallsStay DEF DriverInv, ErrorIsr
<1>2. Working /\ fcu.at = "locked" /\ opened
  BY DEF DriverInv, InterruptsKnown, LockHeld, ErrorIsr
<1>3. Place \in {"rest", "feed", "final"}
  BY <1>2 DEF DriverInv, CallKnown, Ready
<1>4. /\ job' = Service!NoJob /\ worked' = {} /\ fcu' = Idle /\ pending' = {} /\ ~Working'
      /\ cur' = "stop"
  BY DEF ErrorIsr, Report, Working
<1>5. WriteKnown' /\ EraseKnown' /\ AreaDivided'
  BY <1>4, NoOperation
<1>6. DriverTypeOK'
  <2>1. fcu' \in [at : {"read", "ready", "feeding", "busy", "locked"}, addr : CodeFlash \cup {0}]
    BY <1>4 DEF Idle
  <2> QED
    BY <1>4, <2>1 DEF DriverInv, DriverTypeOK, ErrorIsr, Report, ReleaseState
<1>7. LockHeld' /\ CallKnown' /\ SequencerKnown'
  BY <1>1, <1>2, <1>3, <1>4
     DEF LockHeld, CallKnown, SequencerKnown, ErrorIsr, ReleaseState, Idle
<1>8. InterruptsKnown'
  BY <1>1, <1>4 DEF DriverInv, DriverTypeOK, InterruptsKnown, ErrorIsr
<1> QED
  BY <1>1, <1>5, <1>6, <1>7, <1>8 DEF DriverInv

-----------------------------------------------------------------------------
(* The invariant holds, and what follows from it.                          *)

LEMMA DriverInitInv == DriverInit => DriverInv
<1> SUFFICES ASSUME DriverInit PROVE DriverInv
  OBVIOUS
<1>1. AtRest /\ Place = "rest" /\ ~Working /\ OneCall
  BY RestPlace DEF DriverInit, AtRest, OneCall, Working
<1>2. DriverTypeOK
  <2>1. 0 \in 0 .. MaxUnits
    BY Sizes
  <2>2. Idle \in [at : {"read", "ready", "feeding", "busy", "locked"}, addr : CodeFlash \cup {0}]
    BY DEF Idle
  <2> QED
    BY <2>1, <2>2 DEF DriverInit, DriverTypeOK
<1>3. LockHeld /\ CallKnown /\ SequencerKnown /\ InterruptsKnown
  BY <1>1 DEF DriverInit, LockHeld, CallKnown, SequencerKnown, InterruptsKnown, Idle
<1>4. WriteKnown /\ EraseKnown /\ AreaDivided
  BY <1>1 DEF WriteKnown, EraseKnown, AreaDivided
<1> QED
  BY <1>1, <1>2, <1>3, <1>4 DEF DriverInv

LEMMA DriverStutter ==
  ASSUME DriverInv, UNCHANGED driverVars
  PROVE  DriverInv'
<1>1. OneCall' /\ Place' = Place
  BY CallsStay DEF DriverInv, driverVars
<1>2. Working' <=> Working
  BY DEF Working, driverVars
<1>3. DriverTypeOK'
  BY DEF DriverInv, DriverTypeOK, driverVars
<1>4. LockHeld' /\ CallKnown' /\ SequencerKnown' /\ InterruptsKnown'
  BY <1>1, <1>2
     DEF DriverInv, LockHeld, CallKnown, SequencerKnown, InterruptsKnown, driverVars
<1>5. WriteKnown' /\ EraseKnown'
  BY <1>1, <1>2 DEF DriverInv, WriteKnown, EraseKnown, driverVars
<1>6. AreaDivided'
  <2>1. InSequencer' = InSequencer /\ NotBegun' = NotBegun
    BY <1>1 DEF InSequencer, NotBegun, driverVars
  <2> QED
    BY <1>2, <2>1 DEF DriverInv, AreaDivided, driverVars
<1> QED
  BY <1>1, <1>3, <1>4, <1>5, <1>6 DEF DriverInv

LEMMA DriverNextInv ==
  ASSUME ~Overlapping, DriverInv, [DriverNext]_driverVars
  PROVE  DriverInv'
<1>1. ASSUME NEW c \in Callers, CallBegins(c) PROVE DriverInv'
  BY <1>1, CloseCallInv, OpenCallInv, SetCallbackCallInv, EraseCallInv, WriteCallInv
     DEF CallBegins
<1>2. ASSUME NEW c \in Callers, CallGoesOn(c) PROVE DriverInv'
  <2>1. CASE \E kind \in {"erase", "write"}, a \in Addresses, n \in 0 .. MaxUnits :
               BadParameters(c, kind, a, n) \/ GoodParameters(c, kind, a, n)
    BY <2>1, BadParametersInv, GoodParametersInv
  <2>2. CASE CloseEnd(c) \/ OpenEnd(c) \/ OpenReady(c) \/ SetCallbackEnd(c)
    BY <2>2, CloseEndInv, OpenEndInv, OpenReadyInv, SetCallbackEndInv
  <2>3. CASE EraseFirst(c) \/ WriteFirst(c) \/ FeedFirst(c) \/ FinalFirst(c)
    BY <2>3, EraseFirstInv, WriteFirstInv, FeedFirstInv, FinalFirstInv
  <2>4. CASE FeedStopped(c) \/ AbortReset(c) \/ AbortRelease(c)
    BY <2>4, FeedStoppedInv, AbortResetInv, AbortReleaseInv
  <2> QED
    BY <1>2, <2>1, <2>2, <2>3, <2>4 DEF CallGoesOn
<1>3. CASE Sequencer
  BY <1>3, UnitDoneInv, UnitFailsInv DEF Sequencer
<1>4. CASE Interrupt
  BY <1>4, ReadyWriteNextInv, ReadyEraseNextInv, ReadyEndInv, ReadyIgnoredInv, ErrorIsrInv
     DEF Interrupt
<1>5. CASE UNCHANGED driverVars
  BY <1>5, DriverStutter
<1> QED
  BY <1>1, <1>2, <1>3, <1>4, <1>5 DEF DriverNext

(* DriverInv is an invariant of the driver of r_flash_rx when its callers  *)
(* do not overlap, whatever the layout of the flash.                       *)
THEOREM DriverInvHolds ==
  ASSUME ~Overlapping
  PROVE  DriverSpec => []DriverInv
<1>1. DriverInit => DriverInv
  BY DriverInitInv
<1>2. DriverInv /\ [DriverNext]_driverVars => DriverInv'
  BY DriverNextInv
<1> QED
  BY <1>1, <1>2, PTL DEF DriverSpec

(* Type correctness: the address and the counts of an operation stay in    *)
(* the flash and in their bounds up to its last unit.                      *)
THEOREM DriverTypes ==
  ASSUME ~Overlapping
  PROVE  DriverSpec => []DriverTypeOK
<1>1. DriverInv => DriverTypeOK
  BY DEF DriverInv
<1> QED
  BY <1>1, DriverInvHolds, PTL

(* g_flash_lock, g_flash_state: between the calls the driver is locked     *)
(* exactly when an operation goes on, and an open driver is READY exactly  *)
(* when it is not locked.                                                  *)
THEOREM LockFollowsWork ==
  ASSUME ~Overlapping
  PROVE  DriverSpec => []LockedWhileWorking
<1>1. DriverInv => LockedWhileWorking
  <2> SUFFICES ASSUME DriverInv, AtRest PROVE LockedWhileWorking
    BY DEF LockedWhileWorking, AtRest
  <2>1. Place = "rest"
    BY RestPlace
  <2>2. lock <=> Working
    BY <2>1 DEF DriverInv, DriverTypeOK, LockHeld
  <2>3. opened => (state = "READY" <=> ~lock)
    BY DEF DriverInv, DriverTypeOK, LockHeld
  <2> QED
    BY <2>2, <2>3 DEF LockedWhileWorking, Working
<1> QED
  BY <1>1, DriverInvHolds, PTL

(* check_cf_block_total: an erase is let through exactly when its blocks   *)
(* are all there, in every layout and for overlapping callers as well.     *)
THEOREM EraseCheckIsExact == DriverSpec => []EraseCheckExact
<1>1. EraseCheckExact
  <2> SUFFICES ASSUME NEW a \in Addresses, NEW n \in 0 .. NumBlocksCF + 1
               PROVE  EraseAllowed(a, n) <=>
                        a \in BlockStarts /\ n > 0 /\ Cardinality(EraseArea(a, n)) = n
    BY DEF EraseCheckExact
  <2>1. n \in Nat
    BY Sizes
  <2> QED
    BY <2>1, EraseCheck
<1> QED
  BY <1>1, PTL

-----------------------------------------------------------------------------
(* The driver implements FlashService, step by step.                       *)

ServiceSafety == Service!ServiceInit /\ [][Service!ServiceNext]_(Service!serviceVars)

LEMMA ServiceStep ==
  ASSUME ~Overlapping, DriverInv, [DriverNext]_driverVars
  PROVE  [Service!ServiceNext]_(Service!serviceVars)
<1> DEFINE Same == UNCHANGED <<opened, irq, job, worked, outcome>>
<1> USE DEF Service!serviceVars
<1>1. ASSUME NEW c \in Callers, CallBegins(c) PROVE Same
  BY <1>1 DEF CallBegins, CloseCall, OpenCall, SetCallbackCall, EraseCall, WriteCall, history
<1>2. ASSUME NEW c \in Callers, CallGoesOn(c) PROVE Same \/ Service!ServiceNext
  <2>1. CASE CloseEnd(c)
    <3>1. Place = "close"
      BY <2>1, CallContinues DEF CloseEnd
    <3>2. job = Service!NoJob
      BY <3>1 DEF DriverInv, CallKnown, Working
    <3> QED
      BY <2>1, <3>2 DEF CloseEnd, InterruptsOff, history, Service!ServiceNext, Service!Close
  <2>2. CASE OpenEnd(c)
    <3>1. Place = "open"
      BY <2>2, CallContinues DEF OpenEnd
    <3>2. job = Service!NoJob /\ ~opened
      BY <3>1 DEF DriverInv, CallKnown, Working
    <3> QED
      BY <2>2, <3>2 DEF OpenEnd, InterruptsOff, history, Service!ServiceNext, Service!Open
  <2>3. CASE SetCallbackEnd(c)
    <3>1. Place = "arm"
      BY <2>3, CallContinues DEF SetCallbackEnd
    <3>2. job = Service!NoJob /\ opened
      BY <3>1 DEF DriverInv, CallKnown, Working
    <3> QED
      BY <2>3, <3>2
         DEF SetCallbackEnd, InterruptsOn, history, Service!ServiceNext, Service!SetCallback
  <2>4. ASSUME NEW kind \in {"erase", "write"}, NEW a \in Addresses, NEW n \in 0 .. MaxUnits,
               GoodParameters(c, kind, a, n)
        PROVE  Service!ServiceNext
    <3>1. Place = kind
      BY <2>4, CallContinues DEF GoodParameters
    <3>2. job = Service!NoJob /\ opened
      BY <3>1 DEF DriverInv, CallKnown, Working
    <3>3. Allowed(kind, a, n) /\ job' = [kind |-> kind, area |-> Area(kind, a, n)]
      BY <2>4 DEF GoodParameters
    <3>4. job' \in Service!Jobs
      BY <3>3, AllowedArea DEF Service!Jobs
    <3> QED
      BY <2>4, <3>2, <3>4 DEF GoodParameters, Service!ServiceNext, Service!Start
  <2>5. ASSUME NEW kind, NEW a, NEW n, BadParameters(c, kind, a, n) PROVE Same
    BY <2>5 DEF BadParameters, history
  <2>6. CASE OpenReady(c) \/ EraseFirst(c) \/ WriteFirst(c) \/ FeedStopped(c) \/ FeedFirst(c)
    BY <2>6 DEF OpenReady, EraseFirst, WriteFirst, FeedStopped, FeedFirst, history
  <2>7. CASE FinalFirst(c) \/ AbortReset(c) \/ AbortRelease(c)
    BY <2>7 DEF FinalFirst, AbortReset, AbortRelease, history
  <2> QED
    BY <1>2, <2>1, <2>2, <2>3, <2>4, <2>5, <2>6, <2>7 DEF CallGoesOn
<1>3. CASE UnitDone
  <2>1. Working /\ fcu.addr \in job.area \ worked /\ job.area \subseteq CodeFlash
    BY <1>3, UnitInArea, WorkingJob DEF UnitDone
  <2>2. Service!Work(fcu.addr)
    BY <1>3, <2>1 DEF UnitDone, Service!Work
  <2> QED
    BY <2>1, <2>2 DEF Service!ServiceNext
<1>4. CASE ReadyEnd
  <2>1. Working /\ irq /\ worked = job.area
    BY <1>4, ReadyAfterUnit, WholeArea DEF ReadyEnd
  <2>2. Service!Report
    BY <1>4, <2>1 DEF ReadyEnd, Report, Service!Report, Working
  <2> QED
    BY <2>2 DEF Service!ServiceNext
<1>5. CASE ErrorIsr
  <2>1. Working /\ irq
    BY <1>5 DEF ErrorIsr, DriverInv, InterruptsKnown
  <2>2. Service!Report
    BY <1>5, <2>1 DEF ErrorIsr, Report, Service!Report, Working
  <2> QED
    BY <2>2 DEF Service!ServiceNext
<1>6. CASE UnitFails \/ ReadyWriteNext \/ ReadyEraseNext \/ ReadyIgnored
  BY <1>6 DEF UnitFails, ReadyWriteNext, ReadyEraseNext, ReadyIgnored, history
<1>7. CASE UNCHANGED driverVars
  BY <1>7 DEF driverVars
<1> QED
  BY <1>1, <1>2, <1>3, <1>4, <1>5, <1>6, <1>7 DEF DriverNext, Sequencer, Interrupt

(* The driver implements FlashService but for the fairness of the report:  *)
(* one operation at a time, on the blocks or units of its area, each once, *)
(* reported once, and as complete only when the whole area was worked on.  *)
THEOREM DriverImplementsService ==
  ASSUME ~Overlapping
  PROVE  DriverSpec => ServiceSafety
<1>1. DriverInit => Service!ServiceInit
  BY DEF DriverInit, Service!ServiceInit
<1>2. DriverInv /\ [DriverNext]_driverVars => [Service!ServiceNext]_(Service!serviceVars)
  BY ServiceStep
<1> QED
  BY <1>1, <1>2, DriverInvHolds, PTL DEF DriverSpec, ServiceSafety

=============================================================================
