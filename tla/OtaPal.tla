------------------------------- MODULE OtaPal -------------------------------
(***************************************************************************)
(* ota_pal_rx65n.c: the OTA platform layer, which takes the blocks of a    *)
(* firmware image from the OTA agent and programs them into flash in the   *)
(* background.  Three actors share it: the OTA agent's task (priority 1),  *)
(* which calls the otaPal functions; ota_flashing_task (the highest        *)
(* priority), which programs one queued packet at a time; and the flash    *)
(* interrupt, which ends an operation.  On one core the agent's task takes *)
(* a step only when the flashing task is blocked, or when the interrupt    *)
(* has made it ready and, as it asks for no switch, the agent that was     *)
(* interrupted runs on until the next tick.                                *)
(*                                                                         *)
(* The image of a job is a set of pages.  Page p of Blocks is a whole      *)
(* block that is queued as it is.  An image with a tail has one more       *)
(* block, which holds the pages LastPages and the tail page, whose end is  *)
(* not aligned: its pages are assembled from the fragment list and queued  *)
(* one by one, the tail is programmed when the file is closed.             *)
(***************************************************************************)
EXTENDS Integers, Sequences, FiniteSets

CONSTANTS NumBlocks,    \* blocks that are a multiple of the page size
          NumLastPages, \* full pages of the last block of an image with a tail
          QueueLength,  \* otaconfigMAX_NUM_BLOCKS_REQUEST
          MaxJobs,      \* bound: files created
          MaxFaults,    \* bound: flash operations that end with an error
          MaxResets     \* bound: resets

ASSUME SizesAssumption ==
  /\ NumBlocks \in Nat /\ NumLastPages \in Nat
  /\ QueueLength \in Nat \ {0} /\ MaxJobs \in Nat
  /\ MaxFaults \in Nat /\ MaxResets \in Nat

Blocks == 1 .. NumBlocks
LastPages == NumBlocks + 1 .. NumBlocks + NumLastPages
TailPage == NumBlocks + NumLastPages + 1
Pages == Blocks \cup LastPages \cup {TailPage}
LastBlock == TailPage      \* the name of the block with the tail

\* What the flash is busy with, other than a page.
Nothing == 0
Erase == -1
Header == -2

ImageStates == {"Unknown", "Testing", "Accepted", "Rejected", "Aborted"}

VARIABLES
  ota,        \* where the OTA agent's task is in the otaPal functions
  hasTail,    \* whether the image of the job ends inside a page
  accepted,   \* blocks that otaPal_WriteBlock has returned success for
  fragments,  \* fragmented_flash_block_list: pages of the last block in it
  queue,      \* xQueue: packets, each a page
  task,       \* ota_flashing_task: the step it is at and the packet it holds
  sem,        \* xSemaphoreFlashig
  busy,       \* the operation that the flash is executing
  callback,   \* the callback that the flash interrupt calls
  headerDone, \* gs_header_flashing_task = OTA_FLASHING_COMPLETE
  flashed,    \* pages that are in flash as they should be
  bad,        \* what an operation that failed has left wrong
  total,      \* total_image_length, in pages
  saved,      \* eSavedAgentState
  selfTest,   \* the device was reset to test a new image, not concluded yet
  refused,    \* a flash operation was refused and nobody looked at the result
  halted,     \* a semaphore was given after it had been deleted
  jobs, faults, resets

vars == <<ota, hasTail, accepted, fragments, queue, task, sem, busy, callback, headerDone,
          flashed, bad, total, saved, selfTest, refused, halted, jobs, faults, resets>>

faultVars == <<bad, faults>>

NoTask == [at |-> "none", page |-> Nothing]

\* The pages and the blocks of the job's image.
Image == IF hasTail THEN Pages ELSE Blocks
AllBlocks == IF hasTail THEN Blocks \cup {LastBlock} ELSE Blocks

TypeOK ==
  /\ ota \in {"idle", "erase", "open", "assemble", "failed", "check", "tail", "tailWait",
              "verify", "header", "headerWait", "closed", "rejected", "commit"}
  /\ hasTail \in BOOLEAN
  /\ accepted \subseteq AllBlocks
  /\ fragments \subseteq LastPages \cup {TailPage}
  /\ queue \in Seq(Pages) /\ Len(queue) <= QueueLength
  /\ task \in [at : {"none", "receive", "take", "woken"}, page : Pages \cup {Nothing}]
  /\ sem \in {"none", "taken", "given"}
  /\ busy \in Pages \cup {Nothing, Erase, Header}
  /\ callback \in {"flashing", "header"}
  /\ headerDone \in BOOLEAN
  /\ flashed \subseteq Pages /\ bad \subseteq Pages \cup {Header}
  /\ total \in 0 .. Cardinality(Pages)
  /\ saved \in ImageStates
  /\ selfTest \in BOOLEAN /\ refused \in BOOLEAN /\ halted \in BOOLEAN
  /\ jobs \in 0 .. MaxJobs /\ faults \in 0 .. MaxFaults /\ resets \in 0 .. MaxResets

-----------------------------------------------------------------------------
(* ota_flashing_task.                                                      *)

FlashReceive ==
  /\ task.at = "receive"
  /\ queue # <<>>
  /\ task' = [at |-> "take", page |-> Head(queue)]
  /\ queue' = Tail(queue)
  /\ UNCHANGED <<ota, hasTail, accepted, fragments, sem, busy, callback, headerDone, flashed, total,
                 saved, selfTest, refused, halted, jobs, faultVars, resets>>

\* R_FLASH_Write (external): it is refused while the flash is busy.
Request(op) ==
  /\ busy' = IF busy = Nothing THEN op ELSE busy
  /\ refused' = (refused \/ busy # Nothing)

\* The length is added whatever R_FLASH_Write returns.
FlashWrite ==
  /\ task.at \in {"take", "woken"}
  /\ sem = "given"
  /\ sem' = "taken"
  /\ Request(task.page)
  /\ total' = total + 1
  /\ task' = [at |-> "receive", page |-> Nothing]
  /\ UNCHANGED <<ota, hasTail, accepted, fragments, queue, callback, headerDone, flashed,
                 saved, selfTest, halted, jobs, faultVars, resets>>

\* The task was woken, and the agent has taken the semaphore before it ran.
FlashBlocksAgain ==
  /\ task.at = "woken"
  /\ sem # "given"
  /\ task' = [task EXCEPT !.at = "take"]
  /\ UNCHANGED <<ota, hasTail, accepted, fragments, queue, sem, busy, callback, headerDone, flashed,
                 total, saved, selfTest, refused, halted, jobs, faultVars, resets>>

FlashTaskStep == FlashReceive \/ FlashWrite \/ FlashBlocksAgain

\* Not ready, or ready since an interrupt that did not switch to it ("woken").
FlashTaskBlocked ==
  /\ ~(task.at = "receive" /\ queue # <<>>)
  /\ ~(task.at = "take" /\ sem = "given")

-----------------------------------------------------------------------------
(* The flash interrupt: ota_flashing_callback, ota_header_flashing_callback *)

\* Excep_FCU_FRDYI and Excep_FCU_FIFERR (external): the operation ends, well or
\* with an error.  What a failed write leaves is bad, and so is what is written
\* on blocks that a failed erase, which goes down from the highest, has left.
Ends(ok) ==
  /\ busy # Nothing
  /\ busy' = Nothing
  /\ ok \/ faults < MaxFaults
  /\ faults' = IF ok THEN faults ELSE faults + 1
  /\ IF busy = Erase
       THEN /\ bad' \in IF ok THEN {{}} ELSE {1 .. k : k \in Pages}
            /\ flashed' = {}
       ELSE /\ bad' = IF ok THEN bad ELSE bad \cup {busy}
            /\ flashed' = flashed \cup (({busy} \cap Pages) \ bad')

\* Neither callback tells an error from a success.  xSemaphoreGiveFromISR makes
\* a task that waits for the semaphore ready; there is no portYIELD_FROM_ISR.
FlashingCallback(ok) ==
  /\ callback = "flashing"
  /\ Ends(ok)
  /\ sem' = IF sem = "none" THEN sem ELSE "given"
  /\ task' = IF task.at = "take" THEN [task EXCEPT !.at = "woken"] ELSE task
  /\ halted' = (sem = "none")
  /\ UNCHANGED <<ota, hasTail, accepted, fragments, queue, callback, headerDone, total,
                 saved, selfTest, refused, jobs, resets>>

HeaderCallback(ok) ==
  /\ callback = "header"
  /\ Ends(ok)
  /\ headerDone' = TRUE
  /\ UNCHANGED <<ota, hasTail, accepted, fragments, queue, task, sem, callback, total,
                 saved, selfTest, refused, halted, jobs, resets>>

-----------------------------------------------------------------------------
(* otaPal_CreateFileForRx, otaPal_WriteBlock, otaPal_Abort.                *)

\* The task, queue and semaphore are created, whatever is there.  R_FLASH_Open
\* fails while an operation goes on, since R_FLASH_Close has failed then.  A
\* task that was left over and is ready has run: xQueueCreate allocates memory,
\* which ends with a switch to it.  If it waits, it waits for ever: nothing
\* gives to its semaphore or its queue again.
CreateFileForRx ==
  /\ ota \in {"idle", "rejected"} /\ jobs < MaxJobs
  /\ task.at # "woken"
  /\ jobs' = jobs + 1
  /\ queue' = <<>> /\ task' = [at |-> "receive", page |-> Nothing] /\ sem' = "given"
  /\ hasTail' \in BOOLEAN
  /\ fragments' = {} /\ accepted' = {}
  /\ IF busy # Nothing
       THEN ota' = "failed" /\ UNCHANGED <<busy, callback, headerDone>>
       ELSE ota' = "erase" /\ busy' = Erase /\ callback' = "header" /\ headerDone' = FALSE
  /\ UNCHANGED <<flashed, total, saved, selfTest, refused, halted, faultVars, resets>>

\* Mutant: the length of an image that was given up is kept.
CreateFileErasedKeepsTotal ==
  /\ ota = "erase"
  /\ headerDone
  /\ callback' = "flashing" /\ saved' = "Unknown"
  /\ ota' = "open"
  /\ UNCHANGED <<hasTail, accepted, fragments, queue, task, sem, busy, headerDone, flashed, total,
                 selfTest, refused, halted, jobs, faultVars, resets>>

CreateFileErased ==
  /\ ota = "erase"
  /\ headerDone
  /\ callback' = "flashing" /\ total' = 0 /\ saved' = "Unknown"
  /\ ota' = "open"
  /\ UNCHANGED <<hasTail, accepted, fragments, queue, task, sem, busy, headerDone, flashed,
                 selfTest, refused, halted, jobs, faultVars, resets>>

\* Mutant: a block that the full queue refuses is taken for written.
WriteBlockIgnoresFull(b) ==
  /\ ota = "open"
  /\ b \in Blocks \ accepted
  /\ queue' = IF Len(queue) < QueueLength THEN Append(queue, b) ELSE queue
  /\ accepted' = accepted \cup {b} /\ ota' = ota
  /\ UNCHANGED <<hasTail, fragments, task, sem, busy, callback, headerDone, flashed, total,
                 saved, selfTest, refused, halted, jobs, faultVars, resets>>

\* A block that is aligned goes to the queue, or fails if the queue is full.
\* The agent gives the file up when a write fails.
WriteBlock(b) ==
  /\ ota = "open"
  /\ b \in Blocks \ accepted
  /\ IF Len(queue) < QueueLength
       THEN queue' = Append(queue, b) /\ accepted' = accepted \cup {b} /\ ota' = ota
       ELSE ota' = "failed" /\ UNCHANGED <<queue, accepted>>
  /\ UNCHANGED <<hasTail, fragments, task, sem, busy, callback, headerDone, flashed, total,
                 saved, selfTest, refused, halted, jobs, faultVars, resets>>

\* fragmented_flash_block_list_insert
WriteLastBlock ==
  /\ ota = "open"
  /\ hasTail /\ LastBlock \notin accepted
  /\ fragments' = LastPages \cup {TailPage}
  /\ ota' = "assemble"
  /\ UNCHANGED <<hasTail, accepted, queue, task, sem, busy, callback, headerDone, flashed, total,
                 saved, selfTest, refused, halted, jobs, faultVars, resets>>

\* fragmented_flash_block_list_assemble takes the next full page out of the
\* list; a page that finds the queue full is lost.
AssemblePage ==
  /\ ota = "assemble"
  /\ \E p \in fragments \cap LastPages :
       /\ \A q \in fragments : p <= q
       /\ fragments' = fragments \ {p}
       /\ IF Len(queue) < QueueLength
            THEN queue' = Append(queue, p) /\ ota' = ota
            ELSE queue' = queue /\ ota' = "failed"
  /\ UNCHANGED <<hasTail, accepted, task, sem, busy, callback, headerDone, flashed, total,
                 saved, selfTest, refused, halted, jobs, faultVars, resets>>

AssembleDone ==
  /\ ota = "assemble"
  /\ fragments \cap LastPages = {}
  /\ accepted' = accepted \cup {LastBlock}
  /\ ota' = "open"
  /\ UNCHANGED <<hasTail, fragments, queue, task, sem, busy, callback, headerDone, flashed, total,
                 saved, selfTest, refused, halted, jobs, faultVars, resets>>

\* The task, the queue with its packets and the semaphores are deleted, also
\* while the flash is busy.
Abort ==
  /\ ota \in {"open", "failed"}
  /\ task' = NoTask /\ queue' = <<>> /\ sem' = "none"
  /\ ota' = "idle"
  /\ UNCHANGED <<hasTail, accepted, fragments, busy, callback, headerDone, flashed, total,
                 saved, selfTest, refused, halted, jobs, faultVars, resets>>

-----------------------------------------------------------------------------
(* otaPal_CloseFile, which the agent calls when it has all blocks.         *)

\* Without a signature the file is rejected at once; the task, the queue and
\* the semaphores stay.
CloseFile ==
  /\ ota = "open"
  /\ accepted = AllBlocks
  /\ \/ ota' = (IF fragments # {} THEN "tail" ELSE "check") /\ saved' = saved
     \/ ota' = "rejected" /\ saved' = "Rejected"
  /\ UNCHANGED <<hasTail, accepted, fragments, queue, task, sem, busy, callback, headerDone,
                 flashed, total, selfTest, refused, halted, jobs, faultVars, resets>>

\* otaPal_CheckFileSignature without fragments: take the semaphore, give it.
WaitFlashed ==
  /\ ota = "check"
  /\ sem = "given"
  /\ ota' = "verify"
  /\ UNCHANGED <<hasTail, accepted, fragments, queue, task, sem, busy, callback, headerDone,
                 flashed, total, saved, selfTest, refused, halted, jobs, faultVars, resets>>

\* Mutant: the tail is programmed without the semaphore.
TailWriteNoTake ==
  /\ ota = "tail"
  /\ callback' = "header" /\ headerDone' = FALSE
  /\ Request(TailPage)
  /\ ota' = "tailWait"
  /\ UNCHANGED <<hasTail, accepted, fragments, queue, task, sem, flashed, total,
                 saved, selfTest, halted, jobs, faultVars, resets>>

\* Mutant: the callback is not changed, so that nobody ends the wait.
TailWriteOldCallback ==
  /\ ota = "tail"
  /\ sem = "given"
  /\ sem' = "taken"
  /\ headerDone' = FALSE
  /\ Request(TailPage)
  /\ ota' = "tailWait"
  /\ UNCHANGED <<hasTail, accepted, fragments, queue, task, callback, flashed, total,
                 saved, selfTest, halted, jobs, faultVars, resets>>

\* With fragments: program the page that the tail is in.
TailWrite ==
  /\ ota = "tail"
  /\ sem = "given"
  /\ sem' = "taken"
  /\ callback' = "header" /\ headerDone' = FALSE
  /\ Request(TailPage)
  /\ ota' = "tailWait"
  /\ UNCHANGED <<hasTail, accepted, fragments, queue, task, flashed, total,
                 saved, selfTest, halted, jobs, faultVars, resets>>

\* The bytes are put at their offset in the image, not in the page, so that
\* they are in the page only if it is the first one.
TailFlashed ==
  /\ ota = "tailWait"
  /\ headerDone
  /\ sem' = "given"
  /\ total' = total + 1
  /\ flashed' = IF TailPage = 1 THEN flashed ELSE flashed \ {TailPage}
  /\ fragments' = {}
  /\ ota' = "verify"
  /\ UNCHANGED <<hasTail, accepted, queue, task, busy, callback, headerDone,
                 saved, selfTest, refused, halted, jobs, faultVars, resets>>

ImageIsWhole == flashed = Image /\ total = Cardinality(Image)

\* CRYPTO_SignatureVerificationFinal (external) accepts the image as it was
\* signed and no other; the certificate may be missing or wrong.
Verify ==
  /\ ota = "verify"
  /\ \/ ImageIsWhole /\ ota' = "header" /\ saved' = saved
     \/ ota' = "rejected" /\ saved' = "Rejected"
  /\ UNCHANGED <<hasTail, accepted, fragments, queue, task, sem, busy, callback, headerDone,
                 flashed, total, selfTest, refused, halted, jobs, faultVars, resets>>

\* ota_context_update_user_firmware_header
HeaderWrite ==
  /\ ota = "header"
  /\ callback' = "header" /\ headerDone' = FALSE
  /\ Request(Header)
  /\ ota' = "headerWait"
  /\ UNCHANGED <<hasTail, accepted, fragments, queue, task, sem, flashed, total,
                 saved, selfTest, halted, jobs, faultVars, resets>>

\* The signature is not one that it can parse: no header is written and the
\* close fails, but the task, the queue and the semaphores are deleted.
HeaderFails ==
  /\ ota = "header"
  /\ task' = NoTask /\ queue' = <<>> /\ sem' = "none"
  /\ ota' = "idle"
  /\ UNCHANGED <<hasTail, accepted, fragments, busy, callback, headerDone, flashed, total,
                 saved, selfTest, refused, halted, jobs, faultVars, resets>>

CloseDone ==
  /\ ota = "headerWait"
  /\ headerDone
  /\ task' = NoTask /\ queue' = <<>> /\ sem' = "none"
  /\ ota' = "closed"
  /\ UNCHANGED <<hasTail, accepted, fragments, busy, callback, headerDone, flashed, total,
                 saved, selfTest, refused, halted, jobs, faultVars, resets>>

-----------------------------------------------------------------------------
(* Image states and the reset.                                             *)

\* otaPal_SetPlatformImageState.  To accept an image under test the install
\* area is erased first; a refused erase is reported (OtaPalCommitFailed).  The
\* end of a test is an event that the agent has waited for, so that a flashing
\* task that was ready has run.
SetPlatformImageState(s) ==
  /\ ota \in {"idle", "closed", "rejected"}
  /\ saved = "Testing" /\ s = "Accepted" => task.at # "woken"
  /\ IF saved = "Testing" /\ s = "Accepted" /\ busy = Nothing
       THEN /\ busy' = Erase /\ callback' = "header" /\ headerDone' = FALSE /\ ota' = "commit"
            /\ UNCHANGED <<saved, selfTest>>
       ELSE /\ saved' = s /\ selfTest' = (selfTest /\ s = "Testing")
            /\ UNCHANGED <<ota, busy, callback, headerDone>>
  /\ UNCHANGED <<hasTail, accepted, fragments, queue, task, sem, flashed, total,
                 refused, halted, jobs, faultVars, resets>>

CommitErased ==
  /\ ota = "commit"
  /\ headerDone
  /\ ota' = "idle" /\ saved' = "Accepted" /\ selfTest' = FALSE
  /\ UNCHANGED <<hasTail, accepted, fragments, queue, task, sem, busy, callback, headerDone,
                 flashed, total, refused, halted, jobs, faultVars, resets>>

\* A software reset: everything in RAM is lost, eSavedAgentState included.
Reset ==
  /\ resets < MaxResets
  /\ resets' = resets + 1
  /\ ota' = "idle" /\ accepted' = {} /\ fragments' = {} /\ queue' = <<>> /\ task' = NoTask
  /\ sem' = "none" /\ busy' = Nothing /\ callback' = "header" /\ headerDone' = FALSE
  /\ total' = 0 /\ saved' = "Unknown"
  /\ UNCHANGED <<hasTail, flashed, refused, halted, jobs, faultVars>>

\* otaPal_ActivateNewImage: reset for self testing.
ActivateNewImage == ota = "closed" /\ saved = "Testing" /\ Reset /\ selfTest' = TRUE

\* otaPal_ResetDevice: a reset in either branch, no bank is swapped.
ResetDevice == ota \in {"idle", "closed", "rejected"} /\ Reset /\ selfTest' = FALSE

\* otaPal_GetPlatformImageState
PlatformImageState ==
  CASE saved = "Testing" -> "PendingCommit"
    [] saved \in {"Accepted", "Unknown"} -> "Valid"
    [] OTHER -> "Invalid"

-----------------------------------------------------------------------------

Init ==
  /\ ota = "idle" /\ hasTail = FALSE /\ accepted = {} /\ fragments = {} /\ queue = <<>>
  /\ task = NoTask /\ sem = "none" /\ busy = Nothing /\ callback = "header" /\ headerDone = FALSE
  /\ flashed = {} /\ bad = {} /\ total = 0 /\ saved = "Unknown" /\ selfTest = FALSE
  /\ refused = FALSE /\ halted = FALSE /\ jobs = 0 /\ faults = 0 /\ resets = 0

CloseStep ==
  \/ CloseFile \/ WaitFlashed \/ TailWrite \/ TailFlashed \/ Verify
  \/ HeaderWrite \/ HeaderFails \/ CloseDone

AgentStep ==
  /\ FlashTaskBlocked
  /\ \/ CreateFileForRx \/ CreateFileErased
     \/ (\E b \in Blocks : WriteBlock(b))
     \/ WriteLastBlock \/ AssemblePage \/ AssembleDone \/ Abort
     \/ CloseStep
     \/ (\E s \in ImageStates \ {"Unknown"} : SetPlatformImageState(s))
     \/ CommitErased \/ ActivateNewImage \/ ResetDevice

FlashInterrupt == \E ok \in BOOLEAN : FlashingCallback(ok) \/ HeaderCallback(ok)

Next == ~halted /\ (AgentStep \/ FlashTaskStep \/ FlashInterrupt)

Spec == Init /\ [][Next]_vars

\* The flash ends what it has begun; the tasks run when they can, the agent
\* goes on with a close that it has begun.
FairSpec ==
  /\ Spec
  /\ WF_vars(~halted /\ FlashInterrupt)
  /\ WF_vars(~halted /\ FlashTaskStep)
  /\ WF_vars(~halted /\ FlashTaskBlocked /\ CloseStep)

-----------------------------------------------------------------------------
(* Properties.                                                             *)

\* The pages that otaPal_WriteBlock has queued, those of the last block one by
\* one, and where they are.
Receiving == {"open", "assemble", "check", "tail"}
LastBegun == ota = "assemble" \/ LastBlock \in accepted
Taken == (accepted \cap Blocks) \cup (IF LastBegun THEN LastPages \ fragments ELSE {})
InQueue(p) == \E i \in DOMAIN queue : queue[i] = p
InHand == IF task.page = Nothing THEN 0 ELSE 1
Waiting == Len(queue) + InHand
TailCounted == IF ota = "verify" /\ hasTail THEN 1 ELSE 0

NoneLost == \A p \in Taken : p \in flashed \cup bad \cup {task.page, busy} \/ InQueue(p)
LengthExact == total + Waiting = Cardinality(Taken) + TailCounted
NoneTwice ==
  /\ \A i, j \in DOMAIN queue : queue[i] = queue[j] => i = j
  /\ \A p \in Pages : InQueue(p) => p \notin flashed \cup {task.page, busy}
  /\ task.page # Nothing => task.page \notin flashed \cup {busy}
  /\ busy \notin flashed

\* otaPal_WriteBlock, ota_flashing_task: from the first block to the check of
\* the signature, whoever takes the semaphore first, no page that was accepted
\* is lost and none is programmed twice (it is in the queue, with the task, in
\* the flash, or the flash has failed on it), and the length that will be
\* hashed counts those the flash was given.
PagesConserved ==
  ota \in Receiving \cup {"tailWait", "verify"} => NoneLost /\ LengthExact /\ NoneTwice

\* xSemaphoreFlashig: no flash operation is requested while another goes on;
\* R_FLASH_Write would refuse it and the packet would be lost.
NeverRefused == ~refused

\* otaPal_CloseFile returns: neither the semaphore nor the wait for the flash
\* is for ever, also when flash operations fail.
CloseReturns == (ota \in {"check", "tail"}) ~> (ota \in {"closed", "rejected", "idle"})

\* The comment in otaPal_ActivateNewImage: the reset is for self testing, so
\* that after it the platform is in the state of an image to be tested.
SelfTestAfterReset == selfTest => PlatformImageState = "PendingCommit"

\* otaPal_CheckFileSignature takes the semaphore before it starts: when the
\* signature is checked every page that was queued has been programmed, those
\* that the flash failed on excepted, and the length is that of the image.
WholeImageChecked ==
  ota = "verify" =>
    /\ Image \ ({TailPage} \cup bad) \subseteq flashed
    /\ total = Cardinality(Image)
    /\ queue = <<>> /\ task.page = Nothing

\* The message "User firmware image header updated." of otaPal_CloseFile: the
\* header is in flash when the file is closed.
HeaderUpdated == ota = "closed" => Header \notin bad

\* The comment in otaPal_CheckFileSignature: the bytes of the fragment replace
\* those of the page from its offset on, so that the tail is in flash.
TailReplaced == ota = "verify" => TailPage \in flashed \/ ~hasTail

=============================================================================
