---------------------------- MODULE FlashDriver -----------------------------
(***************************************************************************)
(* r_flash_rx: the driver of the flash that the OTA platform layer erases  *)
(* and programs with, in its background mode.  A call of R_FLASH_Erase or  *)
(* R_FLASH_Write takes the lock, starts the first unit and returns; the    *)
(* ready interrupt starts the following units, releases the lock and calls *)
(* the callback; the error interrupt stops everything and does the same.   *)
(*                                                                         *)
(* The flash sequencer (FCU) is external.  An interrupt is taken at once   *)
(* when it is enabled, so that a caller runs only when none is, and its    *)
(* routine runs to its end.  The error interrupt has the lower vector and  *)
(* so comes before a ready interrupt of the same priority.                 *)
(*                                                                         *)
(* An address is a multiple of the small block size, modulo Modulus; a     *)
(* write programs one such unit at a time, an erase one block.  There are  *)
(* two banks at the top of the address space, each with NumSmall small     *)
(* blocks above NumMedium blocks of MediumSize units.                      *)
(***************************************************************************)
EXTENDS Integers, FiniteSets

CONSTANTS Callers,     \* the tasks that call the driver
          Overlapping, \* whether a task may call while another is in a call
          NumSmall, NumMedium, MediumSize,
          Modulus,     \* 2^32, in units
          MaxUnits     \* bound: blocks or units of one operation

\* The blocks are aligned, and the address space below the banks is larger than
\* any number of blocks that an erase may ask for.
ASSUME GeometryAssumption ==
  /\ Overlapping \in BOOLEAN
  /\ {NumSmall, NumMedium, MediumSize, MaxUnits} \subseteq Nat \ {0}
  /\ Modulus \in Nat
  /\ NumSmall % MediumSize = 0 /\ Modulus % MediumSize = 0
  /\ Modulus > 2 * (NumSmall + NumMedium * MediumSize) + (NumSmall + NumMedium) * MediumSize

BankSize == NumSmall + NumMedium * MediumSize
HiBankLoAddr == Modulus - BankSize
LoBankLoAddr == HiBankLoAddr - BankSize
CodeFlash == LoBankLoAddr .. Modulus - 1
NumBlocksCF == NumSmall + NumMedium
Addresses == LoBankLoAddr - 1 .. Modulus - 1  \* that calls are made with

VARIABLES
  opened,   \* g_driver_opened
  lock,     \* g_flash_lock
  state,    \* g_flash_state
  handler,  \* flash_ready_isr_handler and flash_error_isr_handler are set
  irq,      \* FAEINT and FRDYIE: the FCU requests interrupts
  readyOn,  \* the ready interrupt is enabled in the interrupt controller
  cur,      \* g_current_parameters: current_operation,
  addr,     \*   dest_addr,
  count,    \*   current_count of an erase,
  totalCount, \* total_count
  fcu,      \* the sequencer, with the address it was given
  pending,  \* interrupt requests
  pc,       \* where each caller is
  job, worked, outcome  \* history, see FlashService

driverVars == <<opened, lock, state, handler, irq, readyOn, cur, addr, count, totalCount, fcu,
                pending, pc, job, worked, outcome>>
history == <<job, worked, outcome>>
params == <<cur, addr, count, totalCount>>

Service == INSTANCE FlashService WITH
  Kinds <- {"erase", "write"}, Places <- CodeFlash, open <- opened, armed <- irq

Idle == [at |-> "read", addr |-> 0]
Ready == [at |-> "ready", addr |-> 0]

DriverTypeOK ==
  /\ {opened, lock, handler, irq, readyOn} \subseteq BOOLEAN
  /\ state \in {"UNINITIALIZED", "INITIALIZATION", "READY", "ERASING", "WRITING"}
  /\ cur \in {"none", "init", "stop", "erase", "write"}
  /\ addr \in LoBankLoAddr .. Modulus \cup {0}
  /\ count \in 0 .. MaxUnits /\ totalCount \in 0 .. MaxUnits
  /\ fcu \in [at : {"read", "ready", "feeding", "busy", "locked"}, addr : CodeFlash \cup {0}]
  /\ pending \subseteq {"ready", "error"}
  /\ pc \in [Callers -> {"rest", "close", "open", "opened", "arm", "erase", "write",
                         "erase1", "write1", "feed", "final", "abort", "release"}]
  /\ job \in Service!Jobs \cup {Service!NoJob} /\ worked \subseteq CodeFlash
  /\ outcome \in {"none", "complete", "error"}

-----------------------------------------------------------------------------
(* Areas.                                                                  *)

Word(n) == n % Modulus

\* get_cf_addr_info
LowAddr(a) == IF a >= HiBankLoAddr THEN HiBankLoAddr ELSE LoBankLoAddr
SizeBoundary(a) == LowAddr(a) + NumMedium * MediumSize
OnBlockBoundary(a) == a >= SizeBoundary(a) \/ a % MediumSize = 0

\* Mutant: one block too many is let through.
BlockTotalOneMore(a, n) ==
  /\ OnBlockBoundary(a)
  /\ LET small == IF a >= SizeBoundary(a) THEN a - SizeBoundary(a) + 1 ELSE 0
         medium == IF small < n THEN n - small ELSE 0
         first == IF a >= SizeBoundary(a) THEN SizeBoundary(a) - MediumSize ELSE a
     IN  Word(first - Word(medium - 2) * MediumSize) >= LowAddr(a)

\* check_cf_block_total: the small blocks from a down come off first, and what
\* is left must fit below the boundary.  With none left the count wraps round.
BlockTotal(a, n) ==
  /\ OnBlockBoundary(a)
  /\ LET small == IF a >= SizeBoundary(a) THEN a - SizeBoundary(a) + 1 ELSE 0
         medium == IF small < n THEN n - small ELSE 0
         first == IF a >= SizeBoundary(a) THEN SizeBoundary(a) - MediumSize ELSE a
     IN  Word(first - Word(medium - 1) * MediumSize) >= LowAddr(a)

\* get_erase_flash_type
EraseAllowed(a, n) == a \in CodeFlash /\ n \in 1 .. NumBlocksCF /\ BlockTotal(a, n)

\* is_cf_overflow: more units than a bank has, or the last one is in the other
\* bank or outside of both.
CfOverflow(a, n) ==
  \/ n > BankSize
  \/ LET last == Word(a + n - 1)
     IN  IF a >= HiBankLoAddr THEN last < HiBankLoAddr
                              ELSE last \notin LoBankLoAddr .. HiBankLoAddr - 1

\* get_bc_pgm_flash_type
WriteAllowed(a, n) == a \in CodeFlash /\ n # 0 /\ ~CfOverflow(a, n)

\* What the blocks are, from the layout alone: the ones that an erase of n
\* blocks from a on, with ascending numbers, is to erase.
BlockStarts == {a \in CodeFlash : OnBlockBoundary(a)}
EraseArea(a, n) ==
  {b \in BlockStarts : /\ LowAddr(b) = LowAddr(a) /\ b <= a
                       /\ Cardinality({c \in BlockStarts : b < c /\ c <= a}) < n}

\* The address of the next block in Excep_FCU_FRDYI.
NextBlock(a) == IF a <= SizeBoundary(a) THEN a - MediumSize ELSE a - 1

-----------------------------------------------------------------------------
(* Locks and interrupts.                                                   *)

\* flash_lock_state and flash_release_state
LockState(s) == ~lock /\ lock' = TRUE /\ state' = s
ReleaseState == lock' = FALSE /\ state' = "READY"

\* flash_interrupt_config
InterruptsOff == irq' = FALSE /\ pending' = {}
InterruptsOn == irq' = TRUE /\ pending' = {} /\ readyOn' = TRUE

\* An interrupt that the core would take now.
Deliverable == "error" \in pending \/ ("ready" \in pending /\ readyOn)

Goto(c, s) == pc' = [pc EXCEPT ![c] = s]

\* A task begins a call.
CallFrom(c) == /\ ~Deliverable
               /\ pc[c] = "rest"
               /\ Overlapping \/ \A d \in Callers : pc[d] = "rest"

At(c, s) == ~Deliverable /\ pc[c] = s

-----------------------------------------------------------------------------
(* R_FLASH_Close, R_FLASH_Open, R_FLASH_Control(SET_BGO_CALLBACK).  A call  *)
(* that is refused changes nothing.                                        *)

CloseCall(c) ==
  /\ CallFrom(c)
  /\ LockState("UNINITIALIZED")
  /\ Goto(c, "close")
  /\ UNCHANGED <<opened, handler, irq, readyOn, params, fcu, pending, history>>

\* The lock is released, the state is not READY.
CloseEnd(c) ==
  /\ At(c, "close")
  /\ InterruptsOff
  /\ opened' = FALSE /\ lock' = FALSE
  /\ Goto(c, "rest")
  /\ UNCHANGED <<state, handler, readyOn, params, fcu, history>>

OpenCall(c) ==
  /\ CallFrom(c)
  /\ ~opened
  /\ LockState("INITIALIZATION")
  /\ cur' = "init"
  /\ Goto(c, "open")
  /\ UNCHANGED <<opened, handler, irq, readyOn, addr, count, totalCount, fcu, pending, history>>

OpenEnd(c) ==
  /\ At(c, "open")
  /\ InterruptsOff
  /\ opened' = TRUE
  /\ ReleaseState
  /\ Goto(c, "opened")
  /\ UNCHANGED <<handler, readyOn, params, fcu, history>>

\* R_FLASH_Open sets the state once more, without the lock.
OpenReady(c) ==
  /\ At(c, "opened")
  /\ state' = "READY"
  /\ Goto(c, "rest")
  /\ UNCHANGED <<opened, lock, handler, irq, readyOn, params, fcu, pending, history>>

\* The state is looked at without the lock.
SetCallbackCall(c) ==
  /\ CallFrom(c)
  /\ opened
  /\ state = "READY"
  /\ Goto(c, "arm")
  /\ UNCHANGED <<opened, lock, state, handler, irq, readyOn, params, fcu, pending, history>>

SetCallbackEnd(c) ==
  /\ At(c, "arm")
  /\ handler' = TRUE
  /\ InterruptsOn
  /\ Goto(c, "rest")
  /\ UNCHANGED <<opened, lock, state, params, fcu, history>>

-----------------------------------------------------------------------------
(* R_FLASH_Erase and R_FLASH_Write.                                        *)

EraseCall(c) ==
  /\ CallFrom(c)
  /\ opened
  /\ LockState("ERASING")
  /\ Goto(c, "erase")
  /\ UNCHANGED <<opened, handler, irq, readyOn, params, fcu, pending, history>>

WriteCall(c) ==
  /\ CallFrom(c)
  /\ opened
  /\ LockState("WRITING")
  /\ Goto(c, "write")
  /\ UNCHANGED <<opened, handler, irq, readyOn, params, fcu, pending, history>>

Allowed(kind, a, n) == IF kind = "erase" THEN EraseAllowed(a, n) ELSE WriteAllowed(a, n)
Area(kind, a, n) == IF kind = "erase" THEN EraseArea(a, n) ELSE a .. a + n - 1

\* Mutant: the driver stays locked when the parameters are bad.
BadParametersKeepLock(c, kind, a, n) ==
  /\ At(c, kind)
  /\ ~(Allowed(kind, a, n) /\ handler)
  /\ Goto(c, "rest")
  /\ UNCHANGED <<opened, lock, state, handler, irq, readyOn, params, fcu, pending, history>>

\* The area is not legal, or no callback was ever set.
BadParameters(c, kind, a, n) ==
  /\ At(c, kind)
  /\ ~(Allowed(kind, a, n) /\ handler)
  /\ ReleaseState
  /\ Goto(c, "rest")
  /\ UNCHANGED <<opened, handler, irq, readyOn, params, fcu, pending, history>>

\* set_erase_params or set_write_params, flash_pe_mode_enter.
GoodParameters(c, kind, a, n) ==
  /\ At(c, kind)
  /\ Allowed(kind, a, n) /\ handler
  /\ cur' = kind /\ addr' = a /\ totalCount' = n /\ count' = 0
  /\ fcu' = Ready
  /\ job' = [kind |-> kind, area |-> Area(kind, a, n)] /\ worked' = {} /\ outcome' = outcome
  /\ Goto(c, IF kind = "erase" THEN "erase1" ELSE "write1")
  /\ UNCHANGED <<opened, lock, state, handler, irq, readyOn, pending>>

\* flash_erase in background mode: the first block.
EraseFirst(c) ==
  /\ At(c, "erase1")
  /\ fcu' = [at |-> "busy", addr |-> addr]
  /\ Goto(c, "rest")
  /\ UNCHANGED <<opened, lock, state, handler, irq, readyOn, params, pending, history>>

\* flash_write: the first unit is fed with the ready interrupt disabled.
WriteFirst(c) ==
  /\ At(c, "write1")
  /\ readyOn' = FALSE
  /\ fcu' = [at |-> "feeding", addr |-> addr]
  /\ Goto(c, "feed")
  /\ UNCHANGED <<opened, lock, state, handler, irq, params, pending, history>>

\* The error interrupt may have come meanwhile.
FeedStopped(c) ==
  /\ At(c, "feed")
  /\ cur = "stop"
  /\ readyOn' = TRUE
  /\ Goto(c, "abort")
  /\ UNCHANGED <<opened, lock, state, handler, irq, params, fcu, pending, history>>

FeedFirst(c) ==
  /\ At(c, "feed")
  /\ cur # "stop"
  /\ addr' = addr + 1 /\ totalCount' = totalCount - 1
  /\ Goto(c, "final")
  /\ UNCHANGED <<opened, lock, state, handler, irq, readyOn, cur, count, fcu, pending, history>>

\* The end command, which a sequencer that was reset does not take.
FinalFirst(c) ==
  /\ At(c, "final")
  /\ fcu' = IF fcu.at = "feeding" THEN [fcu EXCEPT !.at = "busy"] ELSE fcu
  /\ readyOn' = TRUE
  /\ Goto(c, "rest")
  /\ UNCHANGED <<opened, lock, state, handler, irq, params, pending, history>>

\* flash_reset: the forced stop may raise the ready interrupt once more.
AbortReset(c) ==
  /\ At(c, "abort")
  /\ cur' = "stop" /\ fcu' = Idle
  /\ pending' \in {pending} \cup (IF irq THEN {pending \cup {"ready"}} ELSE {})
  /\ Goto(c, "release")
  /\ UNCHANGED <<opened, lock, state, handler, irq, readyOn, addr, count, totalCount, history>>

\* The state is released, after the error interrupt has released it.
AbortRelease(c) ==
  /\ At(c, "release")
  /\ ReleaseState
  /\ Goto(c, "rest")
  /\ UNCHANGED <<opened, handler, irq, readyOn, params, fcu, pending, history>>

-----------------------------------------------------------------------------
(* The sequencer (external).                                               *)

Raise(s) == pending' = IF irq THEN pending \cup s ELSE pending

UnitDone ==
  /\ fcu.at = "busy"
  /\ fcu' = Ready
  /\ worked' = worked \cup {fcu.addr}
  /\ Raise({"ready"})
  /\ UNCHANGED <<opened, lock, state, handler, irq, readyOn, params, pc, job, outcome>>

UnitFails ==
  /\ fcu.at \in {"busy", "feeding"}
  /\ fcu' = [at |-> "locked", addr |-> 0]
  /\ Raise({"ready", "error"})
  /\ UNCHANGED <<opened, lock, state, handler, irq, readyOn, params, pc, history>>

-----------------------------------------------------------------------------
(* The interrupt routines.                                                 *)

Report(result) == job' = Service!NoJob /\ worked' = {} /\ outcome' = result

ReadyTaken == "ready" \in pending /\ readyOn /\ "error" \notin pending

\* Mutant: one unit more than there are.
ReadyWriteNextOneMore ==
  /\ ReadyTaken
  /\ cur = "write" /\ totalCount >= 0
  /\ pending' = pending \ {"ready"}
  /\ fcu' = [at |-> "busy", addr |-> addr]
  /\ addr' = addr + 1 /\ totalCount' = totalCount - 1
  /\ UNCHANGED <<opened, lock, state, handler, irq, readyOn, cur, count, pc, history>>

\* Excep_FCU_FRDYI with units left: the next one.
ReadyWriteNext ==
  /\ ReadyTaken
  /\ cur = "write" /\ totalCount > 0
  /\ pending' = pending \ {"ready"}
  /\ fcu' = [at |-> "busy", addr |-> addr]
  /\ addr' = addr + 1 /\ totalCount' = totalCount - 1
  /\ UNCHANGED <<opened, lock, state, handler, irq, readyOn, cur, count, pc, history>>

ReadyEraseNext ==
  /\ ReadyTaken
  /\ cur = "erase" /\ count + 1 < totalCount
  /\ pending' = pending \ {"ready"}
  /\ count' = count + 1
  /\ addr' = NextBlock(addr)
  /\ fcu' = [at |-> "busy", addr |-> NextBlock(addr)]
  /\ UNCHANGED <<opened, lock, state, handler, irq, readyOn, cur, totalCount, pc, history>>

NothingLeft ==
  /\ cur = "write" => totalCount = 0
  /\ cur = "erase" => count + 1 >= totalCount

\* Mutant: a ready interrupt that the forced stop has raised counts.
ReadyEndAfterStop ==
  /\ ReadyTaken
  /\ NothingLeft
  /\ pending' = pending \ {"ready"}
  /\ count' = IF cur = "erase" THEN count + 1 ELSE count
  /\ fcu' = Idle
  /\ ReleaseState
  /\ Report("complete")
  /\ UNCHANGED <<opened, handler, irq, readyOn, cur, addr, totalCount, pc>>

\* Nothing left: leave the programming mode, unlock, call the callback.
ReadyEnd ==
  /\ ReadyTaken
  /\ NothingLeft
  /\ cur # "stop"
  /\ pending' = pending \ {"ready"}
  /\ count' = IF cur = "erase" THEN count + 1 ELSE count
  /\ fcu' = Idle
  /\ ReleaseState
  /\ Report("complete")
  /\ UNCHANGED <<opened, handler, irq, readyOn, cur, addr, totalCount, pc>>

\* A stop was forced.
ReadyIgnored ==
  /\ ReadyTaken
  /\ cur = "stop"
  /\ pending' = pending \ {"ready"}
  /\ UNCHANGED <<opened, lock, state, handler, irq, readyOn, params, fcu, pc, history>>

\* Excep_FCU_FIFERR
ErrorIsr ==
  /\ "error" \in pending
  /\ pending' = {}
  /\ cur' = "stop" /\ fcu' = Idle
  /\ ReleaseState
  /\ Report("error")
  /\ UNCHANGED <<opened, handler, irq, readyOn, addr, count, totalCount, pc>>

-----------------------------------------------------------------------------

DriverInit ==
  /\ opened = FALSE /\ lock = FALSE /\ state = "UNINITIALIZED"
  /\ handler = FALSE /\ irq = FALSE /\ readyOn = FALSE
  /\ cur = "none" /\ addr = 0 /\ count = 0 /\ totalCount = 0
  /\ fcu = Idle /\ pending = {}
  /\ pc = [c \in Callers |-> "rest"]
  /\ job = Service!NoJob /\ worked = {} /\ outcome = "none"

CallBegins(c) ==
  \/ CloseCall(c) \/ OpenCall(c) \/ SetCallbackCall(c) \/ EraseCall(c) \/ WriteCall(c)

CallGoesOn(c) ==
  \/ CloseEnd(c) \/ OpenEnd(c) \/ OpenReady(c) \/ SetCallbackEnd(c)
  \/ \E kind \in {"erase", "write"}, a \in Addresses, n \in 0 .. MaxUnits :
       BadParameters(c, kind, a, n) \/ GoodParameters(c, kind, a, n)
  \/ EraseFirst(c) \/ WriteFirst(c) \/ FeedStopped(c) \/ FeedFirst(c) \/ FinalFirst(c)
  \/ AbortReset(c) \/ AbortRelease(c)

Sequencer == UnitDone \/ UnitFails
Interrupt == ReadyWriteNext \/ ReadyEraseNext \/ ReadyEnd \/ ReadyIgnored \/ ErrorIsr

DriverNext == (\E c \in Callers : CallBegins(c) \/ CallGoesOn(c)) \/ Sequencer \/ Interrupt

DriverSpec == DriverInit /\ [][DriverNext]_driverVars

\* A call returns, the sequencer ends what it has begun, the core takes an
\* interrupt that is enabled.
DriverFairSpec ==
  /\ DriverSpec
  /\ \A c \in Callers : WF_driverVars(CallGoesOn(c))
  /\ WF_driverVars(Sequencer) /\ WF_driverVars(Interrupt)

-----------------------------------------------------------------------------
(* Properties.                                                             *)

\* The driver implements the service: one operation at a time, on its area and
\* nothing else, with one report, which comes when a callback is registered.
ImplementsService == Service!ServiceSpec

\* check_cf_block_total lets an erase through exactly when the blocks from its
\* first one down are all there, across the two sizes and the wrap of the count:
\* so it is for every area that an erase which has the lock may be given.
EraseCheckExact ==
  (\E c \in Callers : pc[c] = "erase") =>
    \A a \in Addresses, n \in 0 .. NumBlocksCF + 1 :
      EraseAllowed(a, n) <=>
        a \in BlockStarts /\ n > 0 /\ Cardinality(EraseArea(a, n)) = n

\* g_flash_lock and g_flash_state: outside the calls the driver is locked
\* exactly when an operation goes on, after an error or a refusal as well; it
\* is READY when it is open and free.
LockedWhileWorking ==
  (\A c \in Callers : pc[c] = "rest") =>
    /\ lock <=> job # Service!NoJob
    /\ opened => (state = "READY" <=> ~lock)

=============================================================================
