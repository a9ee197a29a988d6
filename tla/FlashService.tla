---------------------------- MODULE FlashService ----------------------------
(***************************************************************************)
(* What the flash driver promises to the OTA platform layer: one operation *)
(* at a time; an operation works on its area and on nothing else; it is    *)
(* reported once, as a success only when it has worked on the whole area.  *)
(* Nothing is said of locks, interrupts or registers.                      *)
(***************************************************************************)
EXTENDS FiniteSets

CONSTANTS Kinds,  \* the operations, an erase and a write
          Places  \* what an operation works on: blocks and pages, by address

NoJob == [kind |-> "none", area |-> {}]
Jobs == [kind : Kinds, area : (SUBSET Places) \ {{}}]

VARIABLES
  open,    \* the driver is open
  armed,   \* a callback is registered and its interrupts are on
  job,     \* the operation that was accepted and is not reported yet
  worked,  \* the part of its area that it has worked on
  outcome  \* of the last operation that was reported

serviceVars == <<open, armed, job, worked, outcome>>

ServiceInit ==
  open = FALSE /\ armed = FALSE /\ job = NoJob /\ worked = {} /\ outcome = "none"

Close ==
  /\ job = NoJob
  /\ open' = FALSE /\ armed' = FALSE
  /\ UNCHANGED <<job, worked, outcome>>

Open ==
  /\ ~open
  /\ job = NoJob
  /\ open' = TRUE /\ armed' = FALSE
  /\ UNCHANGED <<job, worked, outcome>>

SetCallback ==
  /\ open
  /\ job = NoJob
  /\ armed' = TRUE
  /\ UNCHANGED <<open, job, worked, outcome>>

Start ==
  /\ open
  /\ job = NoJob
  /\ job' \in Jobs /\ worked' = {}
  /\ UNCHANGED <<open, armed, outcome>>

Work(p) ==
  /\ p \in job.area \ worked
  /\ worked' = worked \cup {p}
  /\ UNCHANGED <<open, armed, job, outcome>>

\* The callback.
Report ==
  /\ job # NoJob
  /\ armed
  /\ outcome' \in IF worked = job.area THEN {"complete", "error"} ELSE {"error"}
  /\ job' = NoJob /\ worked' = {}
  /\ UNCHANGED <<open, armed>>

ServiceNext ==
  \/ Open \/ Close \/ SetCallback \/ Start
  \/ \E p \in Places : Work(p)
  \/ Report

\* An operation that was started with its callback registered is reported.
ServiceSpec ==
  /\ ServiceInit /\ [][ServiceNext]_serviceVars
  /\ WF_serviceVars(Report)

=============================================================================
