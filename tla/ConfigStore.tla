---------------------------- MODULE ConfigStore ----------------------------
(***************************************************************************)
(* What the key value store promises to "conf set" and "conf commit"       *)
(* (cli_conf.c): a change is staged in volatile memory until it is         *)
(* committed, key by key, to nonvolatile memory; a restart brings back     *)
(* what was committed, never anything else.  A value that was committed is *)
(* replaced by the staged one, or lost by a commit that has failed and     *)
(* will say so.                                                            *)
(***************************************************************************)
CONSTANTS Keys, Value,
          Unset,    \* no value
          MayFail   \* whether a write may fail

VARIABLES staged, saved,
          ok        \* no write of the commit has failed

CSVars == <<staged, saved, ok>>

CSInit == saved \in [Keys -> Value \cup {Unset}] /\ staged = saved /\ ok = TRUE

CSSet(k, v) == staged' = [staged EXCEPT ![k] = v] /\ UNCHANGED <<saved, ok>>

CSBegin == ok' = TRUE /\ UNCHANGED <<staged, saved>>

CSSave(k) == saved' = [saved EXCEPT ![k] = staged[k]] /\ UNCHANGED <<staged, ok>>

CSFail == MayFail /\ ok' = FALSE /\ UNCHANGED <<staged, saved>>

CSLose(k) == ~ok /\ saved' = [saved EXCEPT ![k] = Unset] /\ UNCHANGED <<staged, ok>>

CSRestart == staged' = saved /\ ok' = TRUE /\ UNCHANGED saved

CSNext ==
  \/ \E k \in Keys : CSSave(k) \/ CSLose(k) \/ \E v \in Value : CSSet(k, v)
  \/ CSBegin \/ CSFail \/ CSRestart

CSSpec == CSInit /\ [][CSNext]_CSVars

=============================================================================
