--------------------------- MODULE KVStoreProofs ---------------------------
(***************************************************************************)
(* Proofs about KVStore for every set of keys, readers and values and      *)
(* every size: no buffer is overrun, a commit that says it succeeded has   *)
(* saved everything but what a failed sync has dropped unnoticed, and the  *)
(* cache over littlefs implements ConfigStore, through power failures      *)
(* between any two steps.                                                  *)
(***************************************************************************)
EXTENDS KVStore, TLAPS

-----------------------------------------------------------------------------
(* What is loaded at boot.                                                 *)

LEMMA SomeFacts == SomeKey \in Keys /\ SomeValue \in Value
<1>1. \E k \in Keys : TRUE
  BY ValuesAssumption
<1>2. \E v \in Value : TRUE
  <2>1. PICK i \in Ids : TRUE
    BY ValuesAssumption
  <2>2. [len |-> 1, id |-> i] \in Value
    BY <2>1, SizesAssumption DEF Value
  <2> QED
    BY <2>2
<1>3. SomeKey \in Keys
  BY <1>1 DEF SomeKey
<1> QED
  BY <1>2, <1>3 DEF SomeValue

(* A multiple of the modulus makes no difference.                          *)
LEMMA ModuloOnce == ASSUME NEW S \in Nat, NEW n \in Nat, n < S PROVE (n + S) % S = n
OBVIOUS

(* Unsigned subtraction: a size that is not less than the header gives the *)
(* length back, and that of an empty file wraps to one that no value has.  *)
LEMMA LengthFacts ==
  /\ \A f \in Value : GetValueLengthFromImpl(f) = f.len
  /\ GetValueLengthFromImpl(NoFile) = 0
  /\ GetValueLengthFromImpl(Empty) > MaxLen
<1>1. ASSUME NEW n \in Nat, n < SizeLimit PROVE (n + SizeLimit) % SizeLimit = n
  BY <1>1, ModuloOnce, SizesAssumption
<1>2. ASSUME NEW f \in Value PROVE GetValueLengthFromImpl(f) = f.len
  <2>1. f # NoFile /\ f # Empty /\ f.len \in Nat /\ f.len < SizeLimit
    BY ValuesAssumption, SizesAssumption DEF Value
  <2>2. FileSize(f) - HeaderSize + SizeLimit = f.len + SizeLimit
    BY <2>1, SizesAssumption DEF FileSize
  <2> QED
    BY <1>1, <2>1, <2>2 DEF GetValueLengthFromImpl
<1>3. GetValueLengthFromImpl(Empty) = SizeLimit - HeaderSize
  <2>1. SizeLimit - HeaderSize \in Nat /\ SizeLimit - HeaderSize < SizeLimit
    BY SizesAssumption
  <2>2. (SizeLimit - HeaderSize) % SizeLimit = SizeLimit - HeaderSize
    BY <2>1, SizesAssumption
  <2>3. FileSize(Empty) - HeaderSize + SizeLimit = SizeLimit - HeaderSize
    BY SizesAssumption DEF FileSize
  <2> QED
    BY <2>2, <2>3, ValuesAssumption DEF GetValueLengthFromImpl
<1> QED
  BY <1>2, <1>3, SizesAssumption DEF GetValueLengthFromImpl

(* vprvCacheInit: a value is loaded as it was stored, and an entry without *)
(* a value is left empty.                                                  *)
LEMMA LoadedFacts ==
  ASSUME NEW f \in Value \cup {NoFile, Empty}
  PROVE  /\ Loaded(f) \in Entry
         /\ Loaded(f).set => f \in Value /\ Loaded(f).len > 0 /\ Loaded(f).id \in Ids
         /\ ~Loaded(f).set => f \notin Value /\ Loaded(f).len = 0
         /\ Loaded(f).set => [len |-> Loaded(f).len, id |-> Loaded(f).id] = f
         /\ Loaded(f).len > Inline => Loaded(f).block >= Loaded(f).len
<1>1. CASE f \in Value
  <2>1. /\ GetValueLengthFromImpl(f) = f.len /\ f.len \in 1 .. MaxLen /\ f.id \in Ids
        /\ f = [len |-> f.len, id |-> f.id]
    BY <1>1, LengthFacts DEF Value
  <2>2. Loaded(f) = Copied(Allocated(f.len), f)
    BY <2>1 DEF Loaded
  <2>3. Loaded(f) = [set |-> TRUE, len |-> f.len, id |-> f.id,
                     block |-> IF f.len > Inline THEN f.len ELSE 0]
    BY <2>1, <2>2 DEF Copied, Allocated
  <2>4. Loaded(f) \in Entry
    BY <2>1, <2>3, SizesAssumption DEF Entry
  <2> QED
    BY <1>1, <2>1, <2>3, <2>4, SizesAssumption
<1>2. CASE f \notin Value
  <2>1. GetValueLengthFromImpl(f) \notin 1 .. MaxLen
    BY <1>2, LengthFacts, SizesAssumption
  <2>2. Loaded(f) = NoEntry
    BY <2>1 DEF Loaded
  <2> QED
    BY <1>2, <2>2, SizesAssumption DEF NoEntry, Entry
<1> QED
  BY <1>1, <1>2

-----------------------------------------------------------------------------
(* The inductive invariant.  CleanIsSaved and OnlySyncIsSilent are not     *)
(* inductive: a commit works through the keys that were marked when it     *)
(* began, so the invariant says of every key that it is still to be        *)
(* written, being written, saved, or lost by a sync that failed.           *)

Copying(k) == cli.at = "copy" /\ cli.key = k
Writing(k) == cli.at \in {"write", "sync", "remove"} /\ cli.key = k

(* An entry of the cache is a whole value but while it is copied, it is    *)
(* marked only when it has one, and a long one has a buffer it fits into.  *)
EntriesSound ==
  \A k \in Keys :
    /\ cache[k].set => cache[k].len > 0 /\ (cache[k].id \in Ids \/ Copying(k))
    /\ ~cache[k].set => cache[k].len = 0
    /\ pending[k] => cache[k].set
    /\ cache[k].len > Inline => cache[k].block >= cache[k].len

(* xprvWriteCacheEntry has made room for the value that it will copy.      *)
CopyPrepared ==
  cli.at = "copy" => pending[cli.key] /\ cache[cli.key].len = cli.value.len

(* KVStore_xCommitChanges writes marked keys only, and it removes a file   *)
(* only when a write of it has failed.                                     *)
CommitMarked ==
  /\ cli.at \in {"next", "write", "sync", "remove"} => \A k \in cli.todo : pending[k]
  /\ \A k \in Keys : Writing(k) => pending[k]
  /\ cli.at = "remove" => ~cli.success
  /\ cli.at = "done" => cli.todo = {}

(* While no write has failed, a key that the commit is done with is saved, *)
(* unless its sync has failed.                                             *)
CommitProgress ==
  cli.at \in {"next", "write", "sync", "remove", "done"} /\ cli.success =>
    \A k \in Keys : k \in cli.todo \/ Writing(k) \/ Staged(k) = Saved(k) \/ k \in cli.unsynced

(* KVStore_getStringHeap never copies more than it has room for.           *)
ReadsFit == \A t \in Readers : reader[t].at = "copy" => reader[t].len <= reader[t].size

IInv ==
  /\ TypeOK /\ EntriesSound /\ CopyPrepared /\ CleanIsSaved
  /\ CommitMarked /\ CommitProgress /\ ReadsFit

(* A boot leaves the cache as the files are.                               *)
LEMMA BootFacts ==
  ASSUME file \in [Keys -> Value \cup {NoFile, Empty}],
         NEW c, c = [k \in Keys |-> Loaded(file[k])]
  PROVE  /\ c \in [Keys -> Entry]
         /\ \A k \in Keys :
              /\ c[k].set => c[k].len > 0 /\ c[k].id \in Ids
              /\ ~c[k].set => c[k].len = 0
              /\ c[k].len > Inline => c[k].block >= c[k].len
              /\ c[k].set => Saved(k) = [len |-> c[k].len, id |-> c[k].id]
              /\ ~c[k].set => Saved(k) = Unset
<1>1. c \in [Keys -> Entry]
  BY LoadedFacts
<1>2. \A k \in Keys : c[k] = Loaded(file[k]) /\ file[k] \in Value \cup {NoFile, Empty}
  OBVIOUS
<1> QED
  BY <1>1, <1>2, LoadedFacts DEF Saved

LEMMA IdleFacts ==
  /\ IdleCli \in [at : {"idle", "copy", "next", "write", "sync", "remove", "done"},
                  key : Keys, value : Value, todo : SUBSET Keys, success : BOOLEAN,
                  unsynced : SUBSET Keys]
  /\ IdleReader \in [at : {"idle", "read", "length", "copy"}, key : Keys,
                     size : 0 .. MaxLen, room : 0 .. Room, len : 0 .. MaxLen]
BY SomeFacts, SizesAssumption DEF IdleCli, IdleReader, Room

(* The end of a call of the CLI task.                                      *)
LEMMA ReturnedFacts ==
  ASSUME TypeOK
  PROVE  /\ Returned \in [at : {"idle"}, key : Keys, value : Value, todo : SUBSET Keys,
                          success : BOOLEAN, unsynced : SUBSET Keys]
         /\ Returned.success = cli.success /\ Returned.at = "idle" /\ Returned.todo = {}
BY SomeFacts DEF TypeOK, Returned, IdleCli

LEMMA InitIInv == Init => IInv
<1> SUFFICES ASSUME Init PROVE IInv
  OBVIOUS
<1>1. file \in [Keys -> Value \cup {NoFile, Empty}]
  BY DEF Init
<1>2. /\ cache \in [Keys -> Entry]
      /\ \A k \in Keys :
           /\ cache[k].set => cache[k].len > 0 /\ cache[k].id \in Ids
           /\ ~cache[k].set => cache[k].len = 0
           /\ cache[k].len > Inline => cache[k].block >= cache[k].len
           /\ cache[k].set => Saved(k) = [len |-> cache[k].len, id |-> cache[k].id]
           /\ ~cache[k].set => Saved(k) = Unset
  BY <1>1, BootFacts DEF Init
<1>3. cli.at = "idle"
  BY DEF Init, IdleCli
<1>4. TypeOK
  <2>1. crashes \in 0 .. MaxCrashes
    BY SizesAssumption DEF Init
  <2> QED
    BY <1>1, <1>2, <2>1, IdleFacts DEF Init, TypeOK
<1>5. EntriesSound
  BY <1>2, <1>3 DEF Init, EntriesSound
<1>6. CleanIsSaved
  BY <1>2, <1>3 DEF CleanIsSaved, Staged, Cached
<1>7. ReadsFit
  BY SizesAssumption DEF Init, ReadsFit, IdleReader
<1>8. CopyPrepared /\ CommitMarked /\ CommitProgress
  BY <1>3 DEF CopyPrepared, CommitMarked, CommitProgress, Writing
<1> QED
  BY <1>4, <1>5, <1>6, <1>7, <1>8 DEF IInv

-----------------------------------------------------------------------------
(* xprvWriteCacheEntry.  Each lemma about a step also says what the step   *)
(* does to the values that are staged and saved, for the refinement.       *)

(* The entry after its buffer was made or reused is as long as the value,  *)
(* and a long one still has a block that it fits into.                     *)
LEMMA RoomFacts ==
  ASSUME NEW e \in Entry, NEW v \in Value,
         e.len > Inline => e.block >= e.len,
         NEW n, n = IF ~e.set THEN Allocated(v.len)
                    ELSE IF e.len # v.len THEN Reallocated(e, v.len) ELSE e
  PROVE  /\ n \in Entry /\ n.set /\ n.len = v.len
         /\ n.len > Inline => n.block >= n.len
<1>1. /\ e.len \in 0 .. MaxLen /\ e.block \in 0 .. MaxLen /\ e.set \in BOOLEAN
      /\ v.len \in 1 .. MaxLen /\ Inline \in Nat /\ MaxLen \in Nat
  BY SizesAssumption DEF Entry, Value
<1>2. /\ Allocated(v.len) \in Entry /\ Allocated(v.len).set /\ Allocated(v.len).len = v.len
      /\ v.len > Inline => Allocated(v.len).block >= v.len
  BY <1>1 DEF Allocated, Entry
<1>3. CASE ~e.set \/ v.len > e.len
  <2>1. n = Allocated(v.len)
    BY <1>1, <1>3 DEF Reallocated
  <2> QED
    BY <1>2, <2>1
<1>4. CASE e.set /\ v.len < e.len
  <2>1. n = [e EXCEPT !.len = v.len]
    BY <1>1, <1>4 DEF Reallocated
  <2>2. n \in Entry /\ n.set /\ n.len = v.len /\ n.block = e.block
    BY <1>1, <1>4, <2>1 DEF Entry
  <2> QED
    BY <1>1, <1>4, <2>2
<1>5. CASE e.set /\ v.len = e.len
  BY <1>1, <1>5
<1> QED
  BY <1>1, <1>3, <1>4, <1>5

(* The copy leaves the length and, of a long value, the block.             *)
LEMMA CopiedFacts ==
  ASSUME NEW e \in Entry, NEW v \in Value, e.set
  PROVE  /\ Copied(e, v) \in Entry /\ Copied(e, v).set
         /\ Copied(e, v).len = e.len /\ Copied(e, v).id = v.id
         /\ e.len > Inline => Copied(e, v).block = e.block
<1> DEFINE b == IF e.len > Inline THEN e.block ELSE 0
<1>1. b \in 0 .. MaxLen /\ v.id \in Ids
  BY SizesAssumption DEF Entry, Value
<1>2. Copied(e, v) = [e EXCEPT !.id = v.id, !.block = b]
  BY DEF Copied
<1> HIDE DEF b
<1>3. /\ Copied(e, v) \in Entry /\ Copied(e, v).set
      /\ Copied(e, v).len = e.len /\ Copied(e, v).id = v.id /\ Copied(e, v).block = b
  BY <1>1, <1>2 DEF Entry
<1> QED
  BY <1>3 DEF b

LEMMA SetEntryIInv ==
  ASSUME IInv, NEW k \in Keys, NEW v \in Value, SetEntry(k, v), halted' = halted
  PROVE  /\ IInv'
         /\ \A j \in Keys : Staged(j)' = (IF j = k THEN v ELSE Staged(j)) /\ Saved(j)' = Saved(j)
         /\ cli.success' = cli.success
<1> DEFINE e == cache[k]
           n == IF ~e.set THEN Allocated(v.len)
                ELSE IF e.len # v.len THEN Reallocated(e, v.len) ELSE e
<1>1. /\ cli.at = "idle" /\ cache' = [cache EXCEPT ![k] = n]
      /\ pending' = [pending EXCEPT ![k] = @ \/ ~e.set \/ e.len # v.len \/ e.id # v.id]
      /\ cli' = IF pending'[k] THEN [cli EXCEPT !.at = "copy", !.key = k, !.value = v] ELSE cli
      /\ UNCHANGED <<leaked, file, reader, crashes, halted>>
  BY DEF SetEntry
<1>2. /\ e \in Entry /\ e.len > Inline => e.block >= e.len
      /\ cache \in [Keys -> Entry] /\ pending \in [Keys -> BOOLEAN]
  BY DEF IInv, TypeOK, EntriesSound
<1>3. n \in Entry /\ n.set /\ n.len = v.len /\ (n.len > Inline => n.block >= n.len)
  BY <1>2, RoomFacts
<1>4. cache' \in [Keys -> Entry] /\ cache'[k] = n /\ \A j \in Keys \ {k} : cache'[j] = cache[j]
  BY <1>1, <1>2, <1>3
<1>5. /\ pending' \in [Keys -> BOOLEAN] /\ \A j \in Keys \ {k} : pending'[j] = pending[j]
      /\ pending'[k] = (pending[k] \/ ~e.set \/ e.len # v.len \/ e.id # v.id)
  BY <1>1, <1>2
<1>6. /\ cli' \in [at : {"idle", "copy"}, key : Keys, value : Value, todo : SUBSET Keys,
                  success : BOOLEAN, unsynced : SUBSET Keys]
      /\ cli'.success = cli.success
      /\ pending'[k] => cli'.at = "copy" /\ cli'.key = k /\ cli'.value = v
      /\ ~pending'[k] => cli'.at = "idle"
  BY <1>1, <1>5 DEF IInv, TypeOK
<1> HIDE DEF n
<1>7. v.len > 0 /\ v.id \in Ids /\ v = [len |-> v.len, id |-> v.id]
  BY SizesAssumption DEF Value
<1>8. ~pending'[k] => ~pending[k] /\ e.set /\ e.len = v.len /\ e.id = v.id
  BY <1>5
<1>9. ~pending'[k] => n = e
  BY <1>8 DEF n
<1>10. TypeOK'
  BY <1>1, <1>4, <1>5, <1>6 DEF IInv, TypeOK
<1>11. \A j \in Keys : Staged(j)' = (IF j = k THEN v ELSE Staged(j))
  <2>1. ASSUME NEW j \in Keys, j # k PROVE Staged(j)' = Staged(j)
    BY <1>1, <1>4, <1>6, <2>1 DEF Staged, Cached
  <2>2. Staged(k)' = v
    <3>1. CASE pending'[k]
      BY <1>6, <3>1 DEF Staged
    <3>2. CASE ~pending'[k]
      <4>1. cache'[k].set /\ cache'[k].len = v.len /\ cache'[k].id = v.id /\ cli'.at = "idle"
        BY <1>4, <1>6, <1>8, <1>9, <3>2
      <4> QED
        BY <1>7, <4>1 DEF Staged, Cached
    <3> QED
      BY <3>1, <3>2
  <2> QED
    BY <2>1, <2>2
<1>12. \A j \in Keys : Saved(j)' = Saved(j)
  BY <1>1 DEF Saved
<1>13. EntriesSound'
  <2>1. ASSUME NEW j \in Keys
        PROVE  /\ cache'[j].set => cache'[j].len > 0 /\ (cache'[j].id \in Ids \/ Copying(j)')
               /\ ~cache'[j].set => cache'[j].len = 0
               /\ pending'[j] => cache'[j].set
               /\ cache'[j].len > Inline => cache'[j].block >= cache'[j].len
    <3>1. CASE j = k
      BY <1>3, <1>4, <1>6, <1>7, <1>8, <1>9, <3>1 DEF Copying
    <3>2. CASE j # k
      BY <1>1, <1>4, <1>5, <3>2 DEF IInv, EntriesSound, Copying
    <3> QED
      BY <3>1, <3>2
  <2> QED
    BY <2>1 DEF EntriesSound
<1>14. CopyPrepared'
  BY <1>3, <1>4, <1>6 DEF CopyPrepared
<1>15. CleanIsSaved'
  <2>1. \A j \in Keys : ~pending[j] => Staged(j) = Saved(j)
    BY DEF IInv, CleanIsSaved
  <2>2. ~pending'[k] => Staged(k) = v
    BY <1>1, <1>7, <1>8 DEF Staged, Cached
  <2> QED
    BY <1>5, <1>8, <1>11, <1>12, <2>1, <2>2 DEF CleanIsSaved
<1>16. CommitMarked' /\ CommitProgress'
  BY <1>6 DEF CommitMarked, CommitProgress, Writing
<1>17. ReadsFit'
  BY <1>1 DEF IInv, ReadsFit
<1> QED
  BY <1>6, <1>10, <1>11, <1>12, <1>13, <1>14, <1>15, <1>16, <1>17 DEF IInv

LEMMA SetCopyIInv ==
  ASSUME IInv, SetCopy, halted' = halted
  PROVE  /\ IInv'
         /\ \A j \in Keys : Staged(j)' = Staged(j) /\ Saved(j)' = Saved(j)
         /\ cli.success' = cli.success
<1> PICK k \in Keys : k = cli.key
  BY DEF IInv, TypeOK
<1> DEFINE e == cache[k]
<1>1. /\ cli.at = "copy" /\ cache' = [cache EXCEPT ![k] = Copied(e, cli.value)]
      /\ cli' = Returned
      /\ leaked' = (leaked \/ (e.block > 0 /\ e.len <= Inline))
      /\ UNCHANGED <<pending, file, reader, crashes, halted>>
  BY DEF SetCopy
<1>2. /\ k \in Keys /\ cli.value \in Value /\ e \in Entry /\ cache \in [Keys -> Entry]
      /\ pending[k] /\ e.len = cli.value.len /\ e.set /\ e.len > 0
      /\ e.len > Inline => e.block >= e.len
  BY <1>1 DEF IInv, TypeOK, CopyPrepared, EntriesSound
<1>3. /\ Copied(e, cli.value) \in Entry /\ Copied(e, cli.value).set
      /\ Copied(e, cli.value).len = e.len /\ Copied(e, cli.value).id = cli.value.id
      /\ e.len > Inline => Copied(e, cli.value).block = e.block
  BY <1>2, CopiedFacts
<1>4. /\ cache' \in [Keys -> Entry] /\ cache'[k] = Copied(e, cli.value)
      /\ \A j \in Keys \ {k} : cache'[j] = cache[j]
  BY <1>1, <1>2, <1>3
<1>5. /\ cli' \in [at : {"idle"}, key : Keys, value : Value, todo : SUBSET Keys,
                  success : BOOLEAN, unsynced : SUBSET Keys]
      /\ cli'.success = cli.success /\ cli'.at = "idle"
  BY <1>1, ReturnedFacts DEF IInv
<1>6. TypeOK'
  <2>1. leaked' \in BOOLEAN
    BY <1>1
  <2> QED
    BY <1>1, <1>4, <1>5, <2>1 DEF IInv, TypeOK
<1>7. cli.value = [len |-> cli.value.len, id |-> cli.value.id] /\ cli.value.id \in Ids
  BY <1>2 DEF Value
<1>8. \A j \in Keys : Staged(j)' = Staged(j)
  <2>1. Staged(k)' = cli.value /\ Staged(k) = cli.value
    BY <1>1, <1>2, <1>3, <1>4, <1>5, <1>7 DEF Staged, Cached
  <2>2. ASSUME NEW j \in Keys, j # k PROVE Staged(j)' = Staged(j)
    BY <1>1, <1>4, <1>5, <2>2 DEF Staged, Cached
  <2> QED
    BY <2>1, <2>2
<1>9. \A j \in Keys : Saved(j)' = Saved(j)
  BY <1>1 DEF Saved
<1>10. EntriesSound'
  <2>1. ASSUME NEW j \in Keys
        PROVE  /\ cache'[j].set => cache'[j].len > 0 /\ cache'[j].id \in Ids
               /\ ~cache'[j].set => cache'[j].len = 0
               /\ pending'[j] => cache'[j].set
               /\ cache'[j].len > Inline => cache'[j].block >= cache'[j].len
    <3>1. CASE j = k
      BY <1>2, <1>3, <1>4, <1>7, <3>1
    <3>2. CASE j # k
      BY <1>1, <1>4, <3>2 DEF IInv, EntriesSound, Copying
    <3> QED
      BY <3>1, <3>2
  <2> QED
    BY <2>1 DEF EntriesSound
<1>11. CleanIsSaved'
  BY <1>1, <1>8, <1>9 DEF IInv, CleanIsSaved
<1>12. CopyPrepared' /\ CommitMarked' /\ CommitProgress'
  BY <1>5 DEF CopyPrepared, CommitMarked, CommitProgress, Writing
<1>13. ReadsFit'
  BY <1>1 DEF IInv, ReadsFit
<1> QED
  BY <1>5, <1>6, <1>8, <1>9, <1>10, <1>11, <1>12, <1>13 DEF IInv

-----------------------------------------------------------------------------
(* KVStore_xCommitChanges.                                                 *)

CliType ==
  [at : {"idle", "copy", "next", "write", "sync", "remove", "done"},
   key : Keys, value : Value, todo : SUBSET Keys, success : BOOLEAN, unsynced : SUBSET Keys]

(* A commit leaves the cache and its marks alone.                          *)
LEMMA CommitKeeps ==
  ASSUME IInv, UNCHANGED <<cache, pending, reader>>, cli.at # "copy", cli'.at # "copy"
  PROVE  /\ \A j \in Keys : Staged(j)' = Staged(j)
         /\ EntriesSound' /\ CopyPrepared' /\ ReadsFit'
<1>1. \A j \in Keys : Staged(j)' = Staged(j)
  BY DEF Staged, Cached
<1>2. EntriesSound'
  BY DEF IInv, EntriesSound, Copying
<1>3. CopyPrepared'
  BY DEF CopyPrepared
<1>4. ReadsFit'
  BY DEF IInv, ReadsFit
<1> QED
  BY <1>1, <1>2, <1>3, <1>4

(* The keys to write are those that are marked; the others are saved.      *)
LEMMA CommitStartIInv ==
  ASSUME IInv, CommitStart, halted' = halted
  PROVE  /\ IInv'
         /\ \A j \in Keys : Staged(j)' = Staged(j) /\ Saved(j)' = Saved(j)
         /\ cli'.success = TRUE
<1>1. /\ cli.at = "idle" /\ UNCHANGED <<cache, pending, leaked, file, reader, crashes, halted>>
      /\ cli' = [cli EXCEPT !.at = "next", !.todo = {k \in Keys : pending[k]}, !.success = TRUE,
                         !.unsynced = {}]
  BY DEF CommitStart
<1>2. /\ cli' \in CliType /\ cli'.at = "next" /\ cli'.todo = {k \in Keys : pending[k]}
      /\ cli'.success = TRUE
  BY <1>1 DEF IInv, TypeOK, CliType
<1>3. TypeOK'
  BY <1>1, <1>2 DEF IInv, TypeOK, CliType
<1>4. (\A j \in Keys : Staged(j)' = Staged(j)) /\ EntriesSound' /\ CopyPrepared' /\ ReadsFit'
  BY <1>1, <1>2, CommitKeeps
<1>5. \A j \in Keys : Saved(j)' = Saved(j)
  BY <1>1 DEF Saved
<1>6. CleanIsSaved'
  BY <1>1, <1>4, <1>5 DEF IInv, CleanIsSaved
<1>7. CommitMarked'
  BY <1>1, <1>2 DEF CommitMarked, Writing
<1>8. CommitProgress'
  BY <1>2, <1>4, <1>5 DEF IInv, CleanIsSaved, CommitProgress
<1> QED
  BY <1>2, <1>3, <1>4, <1>5, <1>6, <1>7, <1>8 DEF IInv

(* A file that is created is empty, so that nothing is saved yet.          *)
LEMMA CommitOpenIInv ==
  ASSUME IInv, NEW k \in Keys, CommitOpen(k), halted' = halted
  PROVE  /\ IInv'
         /\ \A j \in Keys : Staged(j)' = Staged(j) /\ Saved(j)' = Saved(j)
         /\ cli'.success = cli.success \/ (WritesFail /\ cli'.success = FALSE)
<1>1. /\ cli.at = "next" /\ k \in cli.todo
      /\ UNCHANGED <<cache, pending, leaked, reader, crashes, halted>>
      /\ file' = file \/ file' = [file EXCEPT ![k] = IF @ = NoFile THEN Empty ELSE @]
  BY DEF CommitOpen
<1>2. /\ cli' \in CliType /\ cli'.todo = cli.todo \ {k} /\ cli'.unsynced = cli.unsynced
      /\ \/ cli'.at = "write" /\ cli'.key = k /\ cli'.success = cli.success
         \/ cli'.at = "next" /\ WritesFail /\ cli'.success = FALSE
  <2>1. cli \in CliType
    BY DEF IInv, TypeOK, CliType
  <2>2. CASE cli' = [cli EXCEPT !.at = "write", !.key = k, !.todo = @ \ {k}]
    BY <2>1, <2>2 DEF CliType
  <2>3. CASE WritesFail /\ cli' = [cli EXCEPT !.todo = @ \ {k}, !.success = FALSE]
    BY <1>1, <2>1, <2>3 DEF CliType
  <2> QED
    BY <2>2, <2>3 DEF CommitOpen
<1>3. /\ file' \in [Keys -> Value \cup {NoFile, Empty}]
      /\ \A j \in Keys : file'[j] = file[j] \/ (file[j] = NoFile /\ file'[j] = Empty)
  BY <1>1 DEF IInv, TypeOK
<1>4. TypeOK'
  BY <1>1, <1>2, <1>3 DEF IInv, TypeOK, CliType
<1>5. (\A j \in Keys : Staged(j)' = Staged(j)) /\ EntriesSound' /\ CopyPrepared' /\ ReadsFit'
  BY <1>1, <1>2, CommitKeeps
<1>6. \A j \in Keys : Saved(j)' = Saved(j)
  BY <1>3, ValuesAssumption DEF Saved
<1>7. CleanIsSaved'
  BY <1>1, <1>5, <1>6 DEF IInv, CleanIsSaved
<1>8. CommitMarked'
  <2>1. \A j \in cli.todo : pending[j]
    BY <1>1 DEF IInv, CommitMarked
  <2> QED
    BY <1>1, <1>2, <2>1 DEF CommitMarked, Writing
<1>9. CommitProgress'
  BY <1>1, <1>2, <1>5, <1>6 DEF IInv, CommitProgress, Writing
<1> QED
  BY <1>2, <1>4, <1>5, <1>6, <1>7, <1>8, <1>9 DEF IInv

(* The value of a marked entry is whole while nothing is copied.           *)
LEMMA CachedFacts ==
  ASSUME IInv, NEW k \in Keys, pending[k], cli.at # "copy"
  PROVE  Cached(k) \in Value /\ Cached(k) = Staged(k)
<1>1. cache[k].set /\ cache[k].len > 0 /\ cache[k].id \in Ids
  BY DEF IInv, EntriesSound, Copying
<1>2. cache[k].len \in 1 .. MaxLen
  BY <1>1, SizesAssumption DEF IInv, TypeOK, Entry
<1> QED
  BY <1>1, <1>2 DEF Value, Staged, Cached

LEMMA CommitWriteIInv ==
  ASSUME IInv, CommitWrite, halted' = halted
  PROVE  /\ IInv'
         /\ \A j \in Keys : Staged(j)' = Staged(j) /\ Saved(j)' = Saved(j)
         /\ cli'.success = cli.success \/ (WritesFail /\ cli'.success = FALSE)
<1> PICK k \in Keys : k = cli.key
  BY DEF IInv, TypeOK
<1>1. cli.at = "write" /\ UNCHANGED <<cache, pending, leaked, file, reader, crashes, halted>>
  BY DEF CommitWrite
<1>2. pending[k]
  BY <1>1 DEF IInv, CommitMarked, Writing
<1>3. /\ cli' \in CliType /\ cli'.todo = cli.todo /\ cli'.key = k
      /\ cli'.unsynced = cli.unsynced
      /\ \/ cli'.at = "sync" /\ cli'.success = cli.success
         \/ cli'.at = "remove" /\ WritesFail /\ cli'.success = FALSE
  BY <1>1 DEF CommitWrite, IInv, TypeOK, CliType
<1>4. TypeOK'
  BY <1>1, <1>3 DEF IInv, TypeOK, CliType
<1>5. (\A j \in Keys : Staged(j)' = Staged(j)) /\ EntriesSound' /\ CopyPrepared' /\ ReadsFit'
  BY <1>1, <1>3, CommitKeeps
<1>6. \A j \in Keys : Saved(j)' = Saved(j)
  BY <1>1 DEF Saved
<1>7. CleanIsSaved'
  BY <1>1, <1>5, <1>6 DEF IInv, CleanIsSaved
<1>8. CommitMarked'
  <2>1. \A j \in cli.todo : pending[j]
    BY <1>1 DEF IInv, CommitMarked
  <2> QED
    BY <1>1, <1>2, <1>3, <2>1 DEF CommitMarked, Writing
<1>9. CommitProgress'
  BY <1>1, <1>3, <1>5, <1>6 DEF IInv, CommitProgress, Writing
<1> QED
  BY <1>3, <1>4, <1>5, <1>6, <1>7, <1>8, <1>9 DEF IInv

(* The synchronisation saves the key, which was marked, so that no clean   *)
(* key is touched; or it fails and saves nothing.                          *)
LEMMA CommitSyncIInv ==
  ASSUME IInv, CommitSync, halted' = halted
  PROVE  /\ IInv'
         /\ \A j \in Keys : Staged(j)' = Staged(j)
         /\ \/ \A j \in Keys : Saved(j)' = Saved(j)
            \/ \E k \in Keys : \A j \in Keys : Saved(j)' = IF j = k THEN Staged(k) ELSE Saved(j)
         /\ cli'.success = cli.success
<1> PICK k \in Keys : k = cli.key
  BY DEF IInv, TypeOK
<1>1. /\ cli.at = "sync" /\ UNCHANGED <<cache, pending, leaked, reader, crashes, halted>>
      /\ \/ file' = [file EXCEPT ![k] = Cached(k)] /\ cli' = [cli EXCEPT !.at = "next"]
         \/ file' = file /\ cli' = [cli EXCEPT !.at = "next", !.unsynced = @ \cup {k}]
  BY DEF CommitSync
<1>2. /\ cli' \in CliType /\ cli'.at = "next" /\ cli'.todo = cli.todo
      /\ cli'.success = cli.success
      /\ \/ file' = [file EXCEPT ![k] = Cached(k)] /\ cli'.unsynced = cli.unsynced
         \/ file' = file /\ cli'.unsynced = cli.unsynced \cup {k}
  <2>1. cli \in CliType
    BY DEF IInv, TypeOK, CliType
  <2>2. CASE file' = [file EXCEPT ![k] = Cached(k)] /\ cli' = [cli EXCEPT !.at = "next"]
    BY <2>1, <2>2 DEF CliType
  <2>3. CASE file' = file /\ cli' = [cli EXCEPT !.at = "next", !.unsynced = @ \cup {k}]
    BY <2>1, <2>3 DEF CliType
  <2> QED
    BY <1>1, <2>2, <2>3
<1>3. pending[k] /\ Cached(k) = Staged(k) /\ Cached(k) \in Value
  <2>1. pending[k]
    BY <1>1 DEF IInv, CommitMarked, Writing
  <2> QED
    BY <1>1, <2>1, CachedFacts
<1>4. (\A j \in Keys : Staged(j)' = Staged(j)) /\ EntriesSound' /\ CopyPrepared' /\ ReadsFit'
  BY <1>1, <1>2, CommitKeeps
<1>5. file' \in [Keys -> Value \cup {NoFile, Empty}]
  BY <1>2, <1>3 DEF IInv, TypeOK
<1>6. TypeOK'
  BY <1>1, <1>2, <1>5 DEF IInv, TypeOK, CliType
<1>7. \A j \in Keys : j # k => Saved(j)' = Saved(j)
  BY <1>2 DEF IInv, TypeOK, Saved
<1>8. \/ Saved(k)' = Staged(k) /\ cli'.unsynced = cli.unsynced
      \/ Saved(k)' = Saved(k) /\ k \in cli'.unsynced /\ cli.unsynced \subseteq cli'.unsynced
  <2>1. CASE file' = [file EXCEPT ![k] = Cached(k)] /\ cli'.unsynced = cli.unsynced
    <3>1. file'[k] = Cached(k)
      BY <2>1 DEF IInv, TypeOK
    <3> QED
      BY <1>3, <2>1, <3>1 DEF Saved
  <2>2. CASE file' = file /\ cli'.unsynced = cli.unsynced \cup {k}
    BY <2>2 DEF Saved
  <2> QED
    BY <1>2, <2>1, <2>2
<1>9. CleanIsSaved'
  BY <1>1, <1>3, <1>4, <1>7 DEF IInv, CleanIsSaved
<1>10. CommitMarked'
  BY <1>1, <1>2 DEF IInv, CommitMarked, Writing
<1>11. CommitProgress'
  BY <1>1, <1>2, <1>4, <1>7, <1>8 DEF IInv, CommitProgress, Writing
<1> QED
  BY <1>2, <1>4, <1>6, <1>7, <1>8, <1>9, <1>10, <1>11 DEF IInv

(* A file that was not written is removed, and the commit will say so.     *)
LEMMA CommitRemoveIInv ==
  ASSUME IInv, CommitRemove, halted' = halted
  PROVE  /\ IInv'
         /\ \A j \in Keys : Staged(j)' = Staged(j)
         /\ \E k \in Keys : \A j \in Keys : Saved(j)' = IF j = k THEN Unset ELSE Saved(j)
         /\ ~cli.success /\ cli'.success = cli.success
<1> PICK k \in Keys : k = cli.key
  BY DEF IInv, TypeOK
<1>1. /\ cli.at = "remove" /\ file' = [file EXCEPT ![k] = NoFile]
      /\ cli' = [cli EXCEPT !.at = "next"]
      /\ UNCHANGED <<cache, pending, leaked, reader, crashes, halted>>
  BY DEF CommitRemove
<1>2. /\ cli' \in CliType /\ cli'.at = "next" /\ cli'.todo = cli.todo
      /\ cli'.success = cli.success
  BY <1>1 DEF IInv, TypeOK, CliType
<1>3. pending[k] /\ ~cli.success
  BY <1>1 DEF IInv, CommitMarked, Writing
<1>4. /\ file' \in [Keys -> Value \cup {NoFile, Empty}] /\ file'[k] = NoFile
      /\ \A j \in Keys \ {k} : file'[j] = file[j]
  BY <1>1 DEF IInv, TypeOK
<1>5. TypeOK'
  BY <1>1, <1>2, <1>4 DEF IInv, TypeOK, CliType
<1>6. (\A j \in Keys : Staged(j)' = Staged(j)) /\ EntriesSound' /\ CopyPrepared' /\ ReadsFit'
  BY <1>1, <1>2, CommitKeeps
<1>7. \A j \in Keys : Saved(j)' = IF j = k THEN Unset ELSE Saved(j)
  BY <1>4, ValuesAssumption DEF Saved
<1>8. CleanIsSaved'
  BY <1>1, <1>3, <1>6, <1>7 DEF IInv, CleanIsSaved
<1>9. CommitMarked'
  BY <1>1, <1>2 DEF IInv, CommitMarked, Writing
<1>10. CommitProgress'
  BY <1>2, <1>3 DEF CommitProgress
<1> QED
  BY <1>2, <1>3, <1>5, <1>6, <1>7, <1>8, <1>9, <1>10 DEF IInv

LEMMA CommitEndIInv ==
  ASSUME IInv, CommitDone \/ CommitReturns, halted' = halted
  PROVE  /\ IInv'
         /\ \A j \in Keys : Staged(j)' = Staged(j) /\ Saved(j)' = Saved(j)
         /\ cli'.success = cli.success
<1>1. /\ UNCHANGED <<cache, pending, leaked, file, reader, crashes, halted>>
      /\ cli' \in CliType /\ cli'.success = cli.success
      /\ \/ /\ cli.at = "next" /\ cli'.at = "done" /\ cli.todo = {} /\ cli'.todo = {}
            /\ cli'.unsynced = cli.unsynced
         \/ cli.at = "done" /\ cli'.at = "idle"
  <2>1. CASE CommitDone
    BY <2>1 DEF CommitDone, IInv, TypeOK, CliType
  <2>2. CASE CommitReturns
    BY <2>2, ReturnedFacts DEF CommitReturns, IInv, CliType
  <2> QED
    BY <2>1, <2>2
<1>2. TypeOK'
  BY <1>1 DEF IInv, TypeOK, CliType
<1>3. (\A j \in Keys : Staged(j)' = Staged(j)) /\ EntriesSound' /\ CopyPrepared' /\ ReadsFit'
  BY <1>1, CommitKeeps
<1>4. \A j \in Keys : Saved(j)' = Saved(j)
  BY <1>1 DEF Saved
<1>5. CleanIsSaved'
  BY <1>1, <1>3, <1>4 DEF IInv, CleanIsSaved
<1>6. CommitMarked'
  BY <1>1 DEF CommitMarked, Writing
<1>7. CommitProgress'
  BY <1>1, <1>3, <1>4 DEF IInv, CommitProgress, Writing
<1> QED
  BY <1>1, <1>2, <1>3, <1>4, <1>5, <1>6, <1>7 DEF IInv

-----------------------------------------------------------------------------
(* KVStore_getStringHeap and a power failure.                              *)

(* A reader copies no more than the room that it has asked for, whatever   *)
(* was set in between.                                                     *)
LEMMA ReaderIInv ==
  ASSUME IInv, NEW t \in Readers, ReaderStep(t), halted' = halted
  PROVE  /\ IInv'
         /\ \A j \in Keys : Staged(j)' = Staged(j) /\ Saved(j)' = Saved(j)
         /\ cli' = cli
<1> DEFINE RType == [at : {"idle", "read", "length", "copy"}, key : Keys, size : 0 .. MaxLen,
                     room : 0 .. Room, len : 0 .. MaxLen]
           Fits(r) == r.at = "copy" => r.len <= r.size
<1>1. UNCHANGED <<cache, pending, leaked, file, cli, crashes, halted>>
  BY DEF ReaderStep, GetSize, GetString, GetLength, GetCopy
<1>2. /\ reader \in [Readers -> RType] /\ cache \in [Keys -> Entry] /\ reader[t] \in RType
      /\ IdleReader \in RType /\ DefaultLen \in 1 .. MaxLen /\ DefaultLen <= Room
      /\ Inline \in 0 .. Room /\ MaxLen <= Room /\ Room \in Nat
  BY IdleFacts, SizesAssumption DEF IInv, TypeOK, DefaultLen, Room
<1>3. PICK r \in RType : reader' = [reader EXCEPT ![t] = r] /\ Fits(r)
  <2>1. ASSUME NEW k \in Keys, GetSize(t, k)
        PROVE  \E r \in RType : reader' = [reader EXCEPT ![t] = r] /\ Fits(r)
    <3> DEFINE r == [IdleReader EXCEPT !.at = "read", !.key = k, !.size = CachedLen(k)]
    <3>1. CachedLen(k) \in 0 .. MaxLen
      BY <1>2, SizesAssumption DEF CachedLen, DefaultLen, Entry
    <3>2. r \in RType /\ Fits(r)
      BY <1>2, <3>1
    <3>3. reader' = [reader EXCEPT ![t] = r]
      BY <2>1 DEF GetSize
    <3> QED
      BY <3>2, <3>3
  <2>2. ASSUME GetString(t)
        PROVE  \E r \in RType : reader' = [reader EXCEPT ![t] = r] /\ Fits(r)
    <3> DEFINE q == reader[t]
               e == cache[q.key]
               b == IF e.len > Inline THEN e.block ELSE Inline
               n == Shorter(q.size, DefaultLen)
               r1 == [q EXCEPT !.at = "length", !.room = b]
               r2 == [q EXCEPT !.at = "copy", !.room = DefaultLen, !.len = n]
    <3>1. e.block \in 0 .. MaxLen /\ e.len \in 0 .. MaxLen /\ q.size \in 0 .. MaxLen
      BY <1>2 DEF Entry
    <3>2. b \in 0 .. Room /\ n \in 0 .. MaxLen /\ n <= q.size /\ DefaultLen \in 0 .. Room
      BY <1>2, <3>1, SizesAssumption DEF Shorter
    <3>3. reader' = [reader EXCEPT ![t] = r1] \/ reader' = [reader EXCEPT ![t] = r2]
      BY <2>2 DEF GetString
    <3> HIDE DEF b, n
    <3>4. r1 \in RType /\ Fits(r1) /\ r2 \in RType /\ Fits(r2)
      BY <1>2, <3>1, <3>2
    <3> QED
      BY <3>3, <3>4
  <2>3. ASSUME GetLength(t)
        PROVE  \E r \in RType : reader' = [reader EXCEPT ![t] = r] /\ Fits(r)
    <3> DEFINE n == Shorter(reader[t].size, cache[reader[t].key].len)
               r == [reader[t] EXCEPT !.at = "copy", !.len = n]
    <3>1. n \in 0 .. MaxLen /\ n <= reader[t].size
      BY <1>2, SizesAssumption DEF Shorter, Entry
    <3>2. reader' = [reader EXCEPT ![t].at = "copy", ![t].len = n]
      BY <2>3 DEF GetLength
    <3> HIDE DEF n
    <3>3. r \in RType /\ Fits(r)
      BY <1>2, <3>1
    <3>4. reader' = [reader EXCEPT ![t] = r]
      BY <1>2, <3>2
    <3> QED
      BY <3>3, <3>4
  <2>4. ASSUME GetCopy(t)
        PROVE  \E r \in RType : reader' = [reader EXCEPT ![t] = r] /\ Fits(r)
    <3>1. Fits(IdleReader)
      BY DEF IdleReader
    <3>2. reader' = [reader EXCEPT ![t] = IdleReader]
      BY <2>4 DEF GetCopy
    <3> QED
      BY <1>2, <3>1, <3>2
  <2> QED
    BY <2>1, <2>2, <2>3, <2>4 DEF ReaderStep
<1>4. reader' \in [Readers -> RType] /\ ReadsFit'
  BY <1>2, <1>3 DEF IInv, ReadsFit
<1>5. TypeOK'
  BY <1>1, <1>4 DEF IInv, TypeOK
<1>6. \A j \in Keys : Staged(j)' = Staged(j) /\ Saved(j)' = Saved(j)
  BY <1>1 DEF Staged, Cached, Saved
<1>7. EntriesSound' /\ CopyPrepared'
  BY <1>1 DEF IInv, EntriesSound, CopyPrepared, Copying
<1>8. CleanIsSaved'
  BY <1>1, <1>6 DEF IInv, CleanIsSaved
<1>9. CommitMarked'
  BY <1>1 DEF IInv, CommitMarked, Writing, Staged
<1>10. CommitProgress'
  BY <1>1, <1>6 DEF IInv, CommitProgress, Writing
<1> QED
  BY <1>1, <1>4, <1>5, <1>6, <1>7, <1>8, <1>9, <1>10 DEF IInv

(* After a power failure, wherever it comes, the staged values are the     *)
(* saved ones.                                                             *)
LEMMA RestartIInv ==
  ASSUME IInv, Restart
  PROVE  /\ IInv'
         /\ \A j \in Keys : Staged(j)' = Saved(j) /\ Saved(j)' = Saved(j)
         /\ cli'.success = TRUE
<1>1. /\ cache' = [k \in Keys |-> Loaded(file[k])] /\ pending' = [k \in Keys |-> FALSE]
      /\ cli' = IdleCli /\ reader' = [t \in Readers |-> IdleReader]
      /\ leaked' = FALSE /\ file' = file /\ crashes < MaxCrashes /\ crashes' = crashes + 1
      /\ halted' = \E k \in Keys : CannotLoad(file[k])
  BY DEF Restart, LoadAll
<1>2. file \in [Keys -> Value \cup {NoFile, Empty}]
  BY DEF IInv, TypeOK
<1>3. /\ cache' \in [Keys -> Entry]
      /\ \A k \in Keys :
           /\ cache'[k].set => cache'[k].len > 0 /\ cache'[k].id \in Ids
           /\ ~cache'[k].set => cache'[k].len = 0
           /\ cache'[k].len > Inline => cache'[k].block >= cache'[k].len
           /\ cache'[k].set => Saved(k) = [len |-> cache'[k].len, id |-> cache'[k].id]
           /\ ~cache'[k].set => Saved(k) = Unset
  BY <1>1, <1>2, BootFacts
<1>4. cli' \in CliType /\ cli'.at = "idle" /\ cli'.success = TRUE
  BY <1>1, IdleFacts DEF IdleCli, CliType
<1>5. TypeOK'
  <2>1. crashes' \in 0 .. MaxCrashes
    BY <1>1, SizesAssumption DEF IInv, TypeOK
  <2>2. halted' \in BOOLEAN /\ leaked' \in BOOLEAN
    BY <1>1
  <2>3. pending' \in [Keys -> BOOLEAN]
    BY <1>1
  <2> QED
    BY <1>1, <1>2, <1>3, <1>4, <2>1, <2>2, <2>3, IdleFacts DEF TypeOK, CliType
<1>6. \A j \in Keys : Staged(j)' = Saved(j) /\ Saved(j)' = Saved(j)
  <2>1. \A j \in Keys : Saved(j)' = Saved(j)
    BY <1>1 DEF Saved
  <2>2. ASSUME NEW j \in Keys PROVE Staged(j)' = Saved(j)
    <3>1. Staged(j)' = IF cache'[j].set THEN [len |-> cache'[j].len, id |-> cache'[j].id] ELSE Unset
      BY <1>4 DEF Staged, Cached
    <3> QED
      BY <1>3, <3>1
  <2> QED
    BY <2>1, <2>2
<1>7. EntriesSound'
  BY <1>1, <1>3 DEF EntriesSound
<1>8. CleanIsSaved'
  BY <1>6 DEF CleanIsSaved
<1>9. CopyPrepared' /\ CommitMarked' /\ CommitProgress'
  BY <1>4 DEF CopyPrepared, CommitMarked, CommitProgress, Writing
<1>10. ReadsFit'
  BY <1>1, SizesAssumption DEF ReadsFit, IdleReader
<1> QED
  BY <1>4, <1>5, <1>6, <1>7, <1>8, <1>9, <1>10 DEF IInv

LEMMA StutterIInv ==
  ASSUME IInv, UNCHANGED vars
  PROVE  /\ IInv'
         /\ \A j \in Keys : Staged(j)' = Staged(j) /\ Saved(j)' = Saved(j)
         /\ cli' = cli
BY DEF vars, IInv, TypeOK, EntriesSound, CopyPrepared, CleanIsSaved, CommitMarked,
   CommitProgress, ReadsFit, Copying, Writing, Staged, Cached, Saved

LEMMA NextIInv == IInv /\ [Next]_vars => IInv'
<1> SUFFICES ASSUME IInv, [Next]_vars PROVE IInv'
  OBVIOUS
<1>1. CASE halted' = halted /\ CliStep
  BY <1>1, SetEntryIInv, SetCopyIInv, CommitStartIInv, CommitOpenIInv, CommitWriteIInv,
     CommitSyncIInv, CommitRemoveIInv, CommitEndIInv DEF CliStep
<1>2. ASSUME NEW t \in Readers, halted' = halted, ReaderStep(t) PROVE IInv'
  BY <1>2, ReaderIInv
<1>3. CASE Restart
  BY <1>3, RestartIInv
<1>4. CASE UNCHANGED vars
  BY <1>4, StutterIInv
<1> QED
  BY <1>1, <1>2, <1>3, <1>4 DEF Next

THEOREM IInvHolds == Spec => []IInv
<1>1. Init => IInv
  BY InitIInv
<1>2. IInv /\ [Next]_vars => IInv'
  BY NextIInv
<1> QED
  BY <1>1, <1>2, PTL DEF Spec

-----------------------------------------------------------------------------
(* The properties that the run checks.                                     *)

(* The cache, the files and the tasks keep their types; a length that is   *)
(* read from a file never makes an entry that is longer than a value.      *)
THEOREM StoreTypes == Spec => []TypeOK
<1>1. IInv => TypeOK
  BY DEF IInv
<1> QED
  BY <1>1, IInvHolds, PTL

(* xprvWriteCacheEntry, KVStore_xCommitChanges: a value that is not marked *)
(* as changed is the one in flash, so that a commit may skip it.           *)
THEOREM CleanValuesAreSaved == Spec => []CleanIsSaved
<1>1. IInv => CleanIsSaved
  BY DEF IInv
<1> QED
  BY <1>1, IInvHolds, PTL

(* KVStore_xCommitChanges: when a commit returns success every value of    *)
(* the cache is in flash, but for those whose lfs_file_sync has failed:    *)
(* no other failure, of any file of the commit, is lost.                   *)
THEOREM OnlySyncsAreSilent == Spec => []OnlySyncIsSilent
<1>1. IInv => OnlySyncIsSilent
  BY DEF IInv, CommitMarked, CommitProgress, Writing, OnlySyncIsSilent
<1> QED
  BY <1>1, IInvHolds, PTL

(* pvGetDataWritePtr, KVStore_getStringHeap: no sequence of longer and     *)
(* shorter values, and no set between the two halves of a read, makes a    *)
(* copy that is longer than its buffer.                                    *)
THEOREM NothingOverruns == Spec => []NoOverrun
<1>1. IInv => NoOverrun
  BY DEF IInv, EntriesSound, ReadsFit, NoOverrun
<1> QED
  BY <1>1, IInvHolds, PTL

-----------------------------------------------------------------------------
(* The refinement.  A set, the sync of a commit, the failure of a write,   *)
(* the removal of what it left and a restart are the steps of ConfigStore; *)
(* everything else stutters.                                               *)

LEMMA InitRefines == Init => CS!CSInit
<1> SUFFICES ASSUME Init PROVE CS!CSInit
  OBVIOUS
<1>1. \A k \in Keys : Staged(k) = Saved(k)
  BY InitIInv DEF Init, IInv, CleanIsSaved
<1>2. \A k \in Keys : Saved(k) \in Value \cup {Unset}
  BY DEF Saved
<1>3. cli.success = TRUE
  BY DEF Init, IdleCli
<1> QED
  BY <1>1, <1>2, <1>3 DEF CS!CSInit

LEMMA NextRefines == IInv /\ [Next]_vars => [CS!CSNext]_(CS!CSVars)
<1> SUFFICES ASSUME IInv, [Next]_vars PROVE [CS!CSNext]_(CS!CSVars)
  OBVIOUS
<1> DEFINE staged == [k \in Keys |-> Staged(k)]
           saved == [k \in Keys |-> Saved(k)]
<1>1. ASSUME \A j \in Keys : Staged(j)' = Staged(j) /\ Saved(j)' = Saved(j)
      PROVE  staged' = staged /\ saved' = saved
  BY <1>1
<1>2. ASSUME NEW k \in Keys, NEW v \in Value, halted' = halted, SetEntry(k, v)
      PROVE  CS!CSNext
  <2>1. staged' = [staged EXCEPT ![k] = v] /\ saved' = saved /\ cli.success' = cli.success
    BY <1>2, SetEntryIInv
  <2> QED
    BY <2>1 DEF CS!CSNext, CS!CSSet
<1>3. ASSUME halted' = halted, CommitStart PROVE CS!CSNext
  <2>1. staged' = staged /\ saved' = saved /\ cli.success' = TRUE
    BY <1>1, <1>3, CommitStartIInv
  <2> QED
    BY <2>1 DEF CS!CSNext, CS!CSBegin
<1>4. ASSUME halted' = halted, CommitWrite \/ \E k \in Keys : CommitOpen(k)
      PROVE  [CS!CSNext]_(CS!CSVars)
  <2>1. /\ staged' = staged /\ saved' = saved
        /\ cli.success' = cli.success \/ (WritesFail /\ cli.success' = FALSE)
    BY <1>1, <1>4, CommitWriteIInv, CommitOpenIInv
  <2> QED
    BY <2>1 DEF CS!CSNext, CS!CSFail, CS!CSVars
<1>5. ASSUME halted' = halted, CommitSync PROVE [CS!CSNext]_(CS!CSVars)
  <2>1. CASE \A j \in Keys : Saved(j)' = Saved(j)
    <3>1. staged' = staged /\ saved' = saved /\ cli.success' = cli.success
      BY <1>1, <1>5, <2>1, CommitSyncIInv
    <3> QED
      BY <3>1 DEF CS!CSVars
  <2>2. ASSUME NEW k \in Keys,
               \A j \in Keys : Saved(j)' = IF j = k THEN Staged(k) ELSE Saved(j)
        PROVE  CS!CSNext
    <3>1. /\ staged' = staged /\ saved' = [saved EXCEPT ![k] = staged[k]]
          /\ cli.success' = cli.success
      BY <1>5, <2>2, CommitSyncIInv
    <3> QED
      BY <3>1 DEF CS!CSNext, CS!CSSave
  <2> QED
    BY <1>5, <2>1, <2>2, CommitSyncIInv
<1>6. ASSUME halted' = halted, CommitRemove PROVE CS!CSNext
  <2>1. PICK k \in Keys : \A j \in Keys : Saved(j)' = IF j = k THEN Unset ELSE Saved(j)
    BY <1>6, CommitRemoveIInv
  <2>2. /\ staged' = staged /\ saved' = [saved EXCEPT ![k] = Unset]
        /\ ~cli.success /\ cli.success' = cli.success
    BY <1>6, <2>1, CommitRemoveIInv
  <2> QED
    BY <2>2 DEF CS!CSNext, CS!CSLose
<1>7. ASSUME Restart PROVE CS!CSNext
  <2>1. staged' = saved /\ saved' = saved /\ cli.success' = TRUE
    BY <1>7, RestartIInv
  <2> QED
    BY <2>1 DEF CS!CSNext, CS!CSRestart
<1>8. ASSUME \/ halted' = halted /\ (SetCopy \/ CommitDone \/ CommitReturns)
             \/ halted' = halted /\ \E t \in Readers : ReaderStep(t)
             \/ UNCHANGED vars
      PROVE  UNCHANGED CS!CSVars
  <2>1. staged' = staged /\ saved' = saved /\ cli.success' = cli.success
    BY <1>1, <1>8, SetCopyIInv, CommitEndIInv, ReaderIInv, StutterIInv
  <2> QED
    BY <2>1 DEF CS!CSVars
<1> QED
  BY <1>2, <1>3, <1>4, <1>5, <1>6, <1>7, <1>8 DEF Next, CliStep

(* source/kvstore implements ConfigStore: a restart brings back committed  *)
(* values only, and a committed value is lost only by a commit that has    *)
(* failed and reports it.                                                  *)
THEOREM StoreRefines == Spec => StoreSpec
<1>1. Init => CS!CSInit
  BY InitRefines
<1>2. IInv /\ [Next]_vars => [CS!CSNext]_(CS!CSVars)
  BY NextRefines
<1> QED
  BY <1>1, <1>2, IInvHolds, PTL DEF Spec, StoreSpec, CS!CSSpec

=============================================================================
