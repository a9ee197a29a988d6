------------------------------ MODULE KVStore ------------------------------
(***************************************************************************)
(* source/kvstore: the cache of configuration values (kvstore_cache.c)     *)
(* over files of littlefs (kvstore_nv_littlefs.c) and its interface        *)
(* (kvstore.c).  The CLI task alone sets and commits; other tasks read     *)
(* strings with KVStore_getStringHeap.  Setters take no mutex, so a read   *)
(* may come between the steps of a set.  Power may fail at any time.       *)
(*                                                                         *)
(* A value is its length and what tells it apart from others of that       *)
(* length.  Types are those of kvStoreDefaults, which the setters require. *)
(***************************************************************************)
EXTENDS Integers, FiniteSets

CONSTANTS Keys,
          Readers,      \* tasks that read
          Ids,          \* contents of values
          MaxLen,       \* bound: length of a value
          Inline,       \* sizeof( void * ): longer values are on the heap
          HeaderSize,   \* sizeof( KVStoreTLVHeader_t )
          SizeLimit,    \* 2^w for a size_t of w bits
          Provisioned,  \* keys that have a file from the start
          WritesFail,   \* whether opening, writing and synchronising may fail
          MaxCrashes,   \* bound: power failures
          NoFile, Empty, Unset

ASSUME SizesAssumption ==
  /\ MaxLen \in Nat \ {0} /\ Inline \in Nat \ {0} /\ HeaderSize \in Nat \ {0}
  /\ SizeLimit \in Nat /\ SizeLimit > HeaderSize + MaxLen
  /\ Provisioned \subseteq Keys /\ WritesFail \in BOOLEAN /\ MaxCrashes \in Nat

Value == [len : 1 .. MaxLen, id : Ids]

\* There is something to store, and no value is taken for a missing file or
\* for one that is empty.
ASSUME ValuesAssumption ==
  /\ Keys # {} /\ Ids # {}
  /\ NoFile \notin Value /\ Empty \notin Value /\ NoFile # Empty

VARIABLES
  cache,    \* kvStoreCache: type # KV_TYPE_NONE, length, data, and the size
            \* of the heap block that pvData points to (0: no pointer there)
  pending,  \* pending[k]: xChangePending
  leaked,   \* a heap block has lost its last pointer
  file,     \* file[k]: the file of the key in flash
  cli,      \* what the CLI task is at: its step, key, value, keys left to
            \* commit, xSuccess, and (history) the keys whose sync failed
  reader,   \* what each reading task is at: step, key, size of its buffer,
            \* room behind pvDataPtr, and xDataLen
  crashes,
  halted    \* a configASSERT has failed

vars == <<cache, pending, leaked, file, cli, reader, crashes, halted>>

NoEntry == [set |-> FALSE, len |-> 0, id |-> Unset, block |-> 0]
Entry == [set : BOOLEAN, len : 0 .. MaxLen, id : Ids \cup {Unset}, block : 0 .. MaxLen]

SomeKey == CHOOSE k \in Keys : TRUE
SomeValue == CHOOSE v \in Value : TRUE
IdleCli == [at |-> "idle", key |-> SomeKey, value |-> SomeValue, todo |-> {}, success |-> TRUE,
            unsynced |-> {}]
IdleReader == [at |-> "idle", key |-> SomeKey, size |-> 0, room |-> 0, len |-> 0]

\* The most that a pointer to a value may have behind it.
Room == IF MaxLen > Inline THEN MaxLen ELSE Inline

TypeOK ==
  /\ cache \in [Keys -> Entry]
  /\ pending \in [Keys -> BOOLEAN]
  /\ leaked \in BOOLEAN
  /\ file \in [Keys -> Value \cup {NoFile, Empty}]
  /\ cli \in [at : {"idle", "copy", "next", "write", "sync", "remove", "done"},
              key : Keys, value : Value, todo : SUBSET Keys, success : BOOLEAN,
              unsynced : SUBSET Keys]
  /\ reader \in [Readers -> [at : {"idle", "read", "length", "copy"}, key : Keys,
                             size : 0 .. MaxLen, room : 0 .. Room, len : 0 .. MaxLen]]
  /\ crashes \in 0 .. MaxCrashes
  /\ halted \in BOOLEAN

\* The length of a default that no caller can tell from a value: "" and the
\* 32-bit numbers fit the pointer.
DefaultLen == 1

-----------------------------------------------------------------------------
(* kvstore_cache.c: buffers.                                               *)

\* vAllocateDataBuffer
Allocated(n) == [set |-> TRUE, len |-> n, id |-> Unset, block |-> IF n > Inline THEN n ELSE 0]

\* Mutant: the buffer is kept for a value that is longer than it.
ReallocatedKept(e, n) == [e EXCEPT !.len = n]

\* vReallocDataBuffer: a longer value gets a new buffer (vClearDataBuffer
\* frees the old one), another one is put where the old one is.
Reallocated(e, n) == IF n > e.len THEN Allocated(n) ELSE [e EXCEPT !.len = n]

\* memcpy to pvGetDataWritePtr: a short value overwrites the pointer.
Copied(e, v) ==
  [e EXCEPT !.id = v.id, !.block = IF e.len > Inline THEN e.block ELSE 0]

-----------------------------------------------------------------------------
(* KVStore_setString, KVStore_setUInt32: xprvWriteCacheEntry without the   *)
(* mutex, in two steps.                                                    *)

\* The locals of the call are gone.
Returned == [IdleCli EXCEPT !.success = cli.success]

SetEntry(k, v) ==
  /\ cli.at = "idle"
  /\ LET e == cache[k] IN
     /\ cache' = [cache EXCEPT ![k] = IF ~e.set THEN Allocated(v.len)
                                      ELSE IF e.len # v.len THEN Reallocated(e, v.len) ELSE e]
     /\ pending' = [pending EXCEPT ![k] = @ \/ ~e.set \/ e.len # v.len \/ e.id # v.id]
  /\ cli' = IF pending'[k] THEN [cli EXCEPT !.at = "copy", !.key = k, !.value = v] ELSE cli
  /\ UNCHANGED <<leaked, file, reader, crashes>>

SetCopy ==
  /\ cli.at = "copy"
  /\ LET e == cache[cli.key] IN
     /\ cache' = [cache EXCEPT ![cli.key] = Copied(e, cli.value)]
     /\ leaked' = (leaked \/ (e.block > 0 /\ e.len <= Inline))
  /\ cli' = Returned
  /\ UNCHANGED <<pending, file, reader, crashes>>

-----------------------------------------------------------------------------
(* KVStore_xCommitChanges: every pending key is written in turn            *)
(* (xprvWriteValueToImpl).  littlefs is external: a file that is opened    *)
(* with LFS_O_CREAT exists from then on, and what is written to it, its    *)
(* truncation included, is in flash when it is synchronised; the sync does *)
(* nothing for a file whose write has failed, and one that fails leaves    *)
(* the file as it was.                                                     *)

CommitStart ==
  /\ cli.at = "idle"
  /\ cli' = [cli EXCEPT !.at = "next", !.todo = {k \in Keys : pending[k]}, !.success = TRUE,
                         !.unsynced = {}]
  /\ UNCHANGED <<cache, pending, leaked, file, reader, crashes>>

\* Mutant: the mark is cleared before the value is in flash.
CommitOpenClears(k) ==
  /\ cli.at = "next"
  /\ k \in cli.todo
  /\ \/ /\ file' = [file EXCEPT ![k] = IF @ = NoFile THEN Empty ELSE @]
        /\ cli' = [cli EXCEPT !.at = "write", !.key = k, !.todo = @ \ {k}]
     \/ /\ WritesFail
        /\ file' = file
        /\ cli' = [cli EXCEPT !.todo = @ \ {k}, !.success = FALSE]
  /\ pending' = [pending EXCEPT ![k] = FALSE]
  /\ UNCHANGED <<cache, leaked, reader, crashes>>

\* Mutant: the old file is removed before the new one is written.
CommitOpenRemoves(k) ==
  /\ cli.at = "next"
  /\ k \in cli.todo
  /\ file' = [file EXCEPT ![k] = NoFile]
  /\ cli' = [cli EXCEPT !.at = "write", !.key = k, !.todo = @ \ {k}]
  /\ UNCHANGED <<cache, pending, leaked, reader, crashes>>

CommitOpen(k) ==
  /\ cli.at = "next"
  /\ k \in cli.todo
  /\ \/ /\ file' = [file EXCEPT ![k] = IF @ = NoFile THEN Empty ELSE @]
        /\ cli' = [cli EXCEPT !.at = "write", !.key = k, !.todo = @ \ {k}]
     \/ /\ WritesFail
        /\ file' = file
        /\ cli' = [cli EXCEPT !.todo = @ \ {k}, !.success = FALSE]
  /\ UNCHANGED <<cache, pending, leaked, reader, crashes>>

\* Mutant: the result of the write is lost.
CommitWriteNoResult ==
  /\ cli.at = "write"
  /\ \/ cli' = [cli EXCEPT !.at = "sync"]
     \/ WritesFail /\ cli' = [cli EXCEPT !.at = "remove"]
  /\ UNCHANGED <<cache, pending, leaked, file, reader, crashes>>

\* The header and the data.
CommitWrite ==
  /\ cli.at = "write"
  /\ \/ cli' = [cli EXCEPT !.at = "sync"]
     \/ WritesFail /\ cli' = [cli EXCEPT !.at = "remove", !.success = FALSE]
  /\ UNCHANGED <<cache, pending, leaked, file, reader, crashes>>

\* The value of the entry.  It is written from the cache, and the task that
\* commits is the one that sets.
Cached(k) == [len |-> cache[k].len, id |-> cache[k].id]

\* The results of lfs_file_sync and lfs_file_close are discarded: a commit
\* does not learn that they failed.
CommitSync ==
  /\ cli.at = "sync"
  /\ \/ /\ file' = [file EXCEPT ![cli.key] = Cached(cli.key)]
        /\ cli' = [cli EXCEPT !.at = "next"]
     \/ /\ WritesFail
        /\ file' = file
        /\ cli' = [cli EXCEPT !.at = "next", !.unsynced = @ \cup {cli.key}]
  /\ UNCHANGED <<cache, pending, leaked, reader, crashes>>

\* "Delete partially written file if writing was not successful"
CommitRemove ==
  /\ cli.at = "remove"
  /\ file' = [file EXCEPT ![cli.key] = NoFile]
  /\ cli' = [cli EXCEPT !.at = "next"]
  /\ UNCHANGED <<cache, pending, leaked, reader, crashes>>

\* xChangePending stays as it is.
CommitDone ==
  /\ cli.at = "next"
  /\ cli.todo = {}
  /\ cli' = [cli EXCEPT !.at = "done"]
  /\ UNCHANGED <<cache, pending, leaked, file, reader, crashes>>

CommitReturns ==
  /\ cli.at = "done"
  /\ cli' = Returned
  /\ UNCHANGED <<cache, pending, leaked, file, reader, crashes>>

-----------------------------------------------------------------------------
(* KVStore_getStringHeap: the size is asked for without the mutex, the     *)
(* value is copied with it.  Setters take no mutex, so that they may come  *)
(* between any two of the steps.                                           *)

\* Mutant: room for one more character.
CachedLenPlusOne(k) == IF cache[k].len > 0 THEN cache[k].len + 1 ELSE DefaultLen

\* KVStore_getSize
CachedLen(k) == IF cache[k].len > 0 THEN cache[k].len ELSE DefaultLen

GetSize(t, k) ==
  /\ reader[t].at = "idle"
  /\ reader' = [reader EXCEPT ![t] = [IdleReader EXCEPT !.at = "read", !.key = k, !.size = CachedLen(k)]]
  /\ UNCHANGED <<cache, pending, leaked, file, cli, crashes>>

Shorter(m, n) == IF m < n THEN m ELSE n

\* pvGetDataReadPtr: a pointer to the heap block or to the pointer itself; for
\* a key that is not set, xReadEntryOrDefault copies the default.
GetString(t) ==
  LET r == reader[t]
      e == cache[r.key]
  IN  /\ r.at = "read"
      /\ reader' = [reader EXCEPT ![t] =
                     IF e.set
                       THEN [r EXCEPT !.at = "length",
                                      !.room = IF e.len > Inline THEN e.block ELSE Inline]
                       ELSE [r EXCEPT !.at = "copy", !.room = DefaultLen, !.len = Shorter(r.size, DefaultLen)]]
      /\ UNCHANGED <<cache, pending, leaked, file, cli, crashes>>

\* xprvCopyValueFromCache: xDataLen, truncated to the size of the buffer
GetLength(t) ==
  /\ reader[t].at = "length"
  /\ reader' = [reader EXCEPT ![t].at = "copy",
                              ![t].len = Shorter(reader[t].size, cache[reader[t].key].len)]
  /\ UNCHANGED <<cache, pending, leaked, file, cli, crashes>>

\* ... and the memcpy
GetCopy(t) ==
  /\ reader[t].at = "copy"
  /\ reader' = [reader EXCEPT ![t] = IdleReader]
  /\ UNCHANGED <<cache, pending, leaked, file, cli, crashes>>

-----------------------------------------------------------------------------
(* Boot.                                                                   *)

\* lfs_stat's size, and the length that xprvGetValueLengthFromImpl makes of it.
FileSize(f) == IF f = Empty THEN 0 ELSE HeaderSize + f.len
GetValueLengthFromImpl(f) ==
  IF f = NoFile THEN 0 ELSE (FileSize(f) - HeaderSize + SizeLimit) % SizeLimit

\* vprvCacheInit: the entry that is read from the file.
Loaded(f) ==
  IF GetValueLengthFromImpl(f) \in 1 .. MaxLen
    THEN Copied(Allocated(GetValueLengthFromImpl(f)), f)
    ELSE NoEntry

\* A length that no heap can hold: configASSERT in pvGetDataWritePtr.
CannotLoad(f) == GetValueLengthFromImpl(f) > MaxLen

\* KVStore_init
LoadAll ==
  /\ cache' = [k \in Keys |-> Loaded(file[k])]
  /\ pending' = [k \in Keys |-> FALSE]
  /\ halted' = \E k \in Keys : CannotLoad(file[k])

\* Power fails and comes back.
Restart ==
  /\ crashes < MaxCrashes
  /\ crashes' = crashes + 1
  /\ LoadAll
  /\ cli' = IdleCli
  /\ reader' = [t \in Readers |-> IdleReader]
  /\ leaked' = FALSE
  /\ UNCHANGED file

Init ==
  /\ file \in [Keys -> Value \cup {NoFile}]
  /\ \A k \in Keys : file[k] # NoFile <=> k \in Provisioned
  /\ cache = [k \in Keys |-> Loaded(file[k])]
  /\ pending = [k \in Keys |-> FALSE]
  /\ leaked = FALSE /\ cli = IdleCli /\ reader = [t \in Readers |-> IdleReader]
  /\ crashes = 0 /\ halted = FALSE

CliStep ==
  \/ \E k \in Keys, v \in Value : SetEntry(k, v)
  \/ SetCopy
  \/ CommitStart \/ (\E k \in Keys : CommitOpen(k)) \/ CommitWrite
  \/ CommitSync \/ CommitRemove \/ CommitDone \/ CommitReturns

ReaderStep(t) ==
  (\E k \in Keys : GetSize(t, k)) \/ GetString(t) \/ GetLength(t) \/ GetCopy(t)

Next ==
  \/ ~halted /\ halted' = halted /\ (CliStep \/ \E t \in Readers : ReaderStep(t))
  \/ Restart

Spec == Init /\ [][Next]_vars

-----------------------------------------------------------------------------
(* Properties.                                                             *)

Staged(k) ==
  IF cli.at = "copy" /\ cli.key = k THEN cli.value
  ELSE IF cache[k].set THEN Cached(k) ELSE Unset

Saved(k) == IF file[k] \in Value THEN file[k] ELSE Unset

CS == INSTANCE ConfigStore WITH
        MayFail <- WritesFail, ok <- cli.success,
        staged <- [k \in Keys |-> Staged(k)], saved <- [k \in Keys |-> Saved(k)]

\* The store implements ConfigStore: whatever is set, committed and cut off
\* by a power failure, between any two steps of a commit, a restart brings
\* back committed values only, and a committed value is lost only by a commit
\* that has failed and reports it.
StoreSpec == CS!CSSpec

\* xprvWriteCacheEntry, KVStore_xCommitChanges: a value that is not marked as
\* changed is the one in flash, so that a commit may skip it.
CleanIsSaved == \A k \in Keys : ~pending[k] => Staged(k) = Saved(k)

\* KVStore_xCommitChanges: of all that can go wrong with any of the files of
\* a commit, only a failed synchronisation goes unreported; every other value
\* of the cache is in flash when the commit returns success, those that were
\* not marked included.
OnlySyncIsSilent ==
  cli.at = "done" /\ cli.success =>
    \A k \in Keys : Staged(k) = Saved(k) \/ k \in cli.unsynced

\* pvGetDataWritePtr: after any sequence of longer and shorter values, a long
\* value has a heap buffer that it fits into.  KVStore_getStringHeap: a value
\* that grew after its size was asked for does not overrun the caller's buffer.
NoOverrun ==
  /\ \A k \in Keys : cache[k].len > Inline => cache[k].block >= cache[k].len
  /\ \A t \in Readers : reader[t].at = "copy" => reader[t].len <= reader[t].size

\* vSubCommand_CommitConfig prints "Configuration saved to NVM.": every value
\* of the cache is in flash.
CommitTellsTruth ==
  cli.at = "done" /\ cli.success => \A k \in Keys : Staged(k) = Saved(k)

\* xprvCopyValueFromCache: the value is read from inside its buffer.
ReadStaysInside == \A t \in Readers : reader[t].at = "copy" => reader[t].len <= reader[t].room

\* The comment on xprvGetValueLengthFromImpl: it returns the length of the
\* stored value, or 0 if there is none.
LengthIsStored ==
  cli.at = "idle" => \A k \in Keys :
    GetValueLengthFromImpl(file[k]) = IF file[k] \in Value THEN file[k].len ELSE 0

\* The comment in vReallocDataBuffer: the buffer of a longer value is used
\* again for a shorter one, not lost.
BufferReused == ~leaked

=============================================================================
