---------------------------- MODULE CacheService ----------------------------
(***************************************************************************)
(* The cache of one repository: the handlers of internal/cachesvc, the     *)
(* chunked upload of internal/blob they write through, and the table       *)
(* cache_entries.  Chunks of one archive come concurrently, in any order   *)
(* and more than once; the open uploads are in memory and die with the     *)
(* control plane.  A byte of an archive is its position, so an archive is  *)
(* whole when it is exactly 0 .. size - 1.                                 *)
(***************************************************************************)
EXTENDS Integers, FiniteSetsExt, SequencesExt

CONSTANTS
  CacheToken,     \* job tokens: records with ref, read and write
  CacheKey,       \* the keys jobs ask for: sequences, so that one may extend another
  DefaultRef,     \* the ref of the repository's default branch
  Chunk,          \* the chunks sent, <<offset, length>>
  DeclaredSize,   \* the sizes a commit declares, a negative one for no size at all
  MaxEntryBytes,  \* the limit of one archive
  RepoQuota,      \* RepoQuotaBytes
  MaxCaches,      \* bound on the entries that are reserved
  MaxTouches,     \* bound on the accesses recorded
  MaxCacheFaults  \* bound on storage errors and restarts

ASSUME CacheAssumption ==
  /\ CacheToken \subseteq [ref : STRING, read : BOOLEAN, write : BOOLEAN]
  /\ Chunk \subseteq Nat \X (Nat \ {0})
  /\ DeclaredSize \subseteq Int
  /\ {MaxEntryBytes, RepoQuota} \subseteq Nat \ {0}
  /\ {MaxCaches, MaxTouches, MaxCacheFaults} \subseteq Nat

VARIABLES
  row,         \* cache_entries: per id, the columns of its row
  up,          \* the chunked upload of an entry
  object,      \* the bytes under the entry's storage key
  parts,       \* the chunks staged apart, for a driver that cannot write at an offset
  patches,     \* chunk requests that have looked their upload up
  commit,      \* the commit of an entry: where its handler stands, and what it evicts
  cacheClock,  \* created_at and last_accessed are read off it
  staging,     \* the driver has no PutAt
  faults       \* faults so far

cacheVars == <<row, up, object, parts, patches, commit, cacheClock, staging, faults>>

Entries == DOMAIN row
Live(id) == row[id].live
Stored(id) == Live(id) /\ row[id].finalized
NoUpload == [open |-> FALSE, ranges |-> <<>>, written |-> 0, done |-> FALSE]
NoCommit == [at |-> "none", declared |-> 0, size |-> 0, evicts |-> {}]

CacheInit ==
  /\ row = <<>> /\ up = <<>> /\ object = <<>> /\ parts = <<>> /\ commit = <<>>
  /\ patches = {} /\ cacheClock = 0 /\ faults = 0
  /\ staging \in BOOLEAN

Fault ==
  /\ faults < MaxCacheFaults
  /\ faults' = faults + 1
NoFault == UNCHANGED faults

(***************************************************************************)
(* blob.ChunkedUpload.  Each call holds the upload's lock throughout.      *)
(***************************************************************************)
Bytes(c) == c[1] .. c[1] + c[2] - 1

\* The part of a chunk the limit lets through: one byte past the budget proves
\* that the budget was exceeded.
Clip(u, c) == <<c[1], Min({c[2], Max({MaxEntryBytes - u.written, 0}) + 1})>>

\* A slip to guard against: a commit adds the lengths up and looks for no overlap.
CoverageBySum(u) == FoldSeq(LAMBDA r, n : r[2] + n, 0, u.ranges)

\* coverage(): in the order of their offsets the ranges leave no gap and no
\* overlap.
Covered(u) == UNION {Bytes(r) : r \in ToSet(u.ranges)}
NoOverlap(u) ==
  \A i, j \in DOMAIN u.ranges : i # j => Bytes(u.ranges[i]) \cap Bytes(u.ranges[j]) = {}
Coverage(u) ==
  LET size == Max(Covered(u)) + 1 IN
  IF NoOverlap(u) /\ Covered(u) = 0 .. size - 1 THEN size ELSE -1

WriteRange(id, c) ==
  /\ ~up[id].done
  /\ LET w == Clip(up[id], c) IN
     \/ /\ up' = [up EXCEPT ![id].ranges = Append(@, w), ![id].written = @ + w[2]]
        /\ IF staging
           THEN parts' = [parts EXCEPT ![id] = {p \in @ : p[1] # w[1]} \union {w}]
                /\ UNCHANGED object
           ELSE object' = [object EXCEPT ![id] = @ \union Bytes(w)] /\ UNCHANGED parts
        /\ NoFault
     \* The write fails, perhaps after its first byte, and is not recorded.
     \/ /\ ~staging
        /\ object' = [object EXCEPT ![id] = @ \union {w[1]}]
        /\ Fault
        /\ UNCHANGED <<up, parts>>

\* The ranges cover what was declared, or just something where the declared size
\* is negative, and a driver that wrote in place holds as many bytes.
Committable(id) ==
  /\ up[id].ranges # <<>>
  /\ Coverage(up[id]) # -1
  /\ commit[id].declared >= 0 => Coverage(up[id]) = commit[id].declared
  /\ ~staging => Max(object[id]) + 1 = Coverage(up[id])

CommitUpload(id) ==
  /\ IF staging
     THEN /\ object' = [object EXCEPT ![id] = UNION {Bytes(p) : p \in parts[id]}]
          /\ parts' = [parts EXCEPT ![id] = {}]
     ELSE UNCHANGED <<object, parts>>
  /\ up' = [up EXCEPT ![id].done = TRUE]

AbortUpload(id) ==
  /\ up' = [up EXCEPT ![id].done = TRUE, ![id].ranges = <<>>]
  /\ parts' = [parts EXCEPT ![id] = {}]
  /\ object' = IF staging \/ up[id].ranges = <<>> THEN object ELSE [object EXCEPT ![id] = {}]

(***************************************************************************)
(* Reserve, upload, commit.                                                *)
(***************************************************************************)
HandleReserve(t, k) ==
  /\ t.write
  /\ Len(row) < MaxCaches
  /\ row' = Append(row, [key |-> k, ref |-> t.ref, size |-> 0, finalized |-> FALSE,
                         used |-> cacheClock, live |-> TRUE])
  /\ up' = Append(up, [NoUpload EXCEPT !.open = TRUE])
  /\ object' = Append(object, {}) /\ parts' = Append(parts, {})
  /\ commit' = Append(commit, NoCommit)
  /\ UNCHANGED <<patches, cacheClock, staging, faults>>

\* handleUpload looks the upload up under the service's lock and lets go of it.
TakePatch(t, id, c) ==
  /\ t.write /\ Live(id) /\ up[id].open
  /\ <<id, c>> \notin patches
  /\ Len(up[id].ranges) + Cardinality(patches) < 3
  /\ patches' = patches \union {<<id, c>>}
  /\ UNCHANGED <<row, up, object, parts, commit, cacheClock, staging, faults>>

WritePatch(id, c) ==
  /\ <<id, c>> \in patches
  /\ patches' = patches \ {<<id, c>>}
  /\ \/ WriteRange(id, c)
     \/ (up[id].done /\ UNCHANGED <<up, object, parts, faults>>)
  /\ UNCHANGED <<row, commit, cacheClock, staging>>

\* handleCommit takes the upload out of the map before it commits it.
HandleCommit(t, id, size) ==
  /\ t.write /\ Live(id) /\ up[id].open
  /\ up' = [up EXCEPT ![id].open = FALSE]
  /\ commit' = [commit EXCEPT ![id] = [NoCommit EXCEPT !.at = "upload", !.declared = size]]
  /\ UNCHANGED <<row, object, parts, patches, cacheClock, staging, faults>>

CommitStores(id) ==
  /\ commit[id].at = "upload"
  /\ \/ /\ Committable(id)
        /\ CommitUpload(id)
        /\ commit' = [commit EXCEPT ![id].at = "finalize", ![id].size = Coverage(up[id])]
        /\ NoFault
     \* A bad archive, or an error of the driver.
     \/ /\ IF Committable(id) THEN Fault ELSE NoFault
        /\ commit' = [commit EXCEPT ![id].at = "abort"]
        /\ UNCHANGED <<up, object, parts>>
  /\ UNCHANGED <<row, patches, cacheClock, staging>>

CommitAborts(id) ==
  /\ commit[id].at = "abort"
  /\ AbortUpload(id)
  /\ commit' = [commit EXCEPT ![id] = NoCommit]
  /\ UNCHANGED <<row, patches, cacheClock, staging, faults>>

FinalizeCache(id) ==
  /\ commit[id].at = "finalize"
  /\ \/ /\ row' = [row EXCEPT ![id].size = commit[id].size, ![id].finalized = TRUE]
        /\ commit' = [commit EXCEPT ![id].at = "evict"]
        /\ NoFault
     \/ /\ Fault
        /\ commit' = [commit EXCEPT ![id] = NoCommit]
        /\ UNCHANGED row
  /\ UNCHANGED <<up, object, parts, patches, cacheClock, staging>>

(***************************************************************************)
(* Eviction: the rows go in one transaction, the archives one by one after *)
(* it.  A commit that finds its own entry evicted ends with an error.      *)
(***************************************************************************)
Usage(ids) == FoldSet(LAMBDA id, n : row[id].size + n, 0, ids)

\* The shortest beginning of the entries in the order of their last access whose
\* removal brings the rest under the quota.
Older(i, j) == row[i].used < row[j].used \/ (row[i].used = row[j].used /\ i < j)
EvictCaches ==
  LET stored == {id \in Entries : Stored(id)}
      From(id) == {j \in stored : ~Older(j, id)}
  IN  {id \in stored : Usage(From(id)) > RepoQuota}

EvictRows(id) ==
  /\ commit[id].at = "evict"
  /\ IF Live(id)
     THEN /\ row' = [j \in Entries |-> IF j \in EvictCaches THEN [row[j] EXCEPT !.live = FALSE]
                                                            ELSE row[j]]
          /\ commit' = [commit EXCEPT ![id].at = "delete", ![id].evicts = EvictCaches]
     ELSE commit' = [commit EXCEPT ![id] = NoCommit] /\ UNCHANGED row
  /\ UNCHANGED <<up, object, parts, patches, cacheClock, staging, faults>>

EvictArchive(id) ==
  /\ commit[id].at = "delete"
  /\ IF commit[id].evicts = {}
     THEN commit' = [commit EXCEPT ![id] = NoCommit] /\ UNCHANGED <<object, faults>>
     ELSE LET e == CHOOSE j \in commit[id].evicts : \A k \in commit[id].evicts : ~Older(k, j) IN
          /\ commit' = [commit EXCEPT ![id].evicts = @ \ {e}]
          /\ \/ object' = [object EXCEPT ![e] = {}] /\ NoFault
             \/ Fault /\ UNCHANGED object
  /\ UNCHANGED <<row, up, parts, patches, cacheClock, staging>>

(***************************************************************************)
(* Lookup: the exact key, then each restore key as a prefix, the newest    *)
(* entry of a key.  The ref is checked after the row is chosen.            *)
(***************************************************************************)
Newest(ids) == IF ids = {} THEN 0 ELSE Max(ids)
LookupCache(k, restore) ==
  LET exact  == Newest({id \in Entries : Stored(id) /\ row[id].key = k})
      prefix == Newest({id \in Entries : Stored(id) /\ IsPrefix(restore, row[id].key)})
  IN  IF exact # 0 THEN exact ELSE prefix

RefAllowed(t, id) == row[id].ref \in {t.ref, DefaultRef}

TouchCache(id) == row' = [row EXCEPT ![id].used = cacheClock']

HandleLookup(t, k, restore) ==
  LET id == LookupCache(k, restore) IN
  /\ t.read
  /\ id # 0 /\ RefAllowed(t, id)
  /\ cacheClock < MaxTouches
  /\ cacheClock' = cacheClock + 1
  /\ TouchCache(id)
  /\ UNCHANGED <<up, object, parts, patches, commit, staging, faults>>

\* The control plane restarts: open uploads and the calls under way are lost.
CacheRestart ==
  /\ \E id \in Entries : up[id].open \/ commit[id].at # "none"
  /\ Fault
  /\ up' = [id \in Entries |-> [up[id] EXCEPT !.open = FALSE]]
  /\ commit' = [id \in Entries |-> NoCommit]
  /\ patches' = {}
  /\ UNCHANGED <<row, object, parts, cacheClock, staging>>

CacheNext ==
  \/ \E t \in CacheToken, k \in CacheKey : HandleReserve(t, k)
  \/ \E t \in CacheToken, id \in Entries, c \in Chunk : TakePatch(t, id, c)
  \/ \E id \in Entries, c \in Chunk : WritePatch(id, c)
  \/ \E t \in CacheToken, id \in Entries, size \in DeclaredSize : HandleCommit(t, id, size)
  \/ \E id \in Entries : CommitStores(id)
  \/ \E id \in Entries : CommitAborts(id)
  \/ \E id \in Entries : FinalizeCache(id)
  \/ \E id \in Entries : EvictRows(id)
  \/ \E id \in Entries : EvictArchive(id)
  \/ \E t \in CacheToken, k, restore \in CacheKey : HandleLookup(t, k, restore)
  \/ CacheRestart

\* What a lookup can hand out is a whole archive of the size its row states,
\* whatever chunks are still under way, came twice or came after the commit.
\* An entry being evicted is no longer found, and may lose its archive.
ServedArchivesWhole ==
  \A id \in Entries : Stored(id) => object[id] = 0 .. row[id].size - 1
=============================================================================
