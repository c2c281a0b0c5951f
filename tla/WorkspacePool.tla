----------------------------- MODULE WorkspacePool -----------------------------
(***************************************************************************)
(* The pool of revision workspaces (src/revision_workspace.cpp): Git       *)
(* worktrees, sparse or full, that extractions lease, under limits on      *)
(* their number, their bytes and the space that must stay free.            *)
(* One step is one locked method call; `holds' are the Lease objects.      *)
(***************************************************************************)
EXTENDS LeastRecentlyUsed, Functions

CONSTANTS
  Key,           \* the (repository, revision) pairs
  File,          \* the paths of their trees
  Size,          \* bytes of each file
  Client,        \* threads that lease workspaces
  MaxRevisions,  \* limits_.max_revisions
  MaxPoolBytes,  \* limits_.max_bytes
  Reserve,       \* limits_.free_space_reserve_bytes
  Capacity,      \* bytes of the file system
  MaxOutside,    \* bound on what others store there
  MaxPoolFaults  \* bound on restarts and failing git commands

ASSUME PoolAssumption ==
  /\ IsFiniteSet(Key) /\ IsFiniteSet(File) /\ IsFiniteSet(Client)
  /\ Size \in [File -> Nat]
  /\ {MaxRevisions, MaxPoolBytes} \subseteq Nat \ {0}
  /\ {Reserve, Capacity, MaxOutside, MaxPoolFaults} \subseteq Nat

VARIABLES
  pool,     \* entries_: key -> files, estimated bytes, leases, full
  older,    \* by last_used: the pairs of keys, the older one first
  account,  \* estimated_bytes_
  disk,     \* what each worktree directory contains
  stuck,    \* directories that git cannot remove at the moment
  outside,  \* bytes others have stored on the file system
  holds,    \* the leases: per client a set of key and files it relies on
  faults

poolVars == <<pool, older, account, disk, stuck, outside, holds, faults>>

BytesIn == [S \in SUBSET File |-> SumFunctionOnSet(Size, S)]
Bytes(S) == BytesIn[S]
BytesOf(p, S) == SumFunctionOnSet([k \in S |-> p[k].bytes], S)
OnDisk(d) == SumFunctionOnSet([k \in Key |-> Bytes(d[k])], Key)

Free(d) == LET left == Capacity - outside - OnDisk(d)
           IN IF left > 0 THEN left ELSE 0

PoolInit ==
  /\ pool = << >> /\ older = {} /\ account = 0
  /\ disk = [k \in Key |-> {}] /\ stuck = {} /\ outside = 0
  /\ holds = [c \in Client |-> {}] /\ faults = 0

-----------------------------------------------------------------------------
(* Eviction.  remove_entry ignores the exit code of git: the entry and its *)
(* bytes are gone whether or not the directory is.                         *)
Emptied(d, K) == [k \in Key |-> IF k \in K \ stuck THEN {} ELSE d[k]]
Without(p, K) == [k \in DOMAIN p \ K |-> p[k]]

\* Mutated form: without the free-space reserve.
FitsWithoutReserve(K, bytes, entries) ==
  /\ account - BytesOf(pool, K) <= MaxPoolBytes - bytes
  /\ Cardinality(DOMAIN pool \ K) + entries <= MaxRevisions

Fits(K, bytes, entries) ==
  /\ bytes <= MaxPoolBytes /\ account - BytesOf(pool, K) <= MaxPoolBytes - bytes
  /\ Cardinality(DOMAIN pool \ K) + entries <= MaxRevisions
  /\ Free(Emptied(disk, K)) >= bytes + Reserve

\* Mutated form: leased workspaces too.
IdleOrLeased(key) == DOMAIN pool \ {key}

(* evict_for removes idle workspaces, the least recently used first, until *)
(* the request fits, or all of them and then throws.                       *)
Idle(key) == {k \in DOMAIN pool \ {key} : pool[k].leases = 0}
Enough(key, bytes, entries) ==
  {K \in OldestOf(Idle(key), older) : Fits(K, bytes, entries)}
Victims(key, bytes, entries) ==
  LET fit == Enough(key, bytes, entries)
  IN IF fit = {} THEN Idle(key) ELSE Fewest(fit)

Used(key, K) == OrderAfterUse(older, DOMAIN pool \ K, key)
\* Mutated form: a removed entry keeps its place.
LeftUnchanged(K) == older

Left(K) == OrderWithin(older, DOMAIN pool \ K)

(* Nothing but the evictions of a call that throws afterwards.             *)
OnlyEvict(K, d) ==
  /\ pool' = Without(pool, K) /\ older' = Left(K)
  /\ account' = account - BytesOf(pool, K) /\ disk' = d

-----------------------------------------------------------------------------
Need(files, full) == IF full THEN File ELSE files
Growth(k, want) == LET more == Bytes(want) - pool[k].bytes
                   IN IF more > 0 THEN more ELSE 0

(* The request exceeds a limit even with every idle workspace removed: the *)
(* call throws, the workspaces are removed all the same.                   *)
Refused(key, bytes, entries) ==
  /\ Enough(key, bytes, entries) = {}
  /\ LET K == Victims(key, bytes, entries) IN OnlyEvict(K, Emptied(disk, K))
  /\ UNCHANGED <<holds, faults>>

RefuseNew(key, files, full) ==
  key \notin DOMAIN pool /\ Refused(key, Bytes(Need(files, full)), 1)

(* A workspace is materialized.  A directory of an earlier process is      *)
(* removed first; when that fails, so does `git worktree add'.             *)
AcquireNew(c, key, files, full) ==
  LET want == Need(files, full)
      K == Victims(key, Bytes(want), 1) IN
  /\ key \notin DOMAIN pool /\ Enough(key, Bytes(want), 1) # {}
  /\ key \in stuck => disk[key] = {}
  /\ pool' = [k \in (DOMAIN pool \ K) \cup {key} |->
                IF k = key THEN [files |-> files, bytes |-> Bytes(want),
                                 leases |-> 1, full |-> full]
                ELSE pool[k]]
  /\ older' = Used(key, K)
  /\ account' = account - BytesOf(pool, K) + Bytes(want)
  /\ disk' = [Emptied(disk, K) EXCEPT ![key] = want]
  /\ holds' = [holds EXCEPT ![c] = @ \cup {[key |-> key, files |-> want]}]
  /\ UNCHANGED faults

(* `git worktree add' fails, or populating fails and is cleaned up.        *)
AcquireFails(key, files, full) ==
  LET bytes == Bytes(Need(files, full))
      K == Victims(key, bytes, 1) IN
  /\ key \notin DOMAIN pool /\ Enough(key, bytes, 1) # {}
  /\ \/ key \in stuck /\ disk[key] # {} /\ UNCHANGED faults
     \/ faults < MaxPoolFaults /\ faults' = faults + 1
  /\ OnlyEvict(K, Emptied(disk, K \cup {key}))
  /\ UNCHANGED holds

(* A second lease of a live workspace, which is expanded when it lacks     *)
(* something; full workspaces are taken as they are, without an eviction.  *)
Wanted(key, files, full) ==
  IF full THEN File ELSE files \cup pool[key].files

Expands(key, files, full) == full \/ ~ (files \subseteq pool[key].files)

RefuseMore(key, files, full) ==
  /\ key \in DOMAIN pool /\ ~pool[key].full
  /\ Refused(key, Growth(key, Wanted(key, files, full)), 0)

\* Mutated form: the entry keeps its old byte estimate.
GrownForgetting(key, files, full) ==
  [files |-> IF full THEN pool[key].files ELSE Wanted(key, files, full),
   bytes |-> pool[key].bytes, leases |-> pool[key].leases, full |-> full]

Grown(key, files, full) ==
  LET want == Wanted(key, files, full) IN
  IF ~Expands(key, files, full) THEN pool[key]
  ELSE [files |-> IF full THEN pool[key].files ELSE want, bytes |-> Bytes(want),
        leases |-> pool[key].leases, full |-> full]

AcquireShared(c, key, files, full) ==
  /\ key \in DOMAIN pool /\ ~pool[key].full
  /\ LET want == Wanted(key, files, full)
         K == Victims(key, Growth(key, want), 0)
         entry == Grown(key, files, full) IN
     /\ Enough(key, Growth(key, want), 0) # {}
     /\ pool' = [Without(pool, K) EXCEPT ![key] = [entry EXCEPT !.leases = @ + 1]]
     /\ older' = Used(key, K)
     /\ account' = account - BytesOf(pool, K)
                     + IF Expands(key, files, full) THEN Growth(key, want) ELSE 0
     /\ disk' = [Emptied(disk, K) EXCEPT ![key] = @ \cup want]
     /\ holds' = [holds EXCEPT ![c] = @ \cup {[key |-> key, files |-> want]}]
  /\ UNCHANGED faults

ExpandFails(key, files, full) ==
  /\ key \in DOMAIN pool /\ ~pool[key].full /\ Expands(key, files, full)
  /\ faults < MaxPoolFaults /\ faults' = faults + 1
  /\ LET more == Growth(key, Wanted(key, files, full)) IN
     /\ Enough(key, more, 0) # {}
     /\ OnlyEvict(Victims(key, more, 0), Emptied(disk, Victims(key, more, 0)))
  /\ UNCHANGED holds

AcquireFull(c, key) ==
  /\ key \in DOMAIN pool /\ pool[key].full
  /\ pool' = [pool EXCEPT ![key].leases = @ + 1]
  /\ older' = Used(key, {})
  /\ holds' = [holds EXCEPT ![c] = @ \cup {[key |-> key, files |-> File]}]
  /\ UNCHANGED <<account, disk, faults>>

Acquire(c, key, files, full) ==
  /\ \A lease \in holds[c] : lease.key # key
  /\ \/ RefuseNew(key, files, full) \/ AcquireNew(c, key, files, full)
     \/ AcquireFails(key, files, full) \/ RefuseMore(key, files, full)
     \/ AcquireShared(c, key, files, full) \/ ExpandFails(key, files, full)
     \/ AcquireFull(c, key)
  /\ UNCHANGED <<stuck, outside>>

(* A lease ends: a full workspace goes with its last lease.                *)
Release(c, lease) ==
  LET key == lease.key
      last == pool[key].full /\ pool[key].leases = 1 IN
  /\ lease \in holds[c]
  /\ holds' = [holds EXCEPT ![c] = @ \ {lease}]
  /\ IF last
     THEN OnlyEvict({key}, Emptied(disk, {key}))
     ELSE /\ pool' = [pool EXCEPT ![key].leases = @ - 1]
          /\ older' = Used(key, {})
          /\ UNCHANGED <<account, disk>>
  /\ UNCHANGED <<stuck, outside, faults>>

(* The process ends without its destructors and is started again: the      *)
(* directories stay, the new pool does not know them.                      *)
Restart ==
  /\ faults < MaxPoolFaults /\ faults' = faults + 1
  /\ pool' = << >> /\ older' = {} /\ account' = 0
  /\ holds' = [c \in Client |-> {}]
  /\ UNCHANGED <<disk, stuck, outside>>

(* The pool's destructor, after the last lease.                            *)
Shutdown ==
  /\ DOMAIN pool # {} /\ \A c \in Client : holds[c] = {}
  /\ OnlyEvict(DOMAIN pool, Emptied(disk, DOMAIN pool))
  /\ UNCHANGED <<stuck, outside, holds, faults>>

(* The file system: others store or remove files, a directory is in use.   *)
Outside ==
  /\ outside' \in {n \in 0 .. MaxOutside : n # outside}
  /\ outside' + OnDisk(disk) <= Capacity
  /\ UNCHANGED <<pool, older, account, disk, stuck, holds, faults>>

Stick(k) ==
  /\ stuck' = IF k \in stuck THEN stuck \ {k} ELSE stuck \cup {k}
  /\ k \in stuck \/ faults < MaxPoolFaults
  /\ faults' = IF k \in stuck THEN faults ELSE faults + 1
  /\ UNCHANGED <<pool, older, account, disk, outside, holds>>

(* A request names files or, here with none, asks for the full tree, for   *)
(* which the files it names as well make no difference.                    *)
PoolNext ==
  \/ \E c \in Client, key \in Key, files \in SUBSET File :
       Acquire(c, key, files, files = {})
  \/ \E c \in Client : \E lease \in holds[c] : Release(c, lease)
  \/ Restart \/ Shutdown \/ Outside \/ \E k \in Key : Stick(k)

PoolSpec == PoolInit /\ [][PoolNext]_poolVars
-----------------------------------------------------------------------------
PoolTypeOK ==
  /\ DOMAIN pool \subseteq Key
  /\ \A k \in DOMAIN pool :
       pool[k] \in [files : SUBSET File, bytes : Nat, leases : Nat, full : BOOLEAN]
  /\ OrdersUse(older, DOMAIN pool)
  /\ account \in Nat
  /\ disk \in [Key -> SUBSET File] /\ stuck \subseteq Key
  /\ outside \in Nat /\ faults \in 0 .. MaxPoolFaults
  /\ holds \in [Client -> SUBSET [key : Key, files : SUBSET File]]

(* Whoever has a lease finds every file asked for, whatever others lease,  *)
(* expand, fail to expand, evict or release meanwhile.                     *)
LeasedFilesAreThere ==
  \A c \in Client : \A lease \in holds[c] :
    lease.key \in DOMAIN pool /\ lease.files \subseteq disk[lease.key]

Holders(k) == {c \in Client : \E lease \in holds[c] : lease.key = k}

(* The lease counts are those of the Lease objects, so an idle entry is    *)
(* one that nobody uses; a full workspace does not outlive its last lease. *)
LeasesAreCounted ==
  \A k \in DOMAIN pool :
    /\ pool[k].leases = Cardinality(Holders(k))
    /\ pool[k].full => pool[k].leases > 0

(* The books of the pool: besides the leases, the byte account is what the *)
(* workspaces occupy, after any failed step, and never exceeds its limit.  *)
AccountIsRight ==
  /\ LeasesAreCounted
  /\ account = SumFunctionOnSet([k \in DOMAIN pool |-> Bytes(disk[k])], DOMAIN pool)
  /\ account <= MaxPoolBytes /\ Cardinality(DOMAIN pool) <= MaxRevisions

(* Whenever the pool puts a file on the file system, the reserve is free   *)
(* afterwards, whatever others have stored there.                          *)
ReserveStaysFree ==
  [][(\E k \in Key : ~(disk'[k] \subseteq disk[k])) => Free(disk') >= Reserve]_poolVars
=============================================================================
