---------------------------- MODULE ExecutionProofs ----------------------------
(***************************************************************************)
(* Proofs about what a task is executed with: the pool of revision         *)
(* workspaces (module WorkspacePool), what a lease promises, the books of  *)
(* the pool and the reserve; and the processes that run in them (module    *)
(* ChildProcess), for every length of a child's output and every limit.    *)
(***************************************************************************)
EXTENDS WorkspacePool, ChildProcess, FoldLemmas

-----------------------------------------------------------------------------
(* The inductive invariant.                                                *)
Entry == [files : SUBSET File, bytes : Nat, leases : Nat, full : BOOLEAN]
LeaseObject == [key : Key, files : SUBSET File]

OneLeaseEach ==
  \A c \in Client : \A l, m \in holds[c] : l.key = m.key => l = m

(* What an entry says of its directory.                                    *)
Describes(e, files) ==
  /\ e.bytes = Bytes(files)
  /\ e.full => files = File
  /\ ~e.full => files = e.files

EntriesDescribeDisk == \A k \in DOMAIN pool : Describes(pool[k], disk[k])

AccountInv ==
  /\ account = BytesOf(pool, DOMAIN pool)
  /\ account <= MaxPoolBytes /\ Cardinality(DOMAIN pool) <= MaxRevisions

PoolInv ==
  /\ PoolTypeOK /\ OneLeaseEach /\ LeasesAreCounted /\ LeasedFilesAreThere
  /\ EntriesDescribeDisk /\ AccountInv

-----------------------------------------------------------------------------
(* Sums of bytes.                                                          *)
LEMMA BytesType == ASSUME NEW S \in SUBSET File PROVE Bytes(S) \in Nat
<1>1. IsFiniteSet(S) /\ \A f \in S : Size[f] \in Nat
  BY PoolAssumption, FS_Subset
<1>2. SumFunctionOnSet(Size, S) \in Nat
  BY <1>1, SumType
<1> QED  BY <1>2 DEF Bytes, BytesIn

LEMMA BytesGrow ==
  ASSUME NEW T \in SUBSET File, NEW S \in SUBSET T PROVE Bytes(S) <= Bytes(T)
<1>1. IsFiniteSet(T) /\ \A f \in T : Size[f] \in Nat
  BY PoolAssumption, FS_Subset
<1>2. /\ SumFunctionOnSet(Size, T) =
           SumFunctionOnSet(Size, T \ S) + SumFunctionOnSet(Size, S)
      /\ SumFunctionOnSet(Size, S) \in Nat /\ SumFunctionOnSet(Size, T \ S) \in Nat
  BY <1>1, SumSplit
<1>3. Bytes(S) = SumFunctionOnSet(Size, S) /\ Bytes(T) = SumFunctionOnSet(Size, T)
  BY DEF Bytes, BytesIn
<1> QED  BY <1>2, <1>3

LEMMA BytesOfSame ==
  ASSUME NEW p, NEW q, NEW S, IsFiniteSet(S), \A k \in S : p[k].bytes = q[k].bytes
  PROVE  BytesOf(p, S) = BytesOf(q, S)
<1>1. [k \in S |-> p[k].bytes] = [k \in S |-> q[k].bytes]
  OBVIOUS
<1> QED  BY <1>1 DEF BytesOf

LEMMA BytesOfSplit ==
  ASSUME NEW p, NEW S, IsFiniteSet(S), \A k \in S : p[k].bytes \in Nat,
         NEW K \in SUBSET S
  PROVE  /\ BytesOf(p, S) = BytesOf(p, S \ K) + BytesOf(p, K)
         /\ BytesOf(p, S \ K) \in Nat /\ BytesOf(p, K) \in Nat
<1> DEFINE f == [k \in S |-> p[k].bytes]
<1>1. \A T \in SUBSET S : IsFiniteSet(T)
  BY FS_Subset
<1>2. \A T \in SUBSET S : BytesOf(p, T) = SumFunctionOnSet(f, T)
  <2> SUFFICES ASSUME NEW T \in SUBSET S PROVE BytesOf(p, T) = SumFunctionOnSet(f, T)
    OBVIOUS
  <2> DEFINE g == [k \in T |-> p[k].bytes]
  <2>1. \A k \in T : g[k] = f[k]
    OBVIOUS
  <2> HIDE DEF f, g
  <2>2. SumFunctionOnSet(g, T) = SumFunctionOnSet(f, T)
    BY <1>1, <2>1, SumSame
  <2> QED  BY <2>2 DEF BytesOf, g
<1>3. \A k \in S : f[k] \in Nat
  OBVIOUS
<1> HIDE DEF f
<1>4. /\ SumFunctionOnSet(f, S) = SumFunctionOnSet(f, S \ K) + SumFunctionOnSet(f, K)
      /\ SumFunctionOnSet(f, S \ K) \in Nat /\ SumFunctionOnSet(f, K) \in Nat
  BY <1>3, SumSplit
<1> QED  BY <1>2, <1>4

LEMMA BytesOfOne ==
  ASSUME NEW p, NEW k, p[k].bytes \in Nat
  PROVE  BytesOf(p, {k}) = p[k].bytes
<1> DEFINE f == [l \in {k} |-> p[l].bytes]
<1>1. IsFiniteSet({k}) /\ {k} \ {k} = {} /\ f[k] = p[k].bytes /\ \A l \in {k} : f[l] \in Nat
  BY FS_Singleton
<1> HIDE DEF f
<1>2. SumFunctionOnSet(f, {k}) = f[k] + SumFunctionOnSet(f, {k} \ {k})
  BY <1>1, SumElement
<1>3. SumFunctionOnSet(f, {}) = 0
  BY SumEmpty
<1> QED  BY <1>1, <1>2, <1>3 DEF BytesOf, f

(* What is on the file system.                                             *)
LEMMA OnDiskChange ==
  ASSUME NEW d \in [Key -> SUBSET File], NEW k \in Key, NEW files \in SUBSET File
  PROVE  /\ OnDisk(d) \in Nat
         /\ OnDisk([d EXCEPT ![k] = files]) = OnDisk(d) - Bytes(d[k]) + Bytes(files)
<1> DEFINE e == [d EXCEPT ![k] = files]
           f == [l \in Key |-> Bytes(d[l])]
           g == [l \in Key |-> Bytes(e[l])]
           rest == Key \ {k}
<1>1. IsFiniteSet(Key) /\ IsFiniteSet(rest)
  BY PoolAssumption, FS_RemoveElement
<1>2. \A l \in Key : f[l] \in Nat /\ g[l] \in Nat
  BY BytesType
<1>3. f[k] = Bytes(d[k]) /\ g[k] = Bytes(files) /\ \A l \in rest : f[l] = g[l]
  OBVIOUS
<1>4. OnDisk(d) = SumFunctionOnSet(f, Key) /\ OnDisk(e) = SumFunctionOnSet(g, Key)
  BY DEF OnDisk
<1> HIDE DEF f, g, e
<1>5. SumFunctionOnSet(f, Key) = f[k] + SumFunctionOnSet(f, rest)
  BY <1>1, <1>2, SumElement
<1>6. SumFunctionOnSet(g, Key) = g[k] + SumFunctionOnSet(g, rest)
  BY <1>1, <1>2, SumElement
<1>7. SumFunctionOnSet(f, rest) = SumFunctionOnSet(g, rest)
  BY <1>1, <1>3, SumSame
<1>8. SumFunctionOnSet(f, rest) \in Nat /\ SumFunctionOnSet(f, Key) \in Nat
  BY <1>1, <1>2, SumType
<1>9. Bytes(d[k]) \in Nat /\ Bytes(files) \in Nat
  BY BytesType
<1> QED  BY <1>3, <1>4, <1>5, <1>6, <1>7, <1>8, <1>9 DEF e

-----------------------------------------------------------------------------
(* evict_for: what it removes is idle, and when the request can fit, what  *)
(* it removes makes it fit.                                                *)
LEMMA VictimsAreIdle ==
  ASSUME PoolTypeOK, NEW key, NEW bytes, NEW entries
  PROVE  /\ Victims(key, bytes, entries) \in SUBSET Idle(key)
         /\ Enough(key, bytes, entries) # {} =>
              Fits(Victims(key, bytes, entries), bytes, entries)
<1> DEFINE fit == Enough(key, bytes, entries)
<1>1. CASE fit = {}
  BY <1>1 DEF Victims
<1>2. CASE fit # {}
  <2>1. \A K \in fit : K \in SUBSET Idle(key) /\ Fits(K, bytes, entries)
    BY DEF Enough, OldestOf
  <2>2. IsFiniteSet(Idle(key))
    <3>1. Idle(key) \in SUBSET Key
      BY DEF Idle, PoolTypeOK
    <3> QED  BY <3>1, PoolAssumption, FS_Subset
  <2>3. \A K \in fit : Cardinality(K) \in Nat
    BY <2>1, <2>2, FS_Subset, FS_CardinalityType
  <2>4. Victims(key, bytes, entries) = Fewest(fit)
    BY <1>2 DEF Victims
  <2> HIDE DEF fit
  <2>5. Victims(key, bytes, entries) \in fit
    BY <1>2, <2>3, <2>4, FewestIsOne
  <2> QED  BY <2>1, <2>5
<1> QED  BY <1>1, <1>2

(* The order of the workspaces stays one.                                  *)
LEMMA LeftOrders ==
  ASSUME OrdersUse(older, DOMAIN pool), NEW K, older' = Left(K),
         DOMAIN pool' = DOMAIN pool \ K
  PROVE  OrdersUse(older', DOMAIN pool')
BY RestIsOrdered DEF Left

LEMMA UsedOrders ==
  ASSUME OrdersUse(older, DOMAIN pool), NEW key, NEW K, older' = Used(key, K),
         DOMAIN pool' = (DOMAIN pool \ K) \cup {key}
  PROVE  OrdersUse(older', DOMAIN pool')
BY UseIsOrdered DEF Used

(* The entries of the pool are finitely many, with sizes in Nat.           *)
LEMMA PoolIsFinite ==
  ASSUME PoolTypeOK
  PROVE  /\ IsFiniteSet(DOMAIN pool)
         /\ \A k \in DOMAIN pool : k \in Key /\ pool[k] \in Entry /\ pool[k].bytes \in Nat
         /\ \A K \in SUBSET (DOMAIN pool) :
              /\ IsFiniteSet(K) /\ Cardinality(K) \in Nat
              /\ Cardinality(K) <= Cardinality(DOMAIN pool)
<1>1. IsFiniteSet(DOMAIN pool)
  BY PoolAssumption, FS_Subset DEF PoolTypeOK
<1>2. \A k \in DOMAIN pool : k \in Key /\ pool[k] \in Entry
  BY DEF PoolTypeOK, Entry
<1> QED  BY <1>1, <1>2, FS_Subset, FS_CardinalityType DEF Entry

(* No one holds an idle workspace, and the only holder of a workspace that *)
(* has one lease is the one.                                               *)
LEMMA HoldersCounted ==
  ASSUME NEW k
  PROVE  /\ IsFiniteSet(Holders(k)) /\ Cardinality(Holders(k)) \in Nat
         /\ Cardinality(Holders(k)) = 0 => Holders(k) = {}
         /\ \A c \in Holders(k) :
              /\ Cardinality(Holders(k) \ {c}) = Cardinality(Holders(k)) - 1
              /\ Cardinality(Holders(k)) = 1 => Holders(k) \ {c} = {}
         /\ \A c \in Client \ Holders(k) :
              Cardinality(Holders(k) \cup {c}) = Cardinality(Holders(k)) + 1
<1>1. IsFiniteSet(Holders(k))
  BY PoolAssumption, FS_Subset DEF Holders
<1>2. Cardinality(Holders(k)) \in Nat /\ (Cardinality(Holders(k)) = 0 => Holders(k) = {})
  BY <1>1, FS_CardinalityType, FS_EmptySet
<1>3. ASSUME NEW c \in Holders(k)
      PROVE  /\ Cardinality(Holders(k) \ {c}) = Cardinality(Holders(k)) - 1
             /\ Cardinality(Holders(k)) = 1 => Holders(k) \ {c} = {}
  <2>1. IsFiniteSet(Holders(k) \ {c})
        /\ Cardinality(Holders(k) \ {c}) = Cardinality(Holders(k)) - 1
    BY <1>1, FS_RemoveElement
  <2> QED  BY <2>1, <1>2, FS_EmptySet
<1>4. \A c \in Client \ Holders(k) :
        Cardinality(Holders(k) \cup {c}) = Cardinality(Holders(k)) + 1
  BY <1>1, FS_AddElement
<1> QED  BY <1>1, <1>2, <1>3, <1>4

-----------------------------------------------------------------------------
(* Workspaces K are removed, leases on them alone end, and nothing else    *)
(* happens: every call that throws, the last lease of a full workspace and *)
(* the destructor.                                                         *)
Removes(K, D) ==
  /\ K \in SUBSET (DOMAIN pool) /\ D \in SUBSET Key /\ D \cap DOMAIN pool \subseteq K
  /\ OnlyEvict(K, Emptied(disk, D))
  /\ holds' \in [Client -> SUBSET LeaseObject]
  /\ \A c \in Client : holds'[c] \subseteq holds[c]
  /\ \A c \in Client : \A lease \in holds'[c] : lease.key \notin K
  /\ \A k \in DOMAIN pool \ K : Holders(k)' = Holders(k)
  /\ UNCHANGED <<stuck, outside>> /\ faults' \in 0 .. MaxPoolFaults

LEMMA RemovalKeeps ==
  ASSUME PoolInv, NEW K, NEW D, Removes(K, D)
  PROVE  PoolInv'
<1> DEFINE rest == DOMAIN pool \ K
<1> USE DEF PoolInv
<1>1. pool' = [k \in rest |-> pool[k]] /\ DOMAIN pool' = rest
      /\ \A k \in rest : pool'[k] = pool[k]
  BY DEF Removes, OnlyEvict, Without
<1>2. disk' \in [Key -> SUBSET File] /\ \A k \in rest : disk'[k] = disk[k]
  <2>1. disk' = Emptied(disk, D) /\ \A k \in rest : k \in Key /\ k \notin D
    BY DEF Removes, OnlyEvict, PoolTypeOK
  <2>2. disk \in [Key -> SUBSET File]
    BY DEF PoolTypeOK
  <2> QED  BY <2>1, <2>2 DEF Emptied
<1>3. /\ account' = BytesOf(pool, rest) /\ account' \in Nat /\ account' <= MaxPoolBytes
      /\ Cardinality(rest) <= MaxRevisions
  <2>1. /\ BytesOf(pool, DOMAIN pool) = BytesOf(pool, rest) + BytesOf(pool, K)
        /\ BytesOf(pool, rest) \in Nat /\ BytesOf(pool, K) \in Nat
    BY PoolIsFinite, BytesOfSplit DEF Removes
  <2>2. account' = account - BytesOf(pool, K)
    BY DEF Removes, OnlyEvict
  <2>3. Cardinality(rest) \in Nat /\ Cardinality(rest) <= Cardinality(DOMAIN pool)
        /\ Cardinality(DOMAIN pool) \in Nat
    BY PoolIsFinite
  <2> QED  BY <2>1, <2>2, <2>3, PoolAssumption DEF AccountInv
<1>4. AccountInv'
  <2>1. IsFiniteSet(rest)
    BY PoolIsFinite
  <2>2. BytesOf(pool', rest) = BytesOf(pool, rest)
    BY <1>1, <2>1, BytesOfSame
  <2> QED  BY <1>1, <1>3, <2>2 DEF AccountInv
<1>5. PoolTypeOK'
  <2>1. OrdersUse(older', DOMAIN pool')
    BY <1>1, LeftOrders DEF Removes, OnlyEvict, PoolTypeOK
  <2>2. \A k \in DOMAIN pool' : k \in Key /\ pool'[k] \in Entry
    BY <1>1, PoolIsFinite
  <2>3. stuck' \subseteq Key /\ outside' \in Nat /\ faults' \in 0 .. MaxPoolFaults
        /\ holds' \in [Client -> SUBSET LeaseObject]
    BY DEF Removes, PoolTypeOK
  <2> QED  BY <1>2, <1>3, <2>1, <2>2, <2>3 DEF PoolTypeOK, Entry, LeaseObject
<1>6. OneLeaseEach'
  BY DEF OneLeaseEach, Removes
<1>7. LeasesAreCounted'
  <2>1. \A k \in rest : Holders(k)' = Holders(k)
    BY DEF Removes
  <2> QED  BY <1>1, <2>1 DEF LeasesAreCounted
<1>8. LeasedFilesAreThere'
  <2> SUFFICES ASSUME NEW c \in Client, NEW lease \in holds'[c]
               PROVE  lease.key \in DOMAIN pool' /\ lease.files \subseteq disk'[lease.key]
    BY DEF LeasedFilesAreThere
  <2>1. lease \in holds[c] /\ lease.key \notin K
    BY DEF Removes
  <2>2. lease.key \in rest /\ lease.files \subseteq disk[lease.key]
    BY <2>1 DEF LeasedFilesAreThere
  <2> QED  BY <1>1, <1>2, <2>2
<1>9. EntriesDescribeDisk'
  BY <1>1, <1>2 DEF EntriesDescribeDisk, Describes
<1> QED  BY <1>4, <1>5, <1>6, <1>7, <1>8, <1>9

(* A client gets a lease on key, with the files wanted there, after the    *)
(* idle workspaces K were removed; e is then the entry.                    *)
Takes(c, key, files, K, e) ==
  /\ c \in Client /\ key \in Key /\ files \in SUBSET File /\ K \in SUBSET Idle(key)
  /\ \A lease \in holds[c] : lease.key # key
  /\ e \in Entry /\ Describes(e, disk'[key])
  /\ e.leases = 1 + IF key \in DOMAIN pool THEN pool[key].leases ELSE 0
  /\ DOMAIN pool' = (DOMAIN pool \ K) \cup {key} /\ pool'[key] = e
  /\ \A k \in DOMAIN pool \ (K \cup {key}) : pool'[k] = pool[k]
  /\ older' = Used(key, K)
  /\ account' = account - BytesOf(pool, K)
                  + e.bytes - IF key \in DOMAIN pool THEN pool[key].bytes ELSE 0
  /\ account' <= MaxPoolBytes
  /\ Cardinality((DOMAIN pool \ K) \cup {key}) <= MaxRevisions
  /\ disk' \in [Key -> SUBSET File] /\ files \subseteq disk'[key]
  /\ \A k \in DOMAIN pool \ (K \cup {key}) : disk'[k] = disk[k]
  /\ key \in DOMAIN pool => disk[key] \subseteq disk'[key]
  /\ holds' = [holds EXCEPT ![c] = @ \cup {[key |-> key, files |-> files]}]
  /\ UNCHANGED <<stuck, outside>> /\ faults' \in 0 .. MaxPoolFaults

LEMMA TakingKeeps ==
  ASSUME PoolInv, NEW c, NEW key, NEW files, NEW K, NEW e, Takes(c, key, files, K, e)
  PROVE  PoolInv'
<1> DEFINE others == DOMAIN pool \ (K \cup {key})
           new == [key |-> key, files |-> files]
<1> USE DEF PoolInv
<1>1. /\ DOMAIN pool' = others \cup {key} /\ pool'[key] = e
      /\ \A k \in others : pool'[k] = pool[k] /\ k # key
  BY DEF Takes
<1>2. /\ c \in Client /\ key \in Key /\ new \in LeaseObject
      /\ holds' = [holds EXCEPT ![c] = @ \cup {new}]
      /\ holds \in [Client -> SUBSET LeaseObject]
  BY DEF Takes, PoolTypeOK, LeaseObject
<1>3. /\ holds' \in [Client -> SUBSET LeaseObject]
      /\ holds'[c] = holds[c] \cup {new}
      /\ \A o \in Client \ {c} : holds'[o] = holds[o]
  BY <1>2
<1>4. /\ account' = BytesOf(pool', DOMAIN pool') /\ account' \in Nat
  <2> DEFINE old == IF key \in DOMAIN pool THEN pool[key].bytes ELSE 0
  <2>1. K \in SUBSET (DOMAIN pool) /\ key \notin K
    BY DEF Takes, Idle
  <2>2. /\ BytesOf(pool, DOMAIN pool) = BytesOf(pool, DOMAIN pool \ K) + BytesOf(pool, K)
        /\ BytesOf(pool, DOMAIN pool \ K) \in Nat /\ BytesOf(pool, K) \in Nat
    BY <2>1, PoolIsFinite, BytesOfSplit
  <2>3. BytesOf(pool, DOMAIN pool \ K) = BytesOf(pool, others) + old
        /\ BytesOf(pool, others) \in Nat /\ old \in Nat
    <3>1. IsFiniteSet(DOMAIN pool \ K) /\ \A k \in DOMAIN pool \ K : pool[k].bytes \in Nat
      BY PoolIsFinite
    <3>2. CASE key \in DOMAIN pool
      <4>1. {key} \in SUBSET (DOMAIN pool \ K) /\ (DOMAIN pool \ K) \ {key} = others
        BY <2>1, <3>2
      <4>2. /\ BytesOf(pool, DOMAIN pool \ K) = BytesOf(pool, others) + BytesOf(pool, {key})
            /\ BytesOf(pool, others) \in Nat
        BY <3>1, <4>1, BytesOfSplit
      <4>3. BytesOf(pool, {key}) = pool[key].bytes /\ pool[key].bytes \in Nat
        BY <3>2, PoolIsFinite, BytesOfOne
      <4> QED  BY <3>2, <4>2, <4>3
    <3>3. CASE key \notin DOMAIN pool
      <4>1. others = DOMAIN pool \ K
        BY <3>3
      <4>2. BytesOf(pool, others) = BytesOf(pool, DOMAIN pool \ K)
        BY <4>1
      <4>3. old = 0
        BY <3>3
      <4> HIDE DEF old, others
      <4> QED  BY <2>2, <4>2, <4>3
    <3> QED  BY <3>2, <3>3
  <2>4. account' = account - BytesOf(pool, K) + e.bytes - old
    BY DEF Takes
  <2>5. account = BytesOf(pool, DOMAIN pool)
    BY DEF AccountInv
  <2>6. e.bytes \in Nat
    BY DEF Takes, Entry
  <2> HIDE DEF old
  <2>7. account' = BytesOf(pool, others) + e.bytes
    BY <2>2, <2>3, <2>4, <2>5, <2>6
  <2>8. IsFiniteSet(DOMAIN pool') /\ IsFiniteSet(others)
    <3>1. IsFiniteSet(others)
      BY PoolIsFinite
    <3> QED  BY <1>1, <3>1, FS_AddElement
  <2>9. \A k \in DOMAIN pool' : pool'[k].bytes \in Nat
    BY <1>1, <2>6, PoolIsFinite
  <2>10. {key} \in SUBSET (DOMAIN pool') /\ (DOMAIN pool') \ {key} = others
    BY <1>1
  <2>11. BytesOf(pool', DOMAIN pool') = BytesOf(pool', others) + BytesOf(pool', {key})
    BY <2>8, <2>9, <2>10, BytesOfSplit
  <2>12. BytesOf(pool', {key}) = e.bytes
    BY <1>1, <2>6, BytesOfOne
  <2>13. BytesOf(pool', others) = BytesOf(pool, others)
    BY <1>1, <2>8, BytesOfSame
  <2> QED  BY <2>3, <2>6, <2>7, <2>11, <2>12, <2>13
<1>5. AccountInv'
  <2>1. DOMAIN pool' = (DOMAIN pool \ K) \cup {key}
    BY DEF Takes
  <2> QED  BY <1>4, <2>1 DEF AccountInv, Takes
<1>6. PoolTypeOK'
  <2>1. OrdersUse(older', DOMAIN pool')
    <3>1. DOMAIN pool' = (DOMAIN pool \ K) \cup {key}
      BY DEF Takes
    <3> QED  BY <3>1, UsedOrders DEF Takes, PoolTypeOK
  <2>2. \A k \in DOMAIN pool' : k \in Key /\ pool'[k] \in Entry
    BY <1>1, PoolIsFinite DEF Takes
  <2>3. stuck' \subseteq Key /\ outside' \in Nat /\ faults' \in 0 .. MaxPoolFaults
        /\ disk' \in [Key -> SUBSET File]
    BY DEF Takes, PoolTypeOK
  <2> QED  BY <1>3, <1>4, <2>1, <2>2, <2>3 DEF PoolTypeOK, Entry, LeaseObject
<1>7. OneLeaseEach'
  <2>1. \A l \in holds[c] : l.key # new.key
    BY DEF Takes
  <2>2. \A l, m \in holds'[c] : l.key = m.key => l = m
    BY <1>2, <1>3, <2>1 DEF OneLeaseEach
  <2> QED  BY <1>3, <2>2 DEF OneLeaseEach
<1>8. LeasesAreCounted'
  <2>1. \A k \in others : Holders(k)' = Holders(k)
    BY <1>1, <1>3 DEF Holders
  <2>2. \A k \in others : /\ pool'[k].leases = Cardinality(Holders(k)')
                          /\ pool'[k].full => pool'[k].leases > 0
    BY <1>1, <2>1 DEF LeasesAreCounted
  <2>3. c \in Client \ Holders(key) /\ Holders(key)' = Holders(key) \cup {c}
    <3>1. c \notin Holders(key)
      BY DEF Takes, Holders
    <3>2. new \in holds'[c] /\ new.key = key
      BY <1>3
    <3> QED  BY <1>2, <1>3, <3>1, <3>2 DEF Holders
  <2>4. Cardinality(Holders(key)') = Cardinality(Holders(key)) + 1
        /\ Cardinality(Holders(key)) \in Nat
    BY <2>3, HoldersCounted
  <2>5. CASE key \in DOMAIN pool
    <3>1. pool[key].leases = Cardinality(Holders(key)) /\ e.leases = 1 + pool[key].leases
      BY <2>5 DEF LeasesAreCounted, Takes
    <3> QED  BY <1>1, <2>2, <2>4, <3>1 DEF LeasesAreCounted
  <2>6. CASE key \notin DOMAIN pool
    <3>1. Holders(key) = {}
      BY <2>6 DEF Holders, LeasedFilesAreThere
    <3>2. Cardinality(Holders(key)) = 0 /\ e.leases = 1 + 0
      BY <2>6, <3>1, FS_EmptySet DEF Takes
    <3> QED  BY <1>1, <2>2, <2>4, <3>2 DEF LeasesAreCounted
  <2> QED  BY <2>5, <2>6
<1>9. LeasedFilesAreThere'
  <2>1. ASSUME NEW o \in Client, NEW lease \in holds[o]
        PROVE  lease.key \in DOMAIN pool' /\ lease.files \subseteq disk'[lease.key]
    <3>1. lease.key \in DOMAIN pool /\ lease.files \subseteq disk[lease.key]
      BY DEF LeasedFilesAreThere
    <3>2. o \in Holders(lease.key)
      BY DEF Holders
    <3>3. pool[lease.key].leases = Cardinality(Holders(lease.key))
      BY <3>1 DEF LeasesAreCounted
    <3>4. lease.key \notin K
      BY <3>2, <3>3, HoldersCounted DEF Takes, Idle
    <3>5. CASE lease.key = key
      BY <1>1, <3>1, <3>5 DEF Takes
    <3>6. CASE lease.key # key
      <4>1. lease.key \in others
        BY <3>1, <3>4, <3>6
      <4> QED  BY <1>1, <3>1, <4>1 DEF Takes
    <3> QED  BY <3>5, <3>6
  <2>2. new.key \in DOMAIN pool' /\ new.files \subseteq disk'[new.key]
    BY <1>1 DEF Takes
  <2> QED  BY <1>3, <2>1, <2>2 DEF LeasedFilesAreThere
<1>10. EntriesDescribeDisk'
  <2>1. \A k \in others : Describes(pool[k], disk[k]) /\ disk'[k] = disk[k]
    BY DEF EntriesDescribeDisk, Takes
  <2>2. Describes(e, disk'[key])
    BY DEF Takes
  <2> QED  BY <1>1, <2>1, <2>2 DEF EntriesDescribeDisk, Describes
<1> QED  BY <1>5, <1>6, <1>7, <1>8, <1>9, <1>10

-----------------------------------------------------------------------------
(* The calls, each as a removal or as the taking of a lease.               *)
(* What room the removed workspaces make.                                  *)
LEMMA RoomMade ==
  ASSUME PoolInv, NEW K \in SUBSET (DOMAIN pool), NEW bytes \in Nat,
         account - BytesOf(pool, K) <= MaxPoolBytes - bytes
  PROVE  /\ BytesOf(pool, K) \in Nat /\ account \in Nat /\ MaxPoolBytes \in Nat
         /\ account - BytesOf(pool, K) + bytes <= MaxPoolBytes
<1>1. account \in Nat /\ MaxPoolBytes \in Nat
  BY PoolAssumption DEF PoolInv, PoolTypeOK
<1>2. BytesOf(pool, K) \in Nat
  BY PoolIsFinite, BytesOfSplit DEF PoolInv
<1> QED  BY <1>1, <1>2

(* Removing idle workspaces, and perhaps directories that no entry has.    *)
LEMMA EvictingIdle ==
  ASSUME PoolInv, NEW key, NEW K \in SUBSET Idle(key),
         NEW D \in SUBSET Key, D \cap DOMAIN pool \subseteq K,
         OnlyEvict(K, Emptied(disk, D)),
         UNCHANGED <<stuck, outside, holds>>, faults' \in 0 .. MaxPoolFaults
  PROVE  PoolInv'
<1>1. K \in SUBSET (DOMAIN pool) /\ \A k \in K : pool[k].leases = 0
  BY DEF Idle
<1>2. holds' = holds /\ holds \in [Client -> SUBSET LeaseObject]
  BY DEF PoolInv, PoolTypeOK, LeaseObject
<1>3. \A k \in K : Holders(k) = {}
  BY <1>1, HoldersCounted DEF PoolInv, LeasesAreCounted
<1>4. \A c \in Client : \A lease \in holds'[c] : lease.key \notin K
  BY <1>2, <1>3 DEF Holders
<1>5. \A k \in DOMAIN pool \ K : Holders(k)' = Holders(k)
  BY <1>2 DEF Holders
<1>6. Removes(K, D)
  BY <1>1, <1>2, <1>4, <1>5 DEF Removes
<1> QED  BY <1>6, RemovalKeeps

LEMMA RefusalKeeps ==
  ASSUME PoolInv, NEW key \in Key, NEW bytes, NEW entries,
         Refused(key, bytes, entries), UNCHANGED <<stuck, outside>>
  PROVE  PoolInv'
<1> DEFINE K == Victims(key, bytes, entries)
<1> HIDE DEF K
<1>1. K \in SUBSET Idle(key) /\ OnlyEvict(K, Emptied(disk, K)) /\ UNCHANGED <<holds, faults>>
  BY VictimsAreIdle DEF PoolInv, Refused, K
<1>2. K \in SUBSET Key /\ faults' \in 0 .. MaxPoolFaults
  BY <1>1 DEF Idle, PoolInv, PoolTypeOK
<1> QED  BY <1>1, <1>2, EvictingIdle

LEMMA FailureKeeps ==
  ASSUME PoolInv, NEW key \in Key, NEW files \in SUBSET File, NEW full \in BOOLEAN,
         AcquireFails(key, files, full), UNCHANGED <<stuck, outside>>
  PROVE  PoolInv'
<1> DEFINE K == Victims(key, Bytes(Need(files, full)), 1)
<1> HIDE DEF K
<1>1. /\ K \in SUBSET Idle(key) /\ OnlyEvict(K, Emptied(disk, K \cup {key}))
      /\ UNCHANGED holds /\ key \notin DOMAIN pool
  BY VictimsAreIdle DEF PoolInv, AcquireFails, K
<1>2. faults' \in 0 .. MaxPoolFaults
  BY PoolAssumption DEF PoolInv, PoolTypeOK, AcquireFails
<1>3. K \cup {key} \in SUBSET Key /\ (K \cup {key}) \cap DOMAIN pool \subseteq K
  BY <1>1 DEF Idle, PoolInv, PoolTypeOK
<1> HIDE DEF PoolInv
<1> QED  BY <1>1, <1>2, <1>3, EvictingIdle

LEMMA ExpansionFailureKeeps ==
  ASSUME PoolInv, NEW key \in Key, NEW files \in SUBSET File, NEW full \in BOOLEAN,
         ExpandFails(key, files, full), UNCHANGED <<stuck, outside>>
  PROVE  PoolInv'
<1> DEFINE K == Victims(key, Growth(key, Wanted(key, files, full)), 0)
<1> HIDE DEF K
<1>1. K \in SUBSET Idle(key) /\ OnlyEvict(K, Emptied(disk, K)) /\ UNCHANGED holds
  BY VictimsAreIdle DEF PoolInv, ExpandFails, K
<1>2. faults' \in 0 .. MaxPoolFaults
  BY PoolAssumption DEF PoolInv, PoolTypeOK, ExpandFails
<1>3. K \in SUBSET Key
  BY <1>1 DEF Idle, PoolInv, PoolTypeOK
<1> QED  BY <1>1, <1>2, <1>3, EvictingIdle

LEMMA NewWorkspaceKeeps ==
  ASSUME PoolInv, NEW c \in Client, NEW key \in Key, NEW files \in SUBSET File,
         NEW full \in BOOLEAN, \A lease \in holds[c] : lease.key # key,
         AcquireNew(c, key, files, full), UNCHANGED <<stuck, outside>>
  PROVE  PoolInv'
<1> DEFINE want == Need(files, full)
           K == Victims(key, Bytes(want), 1)
           e == [files |-> files, bytes |-> Bytes(want), leases |-> 1, full |-> full]
           new == [key |-> key, files |-> want]
<1> USE DEF PoolInv
<1>1. want \in SUBSET File /\ Bytes(want) \in Nat /\ (full => want = File)
      /\ (~full => want = files)
  BY BytesType DEF Need
<1>2. K \in SUBSET Idle(key) /\ Fits(K, Bytes(want), 1) /\ key \notin DOMAIN pool
  BY VictimsAreIdle DEF AcquireNew
<1>3. /\ pool' = [k \in (DOMAIN pool \ K) \cup {key} |-> IF k = key THEN e ELSE pool[k]]
      /\ older' = Used(key, K)
      /\ account' = account - BytesOf(pool, K) + Bytes(want)
      /\ disk' = [Emptied(disk, K) EXCEPT ![key] = want]
      /\ holds' = [holds EXCEPT ![c] = @ \cup {new}]
      /\ UNCHANGED faults
  BY DEF AcquireNew
<1> HIDE DEF want, K
<1>4. e \in Entry /\ Describes(e, want) /\ e.leases = 1 /\ e.bytes = Bytes(want)
  BY <1>1 DEF Entry, Describes
<1>5. K \in SUBSET (DOMAIN pool) /\ K \in SUBSET Key
  BY <1>2 DEF Idle, PoolTypeOK
<1>6. /\ BytesOf(pool, K) \in Nat /\ account' <= MaxPoolBytes
      /\ account' = account - BytesOf(pool, K) + Bytes(want) - 0
  <2>1. account - BytesOf(pool, K) <= MaxPoolBytes - Bytes(want)
    BY <1>2 DEF Fits
  <2>2. /\ BytesOf(pool, K) \in Nat /\ account \in Nat
        /\ account - BytesOf(pool, K) + Bytes(want) <= MaxPoolBytes
    BY <1>1, <1>5, <2>1, RoomMade
  <2> QED  BY <1>1, <1>3, <2>2
<1>7. Cardinality((DOMAIN pool \ K) \cup {key}) <= MaxRevisions
  <2>1. IsFiniteSet(DOMAIN pool \ K) /\ key \notin DOMAIN pool \ K
    BY <1>2, PoolIsFinite
  <2>2. Cardinality((DOMAIN pool \ K) \cup {key}) = Cardinality(DOMAIN pool \ K) + 1
    BY <2>1, FS_AddElement
  <2> QED  BY <1>2, <2>2 DEF Fits
<1>8. /\ disk' \in [Key -> SUBSET File] /\ disk'[key] = want
      /\ \A k \in DOMAIN pool \ (K \cup {key}) : disk'[k] = disk[k]
  <2>1. disk \in [Key -> SUBSET File] /\ DOMAIN pool \in SUBSET Key
    BY DEF PoolTypeOK
  <2>2. /\ Emptied(disk, K) \in [Key -> SUBSET File]
        /\ \A k \in Key \ K : Emptied(disk, K)[k] = disk[k]
    BY <2>1 DEF Emptied
  <2> QED  BY <1>1, <1>3, <2>1, <2>2
<1>9. faults' \in 0 .. MaxPoolFaults
  BY <1>3 DEF PoolTypeOK
<1>10. /\ e.leases = 1 + IF key \in DOMAIN pool THEN pool[key].leases ELSE 0
       /\ account' = account - BytesOf(pool, K)
                     + e.bytes - IF key \in DOMAIN pool THEN pool[key].bytes ELSE 0
  BY <1>2, <1>4, <1>6
<1> HIDE DEF e, PoolInv
<1>11. Takes(c, key, want, K, e)
  BY <1>1, <1>2, <1>3, <1>4, <1>6, <1>7, <1>8, <1>9, <1>10 DEF Takes
<1> QED  BY <1>11, TakingKeeps

(* What a shared workspace becomes.                                        *)
LEMMA GrownDescribes ==
  ASSUME PoolInv, NEW key \in DOMAIN pool, ~pool[key].full,
         NEW files \in SUBSET File, NEW full \in BOOLEAN
  PROVE  /\ Wanted(key, files, full) \in SUBSET File
         /\ disk[key] \in SUBSET Wanted(key, files, full)
         /\ Growth(key, Wanted(key, files, full)) \in Nat
         /\ Growth(key, Wanted(key, files, full)) =
              Bytes(Wanted(key, files, full)) - pool[key].bytes
         /\ Grown(key, files, full) \in Entry
         /\ Describes(Grown(key, files, full), Wanted(key, files, full))
         /\ Grown(key, files, full).leases = pool[key].leases
         /\ pool[key].bytes
              + (IF Expands(key, files, full)
                 THEN Growth(key, Wanted(key, files, full)) ELSE 0)
            = Grown(key, files, full).bytes
<1> DEFINE want == Wanted(key, files, full)
           e == Grown(key, files, full)
<1>1. /\ pool[key] \in Entry /\ Describes(pool[key], disk[key])
      /\ disk[key] = pool[key].files /\ pool[key].bytes = Bytes(disk[key])
  BY PoolIsFinite DEF PoolInv, EntriesDescribeDisk, Describes
<1>2. /\ pool[key].files \in SUBSET File /\ pool[key].leases \in Nat
      /\ pool[key].bytes \in Nat
  BY <1>1 DEF Entry
<1>3. /\ want \in SUBSET File /\ disk[key] \in SUBSET want
      /\ (full => want = File) /\ (~full => want = files \cup pool[key].files)
  BY <1>1, <1>2 DEF Wanted
<1> HIDE DEF want
<1>4. Bytes(want) \in Nat /\ Bytes(disk[key]) <= Bytes(want)
  BY <1>3, BytesType, BytesGrow
<1>5. Growth(key, want) \in Nat /\ Growth(key, want) = Bytes(want) - pool[key].bytes
  BY <1>1, <1>2, <1>4 DEF Growth
<1>6. CASE Expands(key, files, full)
  <2>1. e = [files |-> IF full THEN pool[key].files ELSE want, bytes |-> Bytes(want),
             leases |-> pool[key].leases, full |-> full]
    BY <1>6 DEF Grown, want
  <2>2. /\ e \in Entry /\ e.bytes = Bytes(want) /\ e.leases = pool[key].leases
        /\ e.full = full /\ (~full => e.files = want)
    BY <1>2, <1>3, <1>4, <2>1 DEF Entry
  <2>3. Describes(e, want)
    BY <1>3, <2>2 DEF Describes
  <2> HIDE DEF e
  <2> QED  BY <1>1, <1>2, <1>3, <1>4, <1>5, <1>6, <2>2, <2>3 DEF e, want
<1>7. CASE ~Expands(key, files, full)
  <2>1. e = pool[key] /\ ~full /\ files \subseteq pool[key].files
    BY <1>7 DEF Grown, Expands
  <2>2. want = disk[key]
    BY <1>1, <1>3, <2>1
  <2> HIDE DEF e
  <2> QED  BY <1>1, <1>2, <1>3, <1>4, <1>5, <1>7, <2>1, <2>2 DEF e, want
<1> QED  BY <1>6, <1>7

LEMMA SharingKeeps ==
  ASSUME PoolInv, NEW c \in Client, NEW key \in Key, NEW files \in SUBSET File,
         NEW full \in BOOLEAN, \A lease \in holds[c] : lease.key # key,
         AcquireShared(c, key, files, full), UNCHANGED <<stuck, outside>>
  PROVE  PoolInv'
<1> DEFINE want == Wanted(key, files, full)
           more == Growth(key, want)
           K == Victims(key, more, 0)
           entry == Grown(key, files, full)
           e == [entry EXCEPT !.leases = @ + 1]
           new == [key |-> key, files |-> want]
<1>1. /\ key \in DOMAIN pool /\ ~pool[key].full
      /\ pool' = [Without(pool, K) EXCEPT ![key] = e]
      /\ older' = Used(key, K)
      /\ account' = account - BytesOf(pool, K)
                      + IF Expands(key, files, full) THEN more ELSE 0
      /\ disk' = [Emptied(disk, K) EXCEPT ![key] = @ \cup want]
      /\ holds' = [holds EXCEPT ![c] = @ \cup {new}]
      /\ UNCHANGED faults
  BY DEF AcquireShared
<1>2. K \in SUBSET Idle(key) /\ Fits(K, more, 0)
  BY VictimsAreIdle DEF PoolInv, AcquireShared
<1>3. /\ want \in SUBSET File /\ disk[key] \in SUBSET want /\ more \in Nat
      /\ entry \in Entry /\ Describes(entry, want) /\ entry.leases = pool[key].leases
      /\ pool[key].bytes + (IF Expands(key, files, full) THEN more ELSE 0) = entry.bytes
      /\ more = Bytes(want) - pool[key].bytes
  BY <1>1, GrownDescribes
<1> DEFINE grown == IF Expands(key, files, full) THEN more ELSE 0
<1>4. grown \in Nat /\ grown <= more /\ pool[key].bytes + grown = entry.bytes
      /\ account' = account - BytesOf(pool, K) + grown
  BY <1>1, <1>3
<1> HIDE DEF want, more, K, entry, grown
<1>5. /\ e \in Entry /\ Describes(e, want) /\ e.leases = 1 + pool[key].leases
      /\ e.bytes = entry.bytes
  BY <1>3 DEF Entry, Describes
<1> HIDE DEF e
<1>6. /\ K \in SUBSET (DOMAIN pool) /\ K \in SUBSET Key /\ key \notin K
      /\ (DOMAIN pool \ K) \cup {key} = DOMAIN pool \ K
  BY <1>1, <1>2 DEF Idle, PoolTypeOK, PoolInv
<1>7. /\ DOMAIN pool' = (DOMAIN pool \ K) \cup {key} /\ pool'[key] = e
      /\ \A k \in DOMAIN pool \ (K \cup {key}) : pool'[k] = pool[k]
  BY <1>1, <1>6 DEF Without
<1>8. /\ account' <= MaxPoolBytes
      /\ account' = account - BytesOf(pool, K) + e.bytes - pool[key].bytes
  <2>1. account - BytesOf(pool, K) <= MaxPoolBytes - more
    BY <1>2 DEF Fits
  <2>2. /\ BytesOf(pool, K) \in Nat /\ account \in Nat /\ MaxPoolBytes \in Nat
        /\ account - BytesOf(pool, K) + more <= MaxPoolBytes
    BY <1>3, <1>6, <2>1, RoomMade
  <2>3. pool[key].bytes \in Nat
    BY <1>1, PoolIsFinite DEF PoolInv
  <2> QED  BY <1>3, <1>4, <1>5, <2>2, <2>3
<1>9. Cardinality((DOMAIN pool \ K) \cup {key}) <= MaxRevisions
  <2>1. Cardinality(DOMAIN pool \ K) + 0 <= MaxRevisions
    BY <1>2 DEF Fits
  <2>2. Cardinality(DOMAIN pool \ K) \in Nat
    BY PoolIsFinite DEF PoolInv
  <2> QED  BY <1>6, <2>1, <2>2
<1>10. /\ disk' \in [Key -> SUBSET File] /\ disk'[key] = want
       /\ \A k \in DOMAIN pool \ (K \cup {key}) : disk'[k] = disk[k]
  <2>1. disk \in [Key -> SUBSET File] /\ DOMAIN pool \in SUBSET Key
    BY DEF PoolTypeOK, PoolInv
  <2>2. /\ Emptied(disk, K) \in [Key -> SUBSET File]
        /\ \A k \in Key \ K : Emptied(disk, K)[k] = disk[k]
    BY <2>1 DEF Emptied
  <2> QED  BY <1>1, <1>3, <1>6, <2>1, <2>2
<1>11. faults' \in 0 .. MaxPoolFaults
  BY <1>1 DEF PoolTypeOK, PoolInv
<1>12. /\ e.leases = 1 + IF key \in DOMAIN pool THEN pool[key].leases ELSE 0
       /\ account' = account - BytesOf(pool, K)
                     + e.bytes - IF key \in DOMAIN pool THEN pool[key].bytes ELSE 0
  BY <1>1, <1>5, <1>8
<1> HIDE DEF PoolInv
<1>13. Takes(c, key, want, K, e)
  BY <1>1, <1>2, <1>3, <1>5, <1>7, <1>8, <1>9, <1>10, <1>11, <1>12 DEF Takes
<1> QED  BY <1>13, TakingKeeps

LEMMA FullWorkspaceKeeps ==
  ASSUME PoolInv, NEW c \in Client, NEW key \in Key,
         \A lease \in holds[c] : lease.key # key,
         AcquireFull(c, key), UNCHANGED <<stuck, outside>>
  PROVE  PoolInv'
<1> DEFINE e == [pool[key] EXCEPT !.leases = @ + 1]
<1>1. /\ key \in DOMAIN pool /\ pool[key].full
      /\ pool' = [pool EXCEPT ![key].leases = @ + 1]
      /\ older' = Used(key, {})
      /\ holds' = [holds EXCEPT ![c] = @ \cup {[key |-> key, files |-> File]}]
      /\ UNCHANGED <<account, disk, faults>>
  BY DEF AcquireFull
<1>2. pool[key] \in Entry /\ Describes(pool[key], disk[key]) /\ disk[key] = File
  BY <1>1, PoolIsFinite DEF PoolInv, EntriesDescribeDisk, Describes
<1>3. /\ e \in Entry /\ e.bytes = pool[key].bytes /\ Describes(e, disk[key])
      /\ e.leases = 1 + pool[key].leases /\ pool[key].bytes \in Nat
  BY <1>2 DEF Entry, Describes
<1>4. /\ DOMAIN pool' = (DOMAIN pool \ {}) \cup {key} /\ pool'[key] = e
      /\ \A k \in DOMAIN pool \ ({} \cup {key}) : pool'[k] = pool[k]
  BY <1>1
<1> HIDE DEF e
<1>5. BytesOf(pool, {}) = 0
  BY SumEmpty DEF BytesOf
<1>6. /\ account' = account - BytesOf(pool, {}) + e.bytes
                     - IF key \in DOMAIN pool THEN pool[key].bytes ELSE 0
      /\ account' <= MaxPoolBytes
      /\ Cardinality((DOMAIN pool \ {}) \cup {key}) <= MaxRevisions
  <2>1. account \in Nat /\ account <= MaxPoolBytes /\ Cardinality(DOMAIN pool) <= MaxRevisions
    BY DEF PoolInv, PoolTypeOK, AccountInv
  <2>2. (DOMAIN pool \ {}) \cup {key} = DOMAIN pool
    BY <1>1
  <2> QED  BY <1>1, <1>3, <1>5, <2>1, <2>2
<1>7. e.leases = 1 + IF key \in DOMAIN pool THEN pool[key].leases ELSE 0
  BY <1>1, <1>3
<1>8. disk' \in [Key -> SUBSET File] /\ disk' = disk /\ faults' \in 0 .. MaxPoolFaults
  BY <1>1 DEF PoolInv, PoolTypeOK
<1> HIDE DEF PoolInv
<1>9. Takes(c, key, File, {}, e)
  BY <1>1, <1>2, <1>3, <1>4, <1>6, <1>7, <1>8 DEF Takes
<1> QED  BY <1>9, TakingKeeps

LEMMA AcquireKeeps ==
  ASSUME PoolInv, NEW c \in Client, NEW key \in Key, NEW files \in SUBSET File,
         NEW full \in BOOLEAN, Acquire(c, key, files, full)
  PROVE  PoolInv'
<1>1. UNCHANGED <<stuck, outside>> /\ \A lease \in holds[c] : lease.key # key
  BY DEF Acquire
<1>2. CASE RefuseNew(key, files, full)
  BY <1>1, <1>2, RefusalKeeps DEF RefuseNew
<1>3. CASE AcquireNew(c, key, files, full)
  BY <1>1, <1>3, NewWorkspaceKeeps
<1>4. CASE AcquireFails(key, files, full)
  BY <1>1, <1>4, FailureKeeps
<1>5. CASE RefuseMore(key, files, full)
  BY <1>1, <1>5, RefusalKeeps DEF RefuseMore
<1>6. CASE AcquireShared(c, key, files, full)
  BY <1>1, <1>6, SharingKeeps
<1>7. CASE ExpandFails(key, files, full)
  BY <1>1, <1>7, ExpansionFailureKeeps
<1>8. CASE AcquireFull(c, key)
  BY <1>1, <1>8, FullWorkspaceKeeps
<1> QED  BY <1>2, <1>3, <1>4, <1>5, <1>6, <1>7, <1>8 DEF Acquire

LEMMA ReleaseKeeps ==
  ASSUME PoolInv, NEW c \in Client, NEW lease \in holds[c], Release(c, lease)
  PROVE  PoolInv'
<1> DEFINE key == lease.key
           others == DOMAIN pool \ {key}
<1>1. /\ holds \in [Client -> SUBSET LeaseObject] /\ disk \in [Key -> SUBSET File]
      /\ account \in Nat
  BY DEF PoolInv, PoolTypeOK, LeaseObject
<1>2. /\ holds' = [holds EXCEPT ![c] = @ \ {lease}]
      /\ holds' \in [Client -> SUBSET LeaseObject]
      /\ holds'[c] = holds[c] \ {lease}
      /\ \A o \in Client \ {c} : holds'[o] = holds[o]
  BY <1>1 DEF Release
<1>3. key \in DOMAIN pool /\ key \in Key /\ c \in Holders(key)
  BY PoolIsFinite DEF PoolInv, LeasedFilesAreThere, Holders
<1>4. \A l \in holds'[c] : l.key # key /\ l \in holds[c]
  BY <1>2 DEF PoolInv, OneLeaseEach
<1>5. \A k \in others : Holders(k)' = Holders(k)
  BY <1>2 DEF Holders
<1>6. Holders(key)' = Holders(key) \ {c}
  BY <1>2, <1>4 DEF Holders
<1>7. /\ pool[key].leases = Cardinality(Holders(key)) /\ pool[key].leases \in Nat
      /\ Cardinality(Holders(key)') = pool[key].leases - 1
      /\ pool[key].leases = 1 => Holders(key)' = {}
  BY <1>3, <1>6, HoldersCounted DEF PoolInv, LeasesAreCounted
<1>8. CASE pool[key].full /\ pool[key].leases = 1
  <2>1. OnlyEvict({key}, Emptied(disk, {key})) /\ UNCHANGED <<stuck, outside, faults>>
    BY <1>8 DEF Release
  <2>2. \A o \in Client : \A l \in holds'[o] : l.key \notin {key}
    BY <1>2, <1>7, <1>8 DEF Holders
  <2>3. faults' \in 0 .. MaxPoolFaults
    BY <2>1 DEF PoolInv, PoolTypeOK
  <2>4. Removes({key}, {key})
    BY <1>2, <1>3, <1>5, <2>1, <2>2, <2>3 DEF Removes
  <2> QED  BY <2>4, RemovalKeeps
<1>9. CASE ~(pool[key].full /\ pool[key].leases = 1)
  <2>1. /\ pool' = [pool EXCEPT ![key].leases = @ - 1]
        /\ older' = Used(key, {}) /\ UNCHANGED <<account, disk, stuck, outside, faults>>
    BY <1>9 DEF Release
  <2>2. /\ DOMAIN pool' = DOMAIN pool /\ \A k \in others : pool'[k] = pool[k]
        /\ pool'[key] = [pool[key] EXCEPT !.leases = @ - 1]
    BY <1>3, <2>1
  <2>3. pool[key] \in Entry /\ pool[key].leases - 1 \in Nat
    <3>1. pool[key] \in Entry
      BY <1>3, PoolIsFinite DEF PoolInv
    <3>2. Holders(key) # {} /\ Cardinality(Holders(key)) # 0
      BY <1>3, HoldersCounted
    <3> QED  BY <1>7, <3>1, <3>2
  <2>4. /\ pool'[key] \in Entry /\ pool'[key].bytes = pool[key].bytes
        /\ pool'[key].full = pool[key].full /\ pool'[key].files = pool[key].files
        /\ pool'[key].leases = pool[key].leases - 1
    BY <2>2, <2>3 DEF Entry
  <2>5. PoolTypeOK'
    <3>1. OrdersUse(older', DOMAIN pool')
      BY <1>3, <2>1, <2>2, UsedOrders DEF PoolInv, PoolTypeOK
    <3>2. \A k \in DOMAIN pool' : k \in Key /\ pool'[k] \in Entry
      BY <2>2, <2>4, PoolIsFinite DEF PoolInv
    <3> QED  BY <1>2, <2>1, <3>1, <3>2 DEF PoolInv, PoolTypeOK, Entry, LeaseObject
  <2>6. OneLeaseEach'
    BY <1>2, <1>4 DEF PoolInv, OneLeaseEach
  <2>7. LeasesAreCounted'
    <3>1. \A k \in others : /\ pool'[k].leases = Cardinality(Holders(k)')
                            /\ pool'[k].full => pool'[k].leases > 0
      BY <1>5, <2>2 DEF PoolInv, LeasesAreCounted
    <3>2. /\ pool'[key].leases = Cardinality(Holders(key)')
          /\ pool'[key].full => pool'[key].leases > 0
      BY <1>7, <1>9, <2>3, <2>4
    <3> QED  BY <2>2, <3>1, <3>2 DEF LeasesAreCounted
  <2>8. LeasedFilesAreThere'
    BY <1>2, <1>4, <2>1, <2>2 DEF PoolInv, LeasedFilesAreThere
  <2>9. EntriesDescribeDisk'
    <3>1. \A k \in others : Describes(pool'[k], disk'[k])
      BY <2>1, <2>2 DEF PoolInv, EntriesDescribeDisk, Describes
    <3>2. Describes(pool'[key], disk'[key])
      BY <1>3, <2>1, <2>4 DEF PoolInv, EntriesDescribeDisk, Describes
    <3> QED  BY <2>2, <3>1, <3>2 DEF EntriesDescribeDisk, Describes
  <2>10. AccountInv'
    <3>1. \A k \in DOMAIN pool : pool'[k].bytes = pool[k].bytes
      BY <2>2, <2>4
    <3>2. BytesOf(pool', DOMAIN pool) = BytesOf(pool, DOMAIN pool)
      BY <3>1, PoolIsFinite, BytesOfSame DEF PoolInv
    <3> QED  BY <2>1, <2>2, <3>2 DEF PoolInv, AccountInv
  <2> QED  BY <2>5, <2>6, <2>7, <2>8, <2>9, <2>10 DEF PoolInv
<1> QED  BY <1>8, <1>9

LEMMA ShutdownKeeps == ASSUME PoolInv, Shutdown PROVE PoolInv'
<1>1. /\ OnlyEvict(DOMAIN pool, Emptied(disk, DOMAIN pool))
      /\ holds' = holds /\ \A c \in Client : holds[c] = {}
      /\ UNCHANGED <<stuck, outside, faults>>
  BY DEF Shutdown
<1>2. /\ holds \in [Client -> SUBSET LeaseObject] /\ DOMAIN pool \in SUBSET Key
      /\ faults \in 0 .. MaxPoolFaults
  BY DEF PoolInv, PoolTypeOK, LeaseObject
<1>3. Removes(DOMAIN pool, DOMAIN pool)
  BY <1>1, <1>2 DEF Removes
<1> QED  BY <1>3, RemovalKeeps

(* A pool that knows no workspace and leases none.                         *)
LEMMA EmptyPool ==
  ASSUME pool = << >>, older = {}, account = 0, holds = [c \in Client |-> {}]
  PROVE  /\ OrdersUse(older, DOMAIN pool) /\ DOMAIN pool = {}
         /\ OneLeaseEach /\ LeasesAreCounted /\ LeasedFilesAreThere
         /\ EntriesDescribeDisk /\ AccountInv
<1>1. DOMAIN pool = {} /\ \A c \in Client : holds[c] = {}
  OBVIOUS
<1>2. OrdersUse(older, DOMAIN pool)
  BY <1>1 DEF OrdersUse
<1>3. BytesOf(pool, {}) = 0 /\ Cardinality({}) = 0
  BY SumEmpty, FS_EmptySet DEF BytesOf
<1>4. AccountInv
  BY <1>1, <1>3, PoolAssumption DEF AccountInv
<1> QED  BY <1>1, <1>2, <1>4 DEF OneLeaseEach, LeasesAreCounted, LeasedFilesAreThere,
                                 EntriesDescribeDisk

LEMMA PoolInit_Inv == PoolInit => PoolInv
<1> SUFFICES ASSUME PoolInit PROVE PoolInv
  OBVIOUS
<1>1. /\ OrdersUse(older, DOMAIN pool) /\ DOMAIN pool = {}
      /\ OneLeaseEach /\ LeasesAreCounted /\ LeasedFilesAreThere
      /\ EntriesDescribeDisk /\ AccountInv
  BY EmptyPool DEF PoolInit
<1>2. PoolTypeOK
  BY <1>1, PoolAssumption DEF PoolInit, PoolTypeOK
<1> QED  BY <1>1, <1>2 DEF PoolInv

LEMMA RestartKeeps == ASSUME PoolInv, Restart PROVE PoolInv'
<1>1. /\ pool' = << >> /\ older' = {} /\ account' = 0
      /\ holds' = [c \in Client |-> {}]
  BY DEF Restart
<1>2. /\ OrdersUse(older', DOMAIN pool') /\ DOMAIN pool' = {}
      /\ OneLeaseEach' /\ LeasesAreCounted' /\ LeasedFilesAreThere'
      /\ EntriesDescribeDisk' /\ AccountInv'
  <2>1. /\ DOMAIN pool' = {} /\ \A c \in Client : holds'[c] = {}
    BY <1>1
  <2>2. OrdersUse(older', DOMAIN pool')
    BY <1>1, <2>1 DEF OrdersUse
  <2>3. BytesOf(pool', {}) = 0 /\ Cardinality({}) = 0
    BY SumEmpty, FS_EmptySet DEF BytesOf
  <2>4. AccountInv'
    BY <1>1, <2>1, <2>3, PoolAssumption DEF AccountInv
  <2> QED  BY <2>1, <2>2, <2>4 DEF OneLeaseEach, LeasesAreCounted, LeasedFilesAreThere,
                                   EntriesDescribeDisk
<1>3. /\ disk' = disk /\ stuck' = stuck /\ outside' = outside
      /\ faults' \in 0 .. MaxPoolFaults /\ account' \in Nat
  BY <1>1, PoolAssumption DEF Restart, PoolInv, PoolTypeOK
<1>4. PoolTypeOK'
  BY <1>1, <1>2, <1>3 DEF PoolInv, PoolTypeOK
<1> QED  BY <1>2, <1>4 DEF PoolInv

(* The books do not depend on what the file system does meanwhile.         *)
LEMMA ElsewhereKeeps ==
  ASSUME PoolInv, UNCHANGED <<pool, older, account, disk, holds>>,
         stuck' \subseteq Key, outside' \in Nat, faults' \in 0 .. MaxPoolFaults
  PROVE  PoolInv'
<1> USE DEF PoolInv
<1>1. PoolTypeOK'
  BY DEF PoolTypeOK, OrdersUse
<1>2. LeasesAreCounted' /\ OneLeaseEach' /\ LeasedFilesAreThere'
  BY DEF LeasesAreCounted, Holders, OneLeaseEach, LeasedFilesAreThere
<1>3. EntriesDescribeDisk' /\ AccountInv'
  BY DEF EntriesDescribeDisk, AccountInv, Describes
<1> QED  BY <1>1, <1>2, <1>3

LEMMA PoolStep == PoolInv /\ [PoolNext]_poolVars => PoolInv'
<1> SUFFICES ASSUME PoolInv, [PoolNext]_poolVars PROVE PoolInv'
  OBVIOUS
<1>1. ASSUME NEW c \in Client, NEW key \in Key, NEW files \in SUBSET File,
             Acquire(c, key, files, files = {})
      PROVE  PoolInv'
  <2>1. (files = {}) \in BOOLEAN
    OBVIOUS
  <2> QED  BY <1>1, <2>1, AcquireKeeps
<1>2. ASSUME NEW c \in Client, NEW lease \in holds[c], Release(c, lease)
      PROVE  PoolInv'
  BY <1>2, ReleaseKeeps
<1>3. CASE Restart
  BY <1>3, RestartKeeps
<1>4. CASE Shutdown
  BY <1>4, ShutdownKeeps
<1>5. CASE Outside
  <2>1. UNCHANGED <<pool, older, account, disk, stuck, holds, faults>> /\ outside' \in Nat
    BY <1>5, PoolAssumption DEF Outside
  <2>2. stuck' \subseteq Key /\ faults' \in 0 .. MaxPoolFaults
    BY <2>1 DEF PoolInv, PoolTypeOK
  <2> QED  BY <2>1, <2>2, ElsewhereKeeps
<1>6. ASSUME NEW k \in Key, Stick(k) PROVE PoolInv'
  <2>1. UNCHANGED <<pool, older, account, disk, outside, holds>> /\ outside' \in Nat
        /\ stuck' \subseteq Key
    BY <1>6 DEF Stick, PoolInv, PoolTypeOK
  <2>2. faults' \in 0 .. MaxPoolFaults
    BY <1>6, PoolAssumption DEF Stick, PoolInv, PoolTypeOK
  <2> QED  BY <2>1, <2>2, ElsewhereKeeps
<1>7. CASE UNCHANGED poolVars
  <2>1. /\ UNCHANGED <<pool, older, account, disk, holds, stuck, outside, faults>>
    BY <1>7 DEF poolVars
  <2>2. stuck' \subseteq Key /\ outside' \in Nat /\ faults' \in 0 .. MaxPoolFaults
    BY <2>1 DEF PoolInv, PoolTypeOK
  <2> QED  BY <2>1, <2>2, ElsewhereKeeps
<1> QED  BY <1>1, <1>2, <1>3, <1>4, <1>5, <1>6, <1>7 DEF PoolNext

LEMMA PoolInvariant == PoolSpec => []PoolInv
BY PoolInit_Inv, PoolStep, PTL DEF PoolSpec

-----------------------------------------------------------------------------
(* The state of the pool is always of its type: entries for known          *)
(* workspaces, in one order of last use.                                   *)
THEOREM PoolTypeCorrect == PoolSpec => []PoolTypeOK
<1>1. PoolInv => PoolTypeOK
  BY DEF PoolInv
<1> QED  BY <1>1, PoolInvariant, PTL

(* acquire, release and evict_for (src/src/revision_workspace.cpp:199-347) *)
(* never remove a file that a lease was given for, for any limits, number  *)
(* of clients and order of calls, failing git commands and restarts        *)
(* included.                                                               *)
THEOREM LeasesKeepTheirFiles == PoolSpec => []LeasedFilesAreThere
<1>1. PoolInv => LeasedFilesAreThere
  BY DEF PoolInv
<1> QED  BY <1>1, PoolInvariant, PTL

(* The pool's account (estimated_bytes_ and the lease counts) is exact     *)
(* after every call, also one that fails half-way, and within its limits.  *)
THEOREM BooksAreRight == PoolSpec => []AccountIsRight
<1>1. ASSUME PoolInv PROVE AccountIsRight
  <2> DEFINE f == [k \in DOMAIN pool |-> pool[k].bytes]
             g == [k \in DOMAIN pool |-> Bytes(disk[k])]
  <2>1. f = g
    BY <1>1 DEF PoolInv, EntriesDescribeDisk, Describes
  <2>2. account = SumFunctionOnSet(f, DOMAIN pool)
    BY <1>1 DEF PoolInv, AccountInv, BytesOf
  <2>3. account = SumFunctionOnSet(g, DOMAIN pool)
    BY <2>1, <2>2
  <2> QED  BY <1>1, <2>3 DEF PoolInv, AccountInv, AccountIsRight
<1> QED  BY <1>1, PoolInvariant, PTL

-----------------------------------------------------------------------------
(* The reserve.                                                            *)
LEMMA ReserveLeft ==
  ASSUME PoolTypeOK, NEW d \in [Key -> SUBSET File], NEW k \in Key,
         NEW files \in SUBSET File, NEW bytes \in Nat,
         Bytes(files) <= Bytes(d[k]) + bytes, Free(d) >= bytes + Reserve
  PROVE  Free([d EXCEPT ![k] = files]) >= Reserve
<1> DEFINE e == [d EXCEPT ![k] = files]
<1>1. OnDisk(d) \in Nat /\ OnDisk(e) = OnDisk(d) - Bytes(d[k]) + Bytes(files)
  BY OnDiskChange
<1>2. Bytes(d[k]) \in Nat /\ Bytes(files) \in Nat /\ Capacity \in Nat /\ Reserve \in Nat
      /\ outside \in Nat
  BY BytesType, PoolAssumption DEF PoolTypeOK
<1> HIDE DEF e
<1>3. OnDisk(e) \in Int /\ OnDisk(e) <= OnDisk(d) + bytes
  BY <1>1, <1>2
<1>4. /\ Free(e) = IF Capacity - outside - OnDisk(e) > 0
                   THEN Capacity - outside - OnDisk(e) ELSE 0
      /\ Free(d) = IF Capacity - outside - OnDisk(d) > 0
                   THEN Capacity - outside - OnDisk(d) ELSE 0
  BY DEF Free
<1>5. Free(e) >= Reserve
  BY <1>1, <1>2, <1>3, <1>4
<1> QED  BY <1>5 DEF e

LEMMA NewWorkspaceReserves ==
  ASSUME PoolInv, NEW c, NEW key \in Key, NEW files \in SUBSET File,
         NEW full \in BOOLEAN, AcquireNew(c, key, files, full)
  PROVE  Free(disk') >= Reserve
<1> DEFINE want == Need(files, full)
           K == Victims(key, Bytes(want), 1)
<1>1. want \in SUBSET File /\ Bytes(want) \in Nat
  BY BytesType DEF Need
<1>2. Fits(K, Bytes(want), 1)
  BY VictimsAreIdle DEF PoolInv, AcquireNew
<1>3. disk' = [Emptied(disk, K) EXCEPT ![key] = want]
  BY DEF AcquireNew
<1> HIDE DEF want, K
<1>4. Emptied(disk, K) \in [Key -> SUBSET File] /\ Bytes(Emptied(disk, K)[key]) \in Nat
  BY BytesType DEF Emptied, PoolInv, PoolTypeOK
<1>5. Free(Emptied(disk, K)) >= Bytes(want) + Reserve
  BY <1>2 DEF Fits
<1>6. Bytes(want) <= Bytes(Emptied(disk, K)[key]) + Bytes(want)
  BY <1>1, <1>4
<1> QED  BY <1>1, <1>3, <1>4, <1>5, <1>6, ReserveLeft DEF PoolInv

LEMMA SharingReserves ==
  ASSUME PoolInv, NEW c, NEW key \in Key, NEW files \in SUBSET File,
         NEW full \in BOOLEAN, AcquireShared(c, key, files, full)
  PROVE  Free(disk') >= Reserve
<1> DEFINE want == Wanted(key, files, full)
           more == Growth(key, want)
           K == Victims(key, more, 0)
<1>1. /\ want \in SUBSET File /\ disk[key] \in SUBSET want /\ more \in Nat
      /\ more = Bytes(want) - pool[key].bytes
  BY GrownDescribes DEF AcquireShared
<1>2. Fits(K, more, 0) /\ key \notin K
  BY VictimsAreIdle DEF PoolInv, AcquireShared, Idle
<1>3. disk' = [Emptied(disk, K) EXCEPT ![key] = @ \cup want] /\ key \in DOMAIN pool
  BY DEF AcquireShared
<1> HIDE DEF want, K, more
<1>4. Emptied(disk, K) \in [Key -> SUBSET File] /\ Emptied(disk, K)[key] = disk[key]
  BY <1>2 DEF Emptied, PoolInv, PoolTypeOK
<1>5. Free(Emptied(disk, K)) >= more + Reserve
  BY <1>2 DEF Fits
<1>6. pool[key].bytes = Bytes(disk[key]) /\ pool[key].bytes \in Nat /\ Bytes(want) \in Nat
  BY <1>1, <1>3, PoolIsFinite, BytesType DEF PoolInv, EntriesDescribeDisk, Describes
<1>7. Bytes(want) <= Bytes(Emptied(disk, K)[key]) + more
  BY <1>1, <1>4, <1>6
<1>8. disk' = [Emptied(disk, K) EXCEPT ![key] = want]
  <2>1. Emptied(disk, K)[key] \cup want = want
    BY <1>1, <1>4
  <2> QED  BY <1>3, <2>1
<1> QED  BY <1>1, <1>4, <1>5, <1>7, <1>8, ReserveLeft DEF PoolInv

(* evict_for's reserve holds after every call that writes to the file      *)
(* system, whatever is leased, shared, expanded or stuck.                  *)
THEOREM TheReserveIsKept == PoolSpec => ReserveStaysFree
<1>1. ASSUME PoolInv, [PoolNext]_poolVars
      PROVE  [(\E k \in Key : ~(disk'[k] \subseteq disk[k]))
                => Free(disk') >= Reserve]_poolVars
  <2> DEFINE Shrinks == \A k \in Key : disk'[k] \subseteq disk[k]
  <2>1. ASSUME NEW D, disk' = Emptied(disk, D) PROVE Shrinks
    BY <2>1 DEF Emptied
  <2>3. ASSUME NEW c \in Client, NEW key \in Key, NEW files \in SUBSET File,
               Acquire(c, key, files, files = {})
        PROVE  Shrinks \/ Free(disk') >= Reserve
    <3> DEFINE full == files = {}
    <3>1. full \in BOOLEAN
      OBVIOUS
    <3> HIDE DEF full, Shrinks
    <3>2. CASE AcquireNew(c, key, files, full)
      BY <1>1, <3>1, <3>2, NewWorkspaceReserves
    <3>3. CASE AcquireShared(c, key, files, full)
      BY <1>1, <3>1, <3>3, SharingReserves
    <3>4. CASE AcquireFull(c, key)
      <4>1. disk' = disk
        BY <3>4 DEF AcquireFull
      <4> QED  BY <4>1 DEF Shrinks
    <3>5. CASE \/ RefuseNew(key, files, full) \/ RefuseMore(key, files, full)
               \/ AcquireFails(key, files, full) \/ ExpandFails(key, files, full)
      <4>1. \E D : disk' = Emptied(disk, D)
        BY <3>5 DEF RefuseNew, RefuseMore, AcquireFails, ExpandFails, Refused, OnlyEvict
      <4> QED  BY <4>1, <2>1
    <3> QED  BY <2>3, <3>2, <3>3, <3>4, <3>5 DEF Acquire, full
  <2>4. ASSUME NEW c \in Client, NEW lease \in holds[c], Release(c, lease) PROVE Shrinks
    <3>1. disk' = disk \/ disk' = Emptied(disk, {lease.key})
      BY <2>4 DEF Release, OnlyEvict
    <3> QED  BY <3>1, <2>1
  <2>5. ASSUME Restart \/ Outside \/ (\E k \in Key : Stick(k)) \/ UNCHANGED poolVars
        PROVE  Shrinks
    BY <2>5 DEF Restart, Outside, Stick, poolVars
  <2>6. ASSUME Shutdown PROVE Shrinks
    <3>1. disk' = Emptied(disk, DOMAIN pool)
      BY <2>6 DEF Shutdown, OnlyEvict
    <3> QED  BY <3>1, <2>1
  <2> HIDE DEF Shrinks
  <2>7. Shrinks \/ Free(disk') >= Reserve
    BY <1>1, <2>3, <2>4, <2>5, <2>6 DEF PoolNext
  <2> QED  BY <2>7 DEF Shrinks
<1> QED  BY <1>1, PoolInvariant, PTL DEF PoolSpec, ReserveStaysFree

-----------------------------------------------------------------------------
(* Child processes.                                                        *)

(* What run_process can have seen in one turn of its loop.                 *)
Sights == [out : {"unread", "error", "over", "within"}, exceeded : BOOLEAN,
           code : {"none", "0", "1", "128"}]

Types == ProcessTypeOK /\ seen \in Sights

(* The child starts until both files exist.  It has an exit code once it   *)
(* has ended, and with 0 it has written everything.                        *)
EndedChild ==
  /\ child = "starting" => opened < 2
  /\ child \in {"zombie", "reaped"} <=> exit # "none"
  /\ exit = "0" => output = Whole

(* The parent kills in its last turn, for a reason that it remembers, and  *)
(* has the status of a child in no turn but the last.                      *)
LastTurn ==
  /\ parent \in {"wait", "stdout", "stderr", "decide"} => ~killed /\ child # "reaped"
  /\ parent = "reap" =>
       /\ child # "reaped"
       /\ seen.code \in {"none", "0"}
       /\ seen.code = "0" => cancelled
  /\ killed => expired \/ cancelled \/ seen.exceeded

(* The status it concludes with: 0 is the child's own or a cancelled one's, *)
(* and no reaped child's 0 is mistaken for another status.                 *)
StatusIsExplained ==
  parent = "conclude" =>
    /\ seen.code = "0" => cancelled \/ exit = "0"
    /\ child = "reaped" /\ exit = "0" => seen.code = "0"

ProcessInv ==
  Types /\ EndedChild /\ LastTurn /\ StatusIsExplained /\ OutcomeIsGenuine

USE DEF ProcessInv, Types, ProcessTypeOK, Sights
-----------------------------------------------------------------------------
(* Lengths are natural numbers.                                            *)
LEMMA Lengths == Whole \in Nat /\ MaxOutput \in Nat /\ HasDeadline \in BOOLEAN
  BY ProcessAssumption

(* Initially the child has not opened a file, and nothing has been seen.   *)
LEMMA InvInit == ProcessInit => ProcessInv
<1> SUFFICES ASSUME ProcessInit PROVE ProcessInv
  OBVIOUS
<1> USE Lengths DEF ProcessInit, NotSeen, NoResult
<1>1. ProcessTypeOK
  <2>1. {killed, expired, cancelled} \subseteq BOOLEAN
    OBVIOUS
  <2>2. result.read <= MaxOutput
    OBVIOUS
  <2>3. opened \in 0 .. 2 /\ output \in 0 .. Whole
    OBVIOUS
  <2> QED  BY <2>1, <2>2, <2>3
<1>2. seen \in Sights
  OBVIOUS
<1>3. EndedChild /\ LastTurn /\ StatusIsExplained /\ OutcomeIsGenuine
  BY DEF EndedChild, LastTurn, StatusIsExplained, OutcomeIsGenuine, Verdicts
<1> QED  BY <1>1, <1>2, <1>3

(* What the child does changes nothing that the parent remembers, and once *)
(* it has ended it does nothing.                                           *)
LEMMA ChildSteps ==
  ASSUME ProcessInv, OpenFile \/ WriteOutput \/ Succeed \/ EndOtherwise
  PROVE  ProcessInv'
<1>1. UNCHANGED <<killed, signals, parent, seen, result>>
  BY DEF OpenFile, WriteOutput, Succeed, EndOtherwise
<1>2. /\ child' \in {"starting", "running", "zombie", "reaped"}
      /\ exit' \in {"none", "0", "1", "signal"}
  BY DEF OpenFile, WriteOutput, Succeed, EndOtherwise
<1>3. opened' \in 0 .. 2 /\ output' \in 0 .. Whole
  <2>1. CASE OpenFile
    BY <2>1 DEF OpenFile, EndedChild
  <2>2. CASE WriteOutput
    BY <2>2, Lengths DEF WriteOutput
  <2>3. CASE Succeed \/ EndOtherwise
    BY <2>3 DEF Succeed, EndOtherwise
  <2> QED  BY <2>1, <2>2, <2>3
<1>4. Types'
  BY <1>1, <1>2, <1>3 DEF signals
<1>5. EndedChild'
  BY Lengths DEF OpenFile, WriteOutput, Succeed, EndOtherwise, EndedChild
<1>6. LastTurn'
  BY <1>1 DEF OpenFile, WriteOutput, Succeed, EndOtherwise, LastTurn, signals
<1>7. StatusIsExplained'
  BY <1>1 DEF OpenFile, WriteOutput, Succeed, EndOtherwise, EndedChild,
         StatusIsExplained, signals
<1>8. OutcomeIsGenuine'
  BY <1>1 DEF OpenFile, WriteOutput, Succeed, EndOtherwise, EndedChild,
         OutcomeIsGenuine, Verdicts, signals
<1> QED  BY <1>4, <1>5, <1>6, <1>7, <1>8

(* Deadline and cancellation come once and stay.                           *)
LEMMA SignalSteps ==
  ASSUME ProcessInv, Expire \/ RequestCancellation
  PROVE  ProcessInv'
<1>1. /\ UNCHANGED <<theChild, killed, parent, seen, result>>
      /\ expired' \in {expired, TRUE} /\ cancelled' \in {cancelled, TRUE}
  BY DEF Expire, RequestCancellation
<1>2. Types'
  <2>1. {killed, expired, cancelled}' \subseteq BOOLEAN
    BY <1>1
  <2> QED  BY <1>1, <2>1 DEF theChild
<1>3. (expired => expired') /\ (cancelled => cancelled')
  BY DEF Expire, RequestCancellation
<1>4. EndedChild' /\ LastTurn' /\ StatusIsExplained' /\ OutcomeIsGenuine'
  BY <1>1, <1>3 DEF theChild, EndedChild, LastTurn, StatusIsExplained,
                    OutcomeIsGenuine, Verdicts
<1> QED  BY <1>2, <1>4

(* A turn of the parent's loop, up to its decision.                        *)
LEMMA LoopSteps ==
  ASSUME ProcessInv,
         Poll \/ PollFails \/ SizeOfStdout \/ SizeOfStderr \/ Decide \/ Reap
  PROVE  ProcessInv'
<1> USE DEF Poll, PollFails, SizeOfStdout, SizeOfStderr, Decide, Reap,
            NotSeen, Code, theChild, signals
<1>1. UNCHANGED <<opened, output, exit, expired, cancelled, result>>
  OBVIOUS
<1>2. /\ child' \in {child, "reaped"} /\ killed' \in {killed, TRUE}
      /\ parent' \in {"wait", "stdout", "stderr", "decide", "reap", "conclude"}
  OBVIOUS
<1>3. seen' \in Sights
  <2>1. NotSeen \in Sights /\ Code \in {"0", "1", "128"}
    OBVIOUS
  <2>2. ASSUME NEW e \in BOOLEAN PROVE [seen EXCEPT !.exceeded = e] \in Sights
    OBVIOUS
  <2>3. CASE SizeOfStderr
    BY <2>2, <2>3
  <2>4. CASE Poll \/ PollFails
    BY <2>4
  <2>5. CASE SizeOfStdout
    BY <2>5
  <2>6. CASE Decide
    BY <2>1, <2>6
  <2>7. CASE Reap
    BY <2>7
  <2> QED  BY <2>3, <2>4, <2>5, <2>6, <2>7
<1>4. Types'
  <2>1. {killed, expired, cancelled}' \subseteq BOOLEAN
    BY <1>1, <1>2
  <2> QED  BY <1>1, <1>2, <1>3, <2>1
<1>5. EndedChild'
  BY DEF EndedChild
<1>6. LastTurn'
  BY DEF LastTurn
<1>7. StatusIsExplained'
  BY DEF EndedChild, LastTurn, StatusIsExplained
<1>8. OutcomeIsGenuine'
  BY <1>2 DEF OutcomeIsGenuine, Verdicts
<1> QED  BY <1>4, <1>5, <1>6, <1>7, <1>8

(* The outcome.  A cut-off child has been killed for a reason, which makes *)
(* the outcome cancelled, timed out or truncated; what was read is all of  *)
(* a file that is not over the limit.                                      *)
LEMMA ConcludeStep ==
  ASSUME ProcessInv, Conclude
  PROVE  ProcessInv'
<1> USE DEF Conclude, theChild, signals
<1>1. /\ result'.code = seen.code
      /\ result'.cancelled = cancelled
      /\ result'.timed_out <=> expired /\ ~seen.exceeded
      /\ result'.truncated <=> seen.exceeded \/ output > MaxOutput
      /\ result'.read = IF output > MaxOutput THEN MaxOutput ELSE output
  OBVIOUS
<1>2. result'.read <= MaxOutput
  BY <1>1, Lengths
<1>3. Types' /\ EndedChild' /\ LastTurn' /\ StatusIsExplained'
  BY <1>2 DEF EndedChild, LastTurn, StatusIsExplained
<1>4. Verdicts' = "manifest" => exit' = "0" /\ result'.read = Whole
  <2>1. SUFFICES ASSUME ~cancelled, seen.code = "0", ~(output > MaxOutput)
                 PROVE  exit = "0" /\ output = Whole
    BY <1>1 DEF Verdicts
  <2> QED  BY <2>1 DEF StatusIsExplained, EndedChild
<1>5. Verdicts' = "failure" /\ child' = "reaped" => ~killed' /\ exit' # "0"
  BY <1>1 DEF Verdicts, StatusIsExplained, LastTurn
<1> QED  BY <1>3, <1>4, <1>5 DEF OutcomeIsGenuine

(* The invariant is inductive.                                             *)
LEMMA InvStep == ProcessInv /\ [ProcessNext]_processVars => ProcessInv'
<1> SUFFICES ASSUME ProcessInv, [ProcessNext]_processVars PROVE ProcessInv'
  OBVIOUS
<1>1. CASE ProcessNext
  BY <1>1, ChildSteps, SignalSteps, LoopSteps, ConcludeStep DEF ProcessNext
<1>2. CASE UNCHANGED processVars
  BY <1>2 DEF processVars, theChild, EndedChild, LastTurn, StatusIsExplained,
              OutcomeIsGenuine, Verdicts
<1> QED  BY <1>1, <1>2

(* For every length of output and every limit, with or without a deadline: *)
(* what passes for a manifest is the whole output of a child that ended    *)
(* with 0 by itself, and what is stored as a failure is one of the child's *)
(* own (run_process, run_task).                                            *)
THEOREM GenuineOutcome == ProcessSpec => []OutcomeIsGenuine
<1>1. ProcessInv => OutcomeIsGenuine
  OBVIOUS
<1> QED  BY InvInit, InvStep, <1>1, PTL DEF ProcessSpec

(* Every reachable state is well typed.                                    *)
THEOREM ProcessTypeCorrect == ProcessSpec => []ProcessTypeOK
<1>1. ProcessInv => ProcessTypeOK
  OBVIOUS
<1> QED  BY InvInit, InvStep, <1>1, PTL DEF ProcessSpec
===============================================================================
