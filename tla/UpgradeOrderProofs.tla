-------------------------- MODULE UpgradeOrderProofs --------------------------
(***************************************************************************)
(* Proofs about UpgradeOrder, for every topology.                          *)
(***************************************************************************)
EXTENDS UpgradeOrder, TLAPS

\* A multiple, with a remainder smaller than the divisor, says what it is.
LEMMA DivMod ==
    ASSUME NEW d \in Nat \ {0}, NEW q \in Nat, NEW r \in 0 .. d - 1
    PROVE  (q * d + r) \div d = q /\ (q * d + r) % d = r
OBVIOUS

LEMMA DivModOf ==
    ASSUME NEW d \in Nat \ {0}, NEW n \in Nat
    PROVE  /\ n \div d \in Nat
           /\ n % d \in 0 .. d - 1
           /\ n = (n \div d) * d + (n % d)
OBVIOUS

LEMMA ProductOfNats ==
    ASSUME NEW m \in Nat, NEW n \in Nat
    PROVE  m * n \in Nat
OBVIOUS

LEMMA ProductIsMonotone ==
    ASSUME NEW m \in Nat, NEW n \in Nat, NEW k \in Nat, m <= n
    PROVE  m * k <= n * k
OBVIOUS

\* The sizes that the two loops and the two replica counts work with.
LEMMA Sizes ==
    /\ ShardSize \in Nat \ {0}
    /\ Shards * ReplicasPerShard \in Nat
    /\ Shards * ReplicasPerShard + Shards = Shards * ShardSize
    /\ calculateReplicas \in Nat \ {0}
<1>1. ShardSize \in Nat \ {0} /\ Shards * ReplicasPerShard \in Nat
  BY TopologyAssumption, ProductOfNats DEF ShardSize
<1>2. Shards * ReplicasPerShard + Shards = Shards * ShardSize
  BY TopologyAssumption DEF ShardSize
<1> QED
  BY <1>1, <1>2, TopologyAssumption DEF calculateReplicas

\* What an entry of the order is, in cluster mode: first those of the replicas.
LEMMA ReplicaEntries ==
    ASSUME NEW k \in 1 .. Shards * ReplicasPerShard
    PROVE  \E s \in 0 .. Shards - 1, r \in 1 .. ReplicasPerShard :
               /\ k - 1 = s * ReplicasPerShard + (r - 1)
               /\ ReplicaOrder[k] = s * ShardSize + r
<1> DEFINE s == (k - 1) \div ReplicasPerShard
           r == ((k - 1) % ReplicasPerShard) + 1
<1>1. ReplicasPerShard \in Nat \ {0} /\ k - 1 \in Nat
  BY TopologyAssumption, Sizes
<1>2. /\ s \in Nat
      /\ r \in 1 .. ReplicasPerShard
      /\ k - 1 = s * ReplicasPerShard + (r - 1)
  BY <1>1, DivModOf
<1>3. s < Shards
  <2>1. SUFFICES ASSUME Shards <= s PROVE FALSE
    BY <1>2, TopologyAssumption
  <2>2. Shards * ReplicasPerShard <= s * ReplicasPerShard
    BY <2>1, <1>1, <1>2, TopologyAssumption, ProductIsMonotone
  <2>3. s * ReplicasPerShard \in Nat
    BY <1>1, <1>2, ProductOfNats
  <2> QED
    BY <1>2, <2>2, <2>3, Sizes
<1>4. ReplicaOrder[k] = s * ShardSize + r
  BY <1>1, <1>2, Sizes DEF ReplicaOrder
<1> QED
  BY <1>2, <1>3, <1>4, TopologyAssumption

\* The order, entry by entry, in cluster mode.
LEMMA ClusterOrder ==
    ASSUME Mode = "cluster"
    PROVE  /\ Order \in Seq(Int)
           /\ Len(Order) = calculateReplicas
           /\ \A k \in 1 .. calculateReplicas :
                  Order[k] = IF k <= Shards * ReplicasPerShard
                             THEN ReplicaOrder[k]
                             ELSE (k - Shards * ReplicasPerShard - 1) * ShardSize
<1>1. /\ ReplicaOrder \in Seq(Int)
      /\ Len(ReplicaOrder) = Shards * ReplicasPerShard
  <2>1. \A k \in 1 .. Shards * ReplicasPerShard : ReplicaOrder[k] \in Int
    BY ReplicaEntries, Sizes, TopologyAssumption, ProductOfNats
  <2> QED
    BY <2>1, Sizes DEF ReplicaOrder
<1>2. /\ MasterOrder \in Seq(Int)
      /\ Len(MasterOrder) = Shards
      /\ \A s \in 1 .. Shards : MasterOrder[s] = (s - 1) * ShardSize
  <2>1. \A s \in 1 .. Shards : (s - 1) * ShardSize \in Int
    BY Sizes, TopologyAssumption, ProductOfNats
  <2> QED
    BY <2>1, TopologyAssumption DEF MasterOrder
<1>3. Order = ReplicaOrder \o MasterOrder /\ calculateReplicas = Shards * ShardSize
  BY DEF Order, getClusterModeUpgradeOrder, calculateReplicas
<1>4. ASSUME NEW u \in Seq(Int), NEW v \in Seq(Int)
      PROVE  /\ u \o v \in Seq(Int)
             /\ Len(u \o v) = Len(u) + Len(v)
             /\ \A k \in 1 .. Len(u) + Len(v) :
                    (u \o v)[k] = IF k <= Len(u) THEN u[k] ELSE v[k - Len(u)]
  OBVIOUS
<1>5. /\ Order \in Seq(Int)
      /\ Len(Order) = calculateReplicas
      /\ \A k \in 1 .. calculateReplicas :
             Order[k] = IF k <= Shards * ReplicasPerShard
                        THEN ReplicaOrder[k]
                        ELSE MasterOrder[k - Shards * ReplicasPerShard]
  <2>1. /\ Order \in Seq(Int)
        /\ Len(Order) = Len(ReplicaOrder) + Len(MasterOrder)
        /\ \A k \in 1 .. Len(ReplicaOrder) + Len(MasterOrder) :
               Order[k] = IF k <= Len(ReplicaOrder)
                          THEN ReplicaOrder[k]
                          ELSE MasterOrder[k - Len(ReplicaOrder)]
    BY <1>1, <1>2, <1>3, <1>4
  <2>2. Len(ReplicaOrder) + Len(MasterOrder) = calculateReplicas
    BY <1>1, <1>2, <1>3, Sizes
  <2> QED
    BY <2>1, <2>2, <1>1
<1>6. ASSUME NEW k \in 1 .. calculateReplicas, ~(k <= Shards * ReplicasPerShard)
      PROVE  k - Shards * ReplicasPerShard \in 1 .. Shards
  BY <1>3, <1>6, Sizes, TopologyAssumption
<1> QED
  BY <1>2, <1>5, <1>6

\* A replica's entry leaves the remainder r, a master's leaves none.
LEMMA EntryOf ==
    ASSUME NEW s \in 0 .. Shards - 1, NEW r \in 0 .. ReplicasPerShard
    PROVE  /\ s * ShardSize + r \in 0 .. Shards * ShardSize - 1
           /\ (s * ShardSize + r) \div ShardSize = s
           /\ (s * ShardSize + r) % ShardSize = r
<1>1. ShardSize \in Nat \ {0} /\ s \in Nat /\ r \in 0 .. ShardSize - 1
  BY Sizes, TopologyAssumption DEF ShardSize
<1>2. (s + 1) * ShardSize <= Shards * ShardSize
  BY <1>1, TopologyAssumption, ProductIsMonotone
<1>3. (s + 1) * ShardSize = s * ShardSize + ShardSize /\ s * ShardSize \in Nat
  BY <1>1, ProductOfNats
<1>4. Shards * ShardSize \in Nat
  BY <1>1, TopologyAssumption, ProductOfNats
<1> QED
  BY <1>1, <1>2, <1>3, <1>4, DivMod

\* The manager has one turn for each pod the StatefulSet is given.
LEMMA OrderLength == Len(Order) = calculateReplicas
<1>1. CASE Mode = "cluster"
  BY <1>1, ClusterOrder
<1>2. CASE Mode # "cluster"
  BY <1>2, TopologyAssumption DEF Order, getMultiMasterUpgradeOrder, calculateReplicas
<1> QED
  BY <1>1, <1>2

\* The two ways an entry of the order comes about, in cluster mode: a replica's
\* for k up to Shards * ReplicasPerShard, a master's beyond.
LEMMA ReplicaEntry ==
    ASSUME Mode = "cluster", NEW k \in 1 .. Shards * ReplicasPerShard
    PROVE  \E s \in 0 .. Shards - 1, r \in 1 .. ReplicasPerShard :
               /\ k - 1 = s * ReplicasPerShard + (r - 1)
               /\ k \in 1 .. calculateReplicas
               /\ Order[k] = s * ShardSize + r
               /\ Order[k] \in Pods
               /\ Order[k] \div ShardSize = s
               /\ Order[k] % ShardSize = r
<1>1. PICK s \in 0 .. Shards - 1, r \in 1 .. ReplicasPerShard :
          /\ k - 1 = s * ReplicasPerShard + (r - 1)
          /\ ReplicaOrder[k] = s * ShardSize + r
  BY ReplicaEntries
<1>2. k \in 1 .. calculateReplicas /\ calculateReplicas = Shards * ShardSize
  BY Sizes, TopologyAssumption DEF calculateReplicas
<1>3. Order[k] = s * ShardSize + r
  BY <1>1, <1>2, ClusterOrder
<1>4. r \in 0 .. ReplicasPerShard
  BY TopologyAssumption
<1>5. /\ Order[k] \in Pods
      /\ Order[k] \div ShardSize = s
      /\ Order[k] % ShardSize = r
  BY <1>2, <1>3, <1>4, EntryOf DEF Pods
<1> QED
  BY <1>1, <1>2, <1>3, <1>5

LEMMA MasterEntry ==
    ASSUME Mode = "cluster", NEW k \in 1 .. calculateReplicas,
           ~(k <= Shards * ReplicasPerShard)
    PROVE  LET s == k - Shards * ReplicasPerShard - 1
           IN  /\ s \in 0 .. Shards - 1
               /\ Order[k] = s * ShardSize
               /\ Order[k] \in Pods
               /\ Order[k] \div ShardSize = s
               /\ Order[k] % ShardSize = 0
<1> DEFINE s == k - Shards * ReplicasPerShard - 1
<1>1. calculateReplicas = Shards * ShardSize
  BY DEF calculateReplicas
<1>2. s \in 0 .. Shards - 1
  BY <1>1, Sizes, TopologyAssumption
<1>3. Order[k] = s * ShardSize
  BY ClusterOrder
<1>4. 0 \in 0 .. ReplicasPerShard /\ s * ShardSize + 0 = s * ShardSize
  BY <1>2, Sizes, TopologyAssumption, ProductOfNats
<1>5. /\ s * ShardSize + 0 \in 0 .. Shards * ShardSize - 1
      /\ (s * ShardSize + 0) \div ShardSize = s
      /\ (s * ShardSize + 0) % ShardSize = 0
  BY <1>2, <1>4, EntryOf
<1> QED
  BY <1>1, <1>2, <1>3, <1>4, <1>5 DEF Pods

\* In cluster mode the manager's own order (getClusterModeUpgradeOrder) keeps
\* the promise of the comment above it: every replica comes before any master.
THEOREM ReplicasBeforeMasters ==
    ASSUME Mode = "cluster",
           NEW j \in 1 .. calculateReplicas, ~IsMaster(Order[j]),
           NEW k \in 1 .. calculateReplicas, IsMaster(Order[k])
    PROVE  j < k
<1>1. j <= Shards * ReplicasPerShard
  BY MasterEntry DEF IsMaster
<1>2. ~(k <= Shards * ReplicasPerShard)
  <2>1. SUFFICES ASSUME k <= Shards * ReplicasPerShard PROVE FALSE
    OBVIOUS
  <2>2. k \in 1 .. Shards * ReplicasPerShard
    BY <2>1, Sizes
  <2>3. \E r \in 1 .. ReplicasPerShard : Order[k] % ShardSize = r
    BY <2>2, ReplicaEntry
  <2> QED
    BY <2>3, TopologyAssumption DEF IsMaster
<1> QED
  BY <1>1, <1>2, Sizes

\* Whatever the topology, the manager takes each pod of the StatefulSet once
\* (calculateReplicas and the upgrade orders agree, though they share no code).
THEOREM OrderVisitsEveryPodOnce ==
    /\ Len(Order) = calculateReplicas
    /\ \A k \in 1 .. calculateReplicas : Order[k] \in Pods
    /\ \A j, k \in 1 .. calculateReplicas : Order[j] = Order[k] => j = k
<1>1. CASE Mode = "cluster"
  <2>1. ASSUME NEW k \in 1 .. calculateReplicas PROVE Order[k] \in Pods
    <3>1. CASE k <= Shards * ReplicasPerShard
      BY <1>1, <3>1, ReplicaEntry, Sizes
    <3>2. CASE ~(k <= Shards * ReplicasPerShard)
      BY <1>1, <3>2, MasterEntry
    <3> QED
      BY <3>1, <3>2
  <2>2. ASSUME NEW j \in 1 .. calculateReplicas, NEW k \in 1 .. calculateReplicas,
               Order[j] = Order[k]
        PROVE  j = k
    <3>1. CASE j <= Shards * ReplicasPerShard /\ k <= Shards * ReplicasPerShard
      <4>1. PICK s \in 0 .. Shards - 1, r \in 1 .. ReplicasPerShard :
                /\ j - 1 = s * ReplicasPerShard + (r - 1)
                /\ Order[j] \div ShardSize = s
                /\ Order[j] % ShardSize = r
        BY <1>1, <3>1, ReplicaEntry, Sizes
      <4>2. PICK t \in 0 .. Shards - 1, q \in 1 .. ReplicasPerShard :
                /\ k - 1 = t * ReplicasPerShard + (q - 1)
                /\ Order[k] \div ShardSize = t
                /\ Order[k] % ShardSize = q
        BY <1>1, <3>1, ReplicaEntry, Sizes
      <4>3. s = t /\ r = q
        BY <2>2, <4>1, <4>2
      <4>4. j - 1 = k - 1
        BY <4>1, <4>2, <4>3
      <4> QED
        BY <4>4, Sizes
    <3>2. CASE ~(j <= Shards * ReplicasPerShard) /\ ~(k <= Shards * ReplicasPerShard)
      <4>1. j - Shards * ReplicasPerShard - 1 = k - Shards * ReplicasPerShard - 1
        BY <1>1, <2>2, <3>2, MasterEntry
      <4> QED
        BY <4>1, Sizes
    <3>3. ASSUME NEW m \in 1 .. calculateReplicas, NEW n \in 1 .. calculateReplicas,
                 m <= Shards * ReplicasPerShard, ~(n <= Shards * ReplicasPerShard)
          PROVE  Order[m] # Order[n]
      <4>1. \E r \in 1 .. ReplicasPerShard : Order[m] % ShardSize = r
        BY <1>1, <3>3, ReplicaEntry, Sizes
      <4>2. Order[n] % ShardSize = 0
        BY <1>1, <3>3, MasterEntry
      <4> QED
        BY <4>1, <4>2, TopologyAssumption
    <3> QED
      BY <2>2, <3>1, <3>2, <3>3
  <2> QED
    BY <2>1, <2>2, OrderLength
<1>2. CASE Mode # "cluster"
  BY <1>2, OrderLength, TopologyAssumption
     DEF Order, getMultiMasterUpgradeOrder, calculateReplicas, Pods
<1> QED
  BY <1>1, <1>2

\* Every pod of the StatefulSet has its turn.
LEMMA EveryPodHasATurn ==
    ASSUME NEW i \in Pods
    PROVE  \E k \in 1 .. Len(Order) : Order[k] = i
<1>1. CASE Mode = "cluster"
  <2> DEFINE s == i \div ShardSize
             r == i % ShardSize
  <2>1. /\ calculateReplicas = Shards * ShardSize
        /\ ShardSize \in Nat \ {0} /\ ShardSize = 1 + ReplicasPerShard
        /\ i \in Nat /\ i < Shards * ShardSize
    BY <1>1, Sizes DEF calculateReplicas, Pods, ShardSize
  <2>2. s \in Nat /\ r \in 0 .. ShardSize - 1 /\ i = s * ShardSize + r
    BY <2>1, DivModOf
  <2> HIDE DEF s, r
  <2>3. s \in 0 .. Shards - 1
    <3>1. SUFFICES ASSUME Shards <= s PROVE FALSE
      BY <2>2, TopologyAssumption
    <3>2. Shards * ShardSize <= s * ShardSize /\ s * ShardSize \in Nat
      BY <2>1, <2>2, <3>1, TopologyAssumption, ProductIsMonotone, ProductOfNats
    <3> QED
      BY <2>1, <2>2, <3>2, Sizes
  <2>4. CASE r = 0
    <3>1. PICK k : k = Shards * ReplicasPerShard + s + 1
      OBVIOUS
    <3>2. /\ k \in 1 .. calculateReplicas
          /\ ~(k <= Shards * ReplicasPerShard)
          /\ k - Shards * ReplicasPerShard - 1 = s
      BY <2>1, <2>2, <2>3, <3>1, Sizes, TopologyAssumption
    <3>3. Order[k] = s * ShardSize
      BY <1>1, <3>2, ClusterOrder
    <3>4. s * ShardSize = i
      BY <2>1, <2>2, <2>4, ProductOfNats
    <3> QED
      BY <3>2, <3>3, <3>4, OrderLength
  <2>5. CASE r # 0
    <3>1. PICK k : k = s * ReplicasPerShard + r
      OBVIOUS
    <3>2. ReplicasPerShard \in Nat \ {0} /\ r \in 1 .. ReplicasPerShard
      BY <2>1, <2>2, <2>5, TopologyAssumption
    <3>3. /\ s * ReplicasPerShard \in Nat
          /\ (s + 1) * ReplicasPerShard <= Shards * ReplicasPerShard
          /\ (s + 1) * ReplicasPerShard = s * ReplicasPerShard + ReplicasPerShard
      BY <2>3, <3>2, TopologyAssumption, ProductOfNats, ProductIsMonotone
    <3>4. k \in 1 .. Shards * ReplicasPerShard /\ k \in 1 .. calculateReplicas
      BY <2>1, <3>1, <3>2, <3>3, Sizes, TopologyAssumption
    <3>5. k - 1 = s * ReplicasPerShard + (r - 1) /\ r - 1 \in 0 .. ReplicasPerShard - 1
      BY <3>1, <3>2, <3>3
    <3>6. (k - 1) \div ReplicasPerShard = s /\ (k - 1) % ReplicasPerShard = r - 1
      BY <2>2, <3>2, <3>5, DivMod
    <3>7. Order[k] = s * ShardSize + (r - 1) + 1
      BY <1>1, <3>4, <3>6, ClusterOrder DEF ReplicaOrder
    <3>8. s * ShardSize \in Nat
      BY <2>1, <2>2, ProductOfNats
    <3> QED
      BY <2>2, <3>2, <3>4, <3>7, <3>8, OrderLength
  <2> QED
    BY <2>4, <2>5
<1>2. CASE Mode # "cluster"
  <2>1. i + 1 \in 1 .. Replicas /\ Order[i + 1] = i
    BY <1>2, TopologyAssumption DEF Order, getMultiMasterUpgradeOrder, calculateReplicas, Pods
  <2> QED
    BY <1>2, <2>1, OrderLength DEF calculateReplicas
<1> QED
  BY <1>1, <1>2
=============================================================================
