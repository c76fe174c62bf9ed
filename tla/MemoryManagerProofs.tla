------------------------ MODULE MemoryManagerProofs ------------------------
(***************************************************************************)
(* The descriptor table of MemoryManager is sound for a pool of any size,  *)
(* any requests and any addresses given to the free.                       *)
(*                                                                         *)
(* The conjuncts need each other.  A free releases block_size[d]           *)
(* descriptors from d: the tiling says that exactly those are used, which  *)
(* keeps the counters right, and the counters stay in range because they   *)
(* are cardinalities of subsets of the table.  The tiling is kept by an    *)
(* allocation because no free descriptor holds a length any more.          *)
(***************************************************************************)
EXTENDS MemoryManager, FiniteSetTheorems, WellFoundedInduction, TLAPS

Inv == TypeOK /\ CountersMatchTable /\ RunsTileTable

\* A request of at least one byte takes at least one block.
LEMMA RequiredBlocksType ==
    ASSUME NEW bytes \in Nat
    PROVE  /\ MmpGetRequiredBlocksFromBytes(bytes) \in Nat
           /\ bytes # 0 => MmpGetRequiredBlocksFromBytes(bytes) > 0
BY GeometryAssumption DEF MmpGetRequiredBlocksFromBytes

\* Every address of the pool has a descriptor in the table.
LEMMA DescOfPoolAddress ==
    ASSUME NEW addr \in PoolAddresses
    PROVE  MmpGetDescAddrFromPoolAddr(addr) \in Blocks
<1> DEFINE x == addr - pPoolEntry
<1>1. x \in Nat /\ x < nBlocks * MEM_BLK_SIZE
  BY GeometryAssumption DEF PoolAddresses, MmpGetPoolAddrFromDescAddr
<1>2. \A y \in Nat, n \in Nat, b \in Nat \ {0} : y < n * b => y \div b \in 0 .. (n - 1)
  OBVIOUS
<1> QED
  BY <1>1, <1>2, GeometryAssumption DEF MmpGetDescAddrFromPoolAddr, Blocks

\* A run of n descriptors has n descriptors.
LEMMA RunCardinality ==
    ASSUME NEW s \in Nat, NEW n \in Nat
    PROVE  IsFiniteSet(Run(s, n)) /\ Cardinality(Run(s, n)) = n
BY FS_Interval DEF Run

\* The used and the free descriptors are finitely many, at most nBlocks.
LEMMA TableFinite ==
    /\ IsFiniteSet(UsedBlocks) /\ Cardinality(UsedBlocks) \in 0 .. nBlocks
    /\ IsFiniteSet(FreeBlocks) /\ Cardinality(FreeBlocks) \in 0 .. nBlocks
<1>1. IsFiniteSet(Blocks) /\ Cardinality(Blocks) = nBlocks
  BY GeometryAssumption, FS_Interval DEF Blocks
<1>2. UsedBlocks \in SUBSET Blocks /\ FreeBlocks \in SUBSET Blocks
  BY DEF UsedBlocks, FreeBlocks
<1> QED
  BY <1>1, <1>2, FS_Subset, FS_CardinalityType, GeometryAssumption

\* Taking a run of n descriptors out of a set, and adding it to another.
LEMMA TakeRun ==
    ASSUME NEW S, IsFiniteSet(S), NEW s \in Nat, NEW n \in Nat, Run(s, n) \subseteq S
    PROVE  Cardinality(S \ Run(s, n)) = Cardinality(S) - n
<1>1. Cardinality(S \ Run(s, n)) = Cardinality(S) - Cardinality(S \cap Run(s, n))
  BY FS_Difference, Zenon
<1>2. S \cap Run(s, n) = Run(s, n)
  OBVIOUS
<1> QED
  BY <1>1, <1>2, RunCardinality

LEMMA AddRun ==
    ASSUME NEW S, IsFiniteSet(S), NEW s \in Nat, NEW n \in Nat, Run(s, n) \cap S = {}
    PROVE  Cardinality(S \cup Run(s, n)) = Cardinality(S) + n
<1>1. IsFiniteSet(Run(s, n))
  BY RunCardinality
<1>2. Cardinality(S \cup Run(s, n))
        = Cardinality(S) + Cardinality(Run(s, n)) - Cardinality(S \cap Run(s, n))
  BY <1>1, FS_Union, Zenon
<1>3. S \cap Run(s, n) = {}
  OBVIOUS
<1>4. Cardinality(S) \in Nat /\ Cardinality(Run(s, n)) = n
  BY RunCardinality, FS_CardinalityType
<1>5. Cardinality(S \cap Run(s, n)) = 0
  BY <1>3, FS_EmptySet
<1> QED
  BY <1>2, <1>4, <1>5

\* At boot every descriptor is free and no run starts anywhere, even with
\* garbage in the length of the first descriptor.
LEMMA InvInit == Init => Inv
<1> SUFFICES ASSUME Init PROVE Inv
  OBVIOUS
<1>1. TypeOK
  BY GeometryAssumption, InputAssumption DEF Init, TypeOK, Blocks, FREE, USED
<1>2. UsedBlocks = {} /\ FreeBlocks = Blocks
  BY DEF Init, UsedBlocks, FreeBlocks, FREE, USED
<1>3. CountersMatchTable
  BY <1>2, FS_EmptySet, FS_Interval, GeometryAssumption
  DEF Init, CountersMatchTable, Blocks
<1>4. RunsTileTable
  BY GeometryAssumption DEF Init, RunsTileTable, RunStart, FREE, USED, Blocks
<1> QED
  BY <1>1, <1>3, <1>4 DEF Inv

\* Allocation keeps the table sound.
LEMMA GrantInv ==
    ASSUME Inv, NEW bytes \in Requests, Grant(bytes)
    PROVE  Inv'
<1> DEFINE n == MmpGetRequiredBlocksFromBytes(bytes)
<1>1. n \in Nat \ {0}
  BY RequiredBlocksType, InputAssumption DEF Grant
<1>2. PICK s \in Blocks :
        /\ FirstFit(s, n)
        /\ MarkRun(s, n)
        /\ reply' = [op |-> "alloc", arg |-> bytes,
                     ret |-> MmpGetPoolAddrFromDescAddr(s)]
  BY DEF Grant
<1>3. s \in Nat /\ s + n < nBlocks /\ \A d \in Run(s, n) : status[d] = FREE
  BY <1>2, GeometryAssumption DEF FirstFit, HoleAt, Blocks
<1>4. Run(s, n) \subseteq Blocks /\ s \in Run(s, n)
  BY <1>1, <1>3, GeometryAssumption DEF Run, Blocks
<1> HIDE DEF n
<1>5. /\ nFreeBlocks' = nFreeBlocks - n
      /\ nUsedBlocks' = nUsedBlocks + n
  BY DEF Grant, n
<1>6. CountersMatchTable' /\ nUsedBlocks' \in 0 .. nBlocks /\ nFreeBlocks' \in 0 .. nBlocks
  <2>1. Run(s, n) \subseteq FreeBlocks /\ Run(s, n) \cap UsedBlocks = {}
    BY <1>3, <1>4 DEF FreeBlocks, UsedBlocks, FREE, USED
  <2>2. UsedBlocks' = UsedBlocks \cup Run(s, n) /\ FreeBlocks' = FreeBlocks \ Run(s, n)
    BY <1>2, <1>4 DEF MarkRun, FreeBlocks, UsedBlocks, FREE, USED
  <2>3. /\ Cardinality(FreeBlocks') = Cardinality(FreeBlocks) - n
        /\ Cardinality(UsedBlocks') = Cardinality(UsedBlocks) + n
    <3>1. n \in Nat /\ s \in Nat /\ IsFiniteSet(FreeBlocks) /\ IsFiniteSet(UsedBlocks)
      BY <1>1, <1>3, TableFinite
    <3>2. Cardinality(FreeBlocks \ Run(s, n)) = Cardinality(FreeBlocks) - n
      BY <2>1, <3>1, TakeRun, Zenon
    <3>3. Cardinality(UsedBlocks \cup Run(s, n)) = Cardinality(UsedBlocks) + n
      BY <2>1, <3>1, AddRun, Zenon
    <3> QED
      BY <2>2, <3>2, <3>3
  <2>4. TableFinite'
    BY TableFinite, PTL
  <2> QED
    BY <1>1, <1>5, <2>3, <2>4, TableFinite
    DEF Inv, CountersMatchTable
<1>7. TypeOK'
  BY <1>1, <1>2, <1>4, <1>6 DEF Inv, TypeOK, MarkRun, USED
<1>8. RunsTileTable'
  <2>1. \A e \in Blocks :
          /\ e \in Run(s, n) => status'[e] = USED
          /\ e \notin Run(s, n) => status'[e] = status[e]
          /\ e = s => block_size'[e] = n
          /\ e # s => block_size'[e] = block_size[e]
    BY <1>2 DEF MarkRun, Inv, TypeOK
  <2>2. \A e \in Run(s, n) \ {s} : block_size[e] = 0
    BY <1>3, <1>4 DEF Inv, RunsTileTable, Run, Blocks
  <2>3. ASSUME NEW d \in Blocks, RunStart(d)' PROVE RunIsWhole(d)'
    <3>1. CASE d = s
      BY <1>1, <1>3, <1>4, <2>1, <2>2, <3>1 DEF RunIsWhole, Run
    <3>2. CASE d # s
      <4>1. RunStart(d) /\ block_size'[d] = block_size[d] /\ d \notin Run(s, n)
        BY <2>1, <2>2, <2>3, <3>2 DEF RunStart
      <4>2. RunIsWhole(d)
        BY <4>1 DEF Inv, RunsTileTable
      <4>3. block_size[d] \in Nat /\ Run(d, block_size[d]) \subseteq Blocks
        BY <4>2, GeometryAssumption DEF RunIsWhole, Run, Blocks, Inv, TypeOK
      <4>4. s \notin Run(d, block_size[d])
        BY <1>3, <1>4, <4>2 DEF RunIsWhole, FREE, USED
      <4> QED
        BY <2>1, <4>1, <4>2, <4>3, <4>4 DEF RunIsWhole
    <3> QED
      BY <3>1, <3>2
  <2>4. ASSUME NEW e \in Blocks, status'[e] = USED
        PROVE  \E d \in 0 .. e : RunStart(d)' /\ e < d + block_size'[d]
    <3>1. CASE e \in Run(s, n)
      <4>1. s \in 0 .. e /\ e < s + n
        BY <1>1, <1>3, <3>1 DEF Run
      <4> QED
        BY <1>1, <1>4, <2>1, <4>1 DEF RunStart
    <3>2. CASE e \notin Run(s, n)
      <4>1. PICK d \in 0 .. e : RunStart(d) /\ e < d + block_size[d]
        BY <2>1, <2>4, <3>2 DEF Inv, RunsTileTable
      <4>2. d \in Blocks
        BY GeometryAssumption DEF Blocks
      <4>3. d \notin Run(s, n)
        BY <1>3, <4>1 DEF RunStart, FREE, USED
      <4> QED
        BY <1>4, <2>1, <4>1, <4>2, <4>3 DEF RunStart
    <3> QED
      BY <3>1, <3>2
  <2>5. \A e \in Blocks \ {0} : status'[e] = FREE => block_size'[e] = 0
    BY <1>4, <2>1 DEF Inv, RunsTileTable, FREE, USED
  <2> QED
    BY <2>3, <2>4, <2>5 DEF RunsTileTable
<1> QED
  BY <1>6, <1>7, <1>8 DEF Inv

\* Freeing keeps the table sound: at the start of a run the loop releases
\* exactly the run, inside a run it has a length of 0 to release.
LEMMA FreeInv ==
    ASSUME Inv, NEW addr \in PoolAddresses \cup {NULL}, MmFreeNonCachedMemory(addr)
    PROVE  Inv'
<1> DEFINE d == MmpGetDescAddrFromPoolAddr(addr)
           n == block_size[d]
<1>1. CASE addr # NULL /\ status[d] = USED /\ ReleaseRun(d)
  <2>1. d \in Blocks
    BY <1>1, DescOfPoolAddress
  <2> HIDE DEF d
  <2>2. n \in Nat
    BY <2>1 DEF Inv, TypeOK
  <2>3. /\ Run(d, n) \subseteq Blocks
        /\ n > 0 => d + n < nBlocks
        /\ \A e \in Run(d, n) : status[e] = USED
        /\ \A e \in Run(d, n) \ {d} : block_size[e] = 0
    <3>1. CASE n = 0
      BY <2>1, <3>1, GeometryAssumption DEF Run, Blocks
    <3>2. CASE n > 0
      <4>1. RunIsWhole(d)
        BY <1>1, <2>1, <3>2 DEF Inv, RunsTileTable, RunStart
      <4> QED
        BY <2>1, <2>2, <4>1, GeometryAssumption DEF RunIsWhole, Run, Blocks
    <3> QED
      BY <2>2, <3>1, <3>2
  <2>4. /\ status' = [e \in Blocks |-> IF e \in Run(d, n) THEN FREE ELSE status[e]]
        /\ block_size' = [e \in Blocks |-> IF e \in Run(d, n) THEN 0 ELSE block_size[e]]
        /\ nFreeBlocks' = nFreeBlocks + n
        /\ nUsedBlocks' = nUsedBlocks - n
        /\ reply' = [op |-> "free", arg |-> addr, ret |-> NULL]
    BY <1>1 DEF ReleaseRun, MmFreeNonCachedMemory
  <2>5. \A e \in Run(d, block_size[d]) \ {d} : block_size[e] = 0
    BY <2>3
  <2>6. n \in Nat /\ d \in Nat
    BY <2>1, <2>2, GeometryAssumption DEF Blocks
  <2> HIDE DEF n
  <2>7. CountersMatchTable' /\ nUsedBlocks' \in 0 .. nBlocks /\ nFreeBlocks' \in 0 .. nBlocks
    <3>1. Run(d, n) \subseteq UsedBlocks /\ Run(d, n) \cap FreeBlocks = {}
      BY <2>3 DEF FreeBlocks, UsedBlocks, FREE, USED
    <3>2. UsedBlocks' = UsedBlocks \ Run(d, n) /\ FreeBlocks' = FreeBlocks \cup Run(d, n)
      BY <2>3, <2>4 DEF FreeBlocks, UsedBlocks, FREE, USED
    <3>3. IsFiniteSet(FreeBlocks) /\ IsFiniteSet(UsedBlocks)
      BY TableFinite
    <3>4. Cardinality(UsedBlocks \ Run(d, n)) = Cardinality(UsedBlocks) - n
      BY <2>6, <3>1, <3>3, TakeRun, Zenon
    <3>5. Cardinality(FreeBlocks \cup Run(d, n)) = Cardinality(FreeBlocks) + n
      BY <2>6, <3>1, <3>3, AddRun, Zenon
    <3>6. TableFinite'
      BY TableFinite, PTL
    <3>7. /\ Cardinality(FreeBlocks') = Cardinality(FreeBlocks) + n
          /\ Cardinality(UsedBlocks') = Cardinality(UsedBlocks) - n
      BY <3>2, <3>4, <3>5
    <3> QED
      BY <2>4, <2>6, <3>6, <3>7, TableFinite DEF Inv, CountersMatchTable
  <2>8. TypeOK'
    BY <2>4, <2>7 DEF Inv, TypeOK
  <2>9. RunsTileTable'
    <3>1. ASSUME NEW b \in Blocks, RunStart(b)'
          PROVE  RunIsWhole(b)'
      <4>1. RunStart(b) /\ b \notin Run(d, n) /\ block_size'[b] = block_size[b]
        BY <2>4, <3>1 DEF RunStart, FREE, USED
      <4>2. RunIsWhole(b)
        BY <4>1 DEF Inv, RunsTileTable
      <4>3. block_size[b] \in Nat /\ b \in Nat /\ Run(b, block_size[b]) \subseteq Blocks
        BY <4>2, GeometryAssumption DEF RunIsWhole, Run, Blocks, Inv, TypeOK
      <4>4. Run(b, block_size[b]) \cap Run(d, n) = {}
        <5> SUFFICES ASSUME NEW e \in Run(b, block_size[b]) \cap Run(d, n)
                     PROVE  FALSE
          OBVIOUS
        <5>1. b # d /\ (b < d => d \in Run(b, block_size[b])) /\ (d < b => b \in Run(d, n))
          BY <2>6, <4>1, <4>3 DEF Run, n
        <5>2. b < d
          BY <2>6, <4>1, <4>3, <5>1
        <5>3. block_size[d] = 0
          BY <4>2, <5>1, <5>2 DEF RunIsWhole
        <5>4. Run(d, n) = {}
          BY <2>6, <5>3 DEF Run, n
        <5> QED
          BY <5>4
      <4> QED
        BY <2>4, <4>1, <4>2, <4>3, <4>4 DEF RunIsWhole
    <3>2. ASSUME NEW e \in Blocks, status'[e] = USED
          PROVE  \E b \in 0 .. e : RunStart(b)' /\ e < b + block_size'[b]
      <4>1. status[e] = USED /\ e \notin Run(d, n)
        BY <2>4, <3>2 DEF FREE, USED
      <4>2. PICK b \in 0 .. e : RunStart(b) /\ e < b + block_size[b]
        BY <4>1 DEF Inv, RunsTileTable
      <4>3. b \in Blocks /\ e \in Nat /\ b \in Nat
        BY GeometryAssumption DEF Blocks
      <4>4. b \notin Run(d, n)
        <5> SUFFICES ASSUME b \in Run(d, n) PROVE FALSE
          OBVIOUS
        <5>1. b # d => block_size[b] = 0
          BY <2>3 
        <5>2. b = d
          BY <4>2, <5>1 DEF RunStart
        <5> QED
          BY <2>6, <4>1, <4>2, <4>3, <5>2 DEF Run, n
      <4> QED
        BY <2>4, <4>2, <4>3, <4>4 DEF RunStart
    <3>3. \A e \in Blocks \ {0} : status'[e] = FREE => block_size'[e] = 0
      BY <2>4 DEF Inv, RunsTileTable
    <3> QED
      BY <3>1, <3>2, <3>3 DEF RunsTileTable
  <2> QED
    BY <2>7, <2>8, <2>9 DEF Inv
<1>2. CASE UNCHANGED <<status, block_size, nUsedBlocks, nFreeBlocks>>
  <2>1. reply' = [op |-> "free", arg |-> addr, ret |-> NULL]
    BY DEF MmFreeNonCachedMemory
  <2> QED
    BY <1>2, <2>1 DEF Inv, TypeOK, CountersMatchTable, UsedBlocks, FreeBlocks,
                      RunsTileTable, RunStart, RunIsWhole
<1> QED
  BY <1>1, <1>2 DEF MmFreeNonCachedMemory

LEMMA InvStep == Inv /\ [Next]_vars => Inv'
<1> SUFFICES ASSUME Inv, [Next]_vars PROVE Inv'
  OBVIOUS
<1>1. CASE \E bytes \in Requests : Grant(bytes)
  BY <1>1, GrantInv
<1>2. CASE \E bytes \in Requests : Refuse(bytes)
  BY <1>2 DEF Refuse, Inv, TypeOK, CountersMatchTable, UsedBlocks, FreeBlocks,
              RunsTileTable, RunStart, RunIsWhole
<1>3. CASE \E addr \in PoolAddresses \cup {NULL} : MmFreeNonCachedMemory(addr)
  BY <1>3, FreeInv
<1>4. CASE UNCHANGED vars
  BY <1>4 DEF vars, Inv, TypeOK, CountersMatchTable, UsedBlocks, FreeBlocks,
              RunsTileTable, RunStart, RunIsWhole
<1> QED
  BY <1>1, <1>2, <1>3, <1>4 DEF Next, MmAllocateNonCachedMemory

\* Whatever is requested and freed, the variables keep their types and the
\* block counters stay between 0 and nBlocks: they never wrap.
THEOREM TypeCorrect == Spec => []TypeOK
<1>1. Inv => TypeOK
  BY DEF Inv
<1> QED
  BY <1>1, InvInit, InvStep, PTL DEF Spec

\* nUsedBlocks and nFreeBlocks always are the numbers of used and free
\* descriptors, even after a double free or a free inside a run.
THEOREM CountersCorrect == Spec => []CountersMatchTable
<1>1. Inv => CountersMatchTable
  BY DEF Inv
<1> QED
  BY <1>1, InvInit, InvStep, PTL DEF Spec

\* The used descriptors are tiled by whole runs: the jump of the scan always
\* lands on a descriptor of the table, and a free releases whole runs only.
THEOREM TilingCorrect == Spec => []RunsTileTable
<1>1. Inv => RunsTileTable
  BY DEF Inv
<1> QED
  BY <1>1, InvInit, InvStep, PTL DEF Spec

----------------------------------------------------------------------------
(***************************************************************************)
(* The descriptor table implements the pool of disjoint allocations of     *)
(* BlockPool, for a pool of any size.                                      *)
(*                                                                         *)
(* What needs an argument is the refusal: that a scan which jumps from run *)
(* to run, and stops before the last descriptor, has missed no hole.       *)
(* Given any hole, the free descriptors before it lead back to the end of  *)
(* a run, or to the start of the table, and the scan starts there.  Going  *)
(* back is the choice of a least descriptor, which the library gives for   *)
(* finite sets ordered by inclusion.                                       *)
(***************************************************************************)

\* Every set of natural numbers that is not empty has a least member: of the
\* intervals that end in it, one has no other inside it.
LEMMA LeastNumber ==
    ASSUME NEW X, X \subseteq Nat, X # {}
    PROVE  \E m \in X : \A y \in X : m <= y
<1> DEFINE Upto == {0 .. x : x \in X}
<1>1. Upto \subseteq FiniteSubsetsOf(Nat)
  <2> SUFFICES ASSUME NEW x \in X PROVE 0 .. x \in FiniteSubsetsOf(Nat)
    OBVIOUS
  <2>1. IsFiniteSet(0 .. x)
    BY FS_Interval
  <2>2. 0 .. x \subseteq Nat
    OBVIOUS
  <2> QED
    BY <2>1, <2>2 DEF FiniteSubsetsOf
<1>2. Upto # {}
  OBVIOUS
<1>3. IsWellFoundedOn(StrictSubsetOrdering(Nat), FiniteSubsetsOf(Nat))
  BY FS_StrictSubsetOrderingWellFounded
<1> HIDE DEF Upto
<1>4. PICK I \in Upto : \A J \in Upto : ~ (<<J, I>> \in StrictSubsetOrdering(Nat))
  BY <1>1, <1>2, <1>3, WFMin, Zenon
<1>5. PICK m \in X : I = 0 .. m
  BY DEF Upto
<1>6. ASSUME NEW y \in X, y < m PROVE FALSE
  <2>1. 0 .. y \in Upto
    BY DEF Upto
  <2>2. 0 .. y \subseteq 0 .. m /\ 0 .. m \subseteq Nat /\ m \notin 0 .. y /\ m \in 0 .. m
    BY <1>6
  <2>3. <<0 .. y, 0 .. m>> \in StrictSubsetOrdering(Nat)
    BY <2>2 DEF StrictSubsetOrdering
  <2> QED
    BY <1>4, <1>5, <2>1, <2>3
<1> QED
  BY <1>6

----------------------------------------------------------------------------
(* The scan misses no hole.                                                *)

\* From any hole the free descriptors lead back to a place the scan starts at.
LEMMA ScanStartBefore ==
    ASSUME Inv, NEW n \in Nat \ {0}, NEW s \in Blocks, HoleAt(s, n)
    PROVE  \E r \in Blocks : ScanStart(r) /\ HoleAt(r, n)
<1> DEFINE F == {r \in 0 .. s : \A d \in r .. (s + n - 1) : status[d] = FREE}
<1>1. s \in Nat /\ s + n < nBlocks /\ nBlocks \in Nat
  BY GeometryAssumption DEF Blocks, HoleAt
<1>2. s \in F /\ F \subseteq Nat
  BY <1>1 DEF HoleAt, Run
<1> HIDE DEF F
<1>3. PICK r \in F : \A y \in F : r <= y
  BY <1>2, LeastNumber, Zenon
<1>4. r \in 0 .. s /\ \A d \in r .. (s + n - 1) : status[d] = FREE
  BY DEF F
<1>5. r \in Blocks /\ r \in Nat
  BY <1>1, <1>4 DEF Blocks
<1>6. HoleAt(r, n)
  BY <1>1, <1>4, <1>5 DEF HoleAt, Run
<1>7. ASSUME r # 0 PROVE ScanStart(r)
  <2>1. r - 1 \in Blocks /\ r - 1 \in Nat /\ r - 1 \in 0 .. s
    BY <1>1, <1>4, <1>5, <1>7 DEF Blocks
  <2>2. r - 1 \notin F
    BY <1>3, <1>5, <2>1
  <2>3. status[r - 1] # FREE
    <3> SUFFICES ASSUME status[r - 1] = FREE PROVE FALSE
      OBVIOUS
    <3>1. ASSUME NEW d \in (r - 1) .. (s + n - 1) PROVE status[d] = FREE
      <4>1. d = r - 1 \/ d \in r .. (s + n - 1)
        BY <1>1, <1>5
      <4> QED
        BY <1>4, <4>1
    <3> QED
      BY <2>1, <2>2, <3>1 DEF F
  <2>4. status[r - 1] = USED
    BY <2>1, <2>3 DEF Inv, TypeOK
  <2>5. PICK d \in 0 .. (r - 1) : RunStart(d) /\ r - 1 < d + block_size[d]
    BY <2>1, <2>4 DEF Inv, RunsTileTable
  <2>6. d \in Blocks /\ d \in Nat /\ block_size[d] \in Nat
    BY <1>5, GeometryAssumption DEF Blocks, Inv, TypeOK
  <2>7. \A e \in Run(d, block_size[d]) : status[e] = USED
    BY <2>5, <2>6 DEF Inv, RunsTileTable, RunIsWhole
  <2>8. status[r] = FREE
    BY <1>1, <1>4, <1>5
  <2>9. r = d + block_size[d]
    <3>1. r \notin Run(d, block_size[d])
      BY <2>7, <2>8 DEF FREE, USED
    <3> QED
      BY <1>5, <2>5, <2>6, <3>1 DEF Run
  <2> QED
    BY <2>5, <2>6, <2>9 DEF ScanStart
<1>8. ScanStart(r)
  BY <1>7 DEF ScanStart
<1> QED
  BY <1>5, <1>6, <1>8

\* Of the places the scan starts at, the first that fits is the one it takes.
LEMMA SomeFirstFit ==
    ASSUME Inv, NEW n \in Nat \ {0}, NEW s \in Blocks, HoleAt(s, n)
    PROVE  \E r \in Blocks : FirstFit(r, n)
<1> DEFINE Fits == {r \in Blocks : ScanStart(r) /\ HoleAt(r, n)}
<1>1. Fits # {} /\ Fits \subseteq Nat
  BY ScanStartBefore, GeometryAssumption DEF Blocks
<1> HIDE DEF Fits
<1>2. PICK r \in Fits : \A y \in Fits : r <= y
  BY <1>1, LeastNumber, Zenon
<1>3. r \in Blocks /\ ScanStart(r) /\ HoleAt(r, n)
  BY DEF Fits
<1>4. ASSUME NEW y \in 0 .. (r - 1), ScanStart(y), HoleAt(y, n) PROVE FALSE
  <2>1. y \in Blocks /\ y < r /\ y \in Nat /\ r \in Nat
    BY <1>3, GeometryAssumption DEF Blocks
  <2>2. y \in Fits
    BY <1>4, <2>1 DEF Fits
  <2> QED
    BY <1>2, <2>1, <2>2
<1> QED
  BY <1>3, <1>4 DEF FirstFit

\* Nor does the comparison with the count of free blocks refuse one.
LEMMA HoleCanBeGranted ==
    ASSUME Inv, NEW n \in Nat \ {0}, NEW s \in Blocks, HoleAt(s, n)
    PROVE  CanGrant(n)
<1>1. Run(s, n) \subseteq FreeBlocks /\ s \in Nat
  BY GeometryAssumption DEF HoleAt, Run, FreeBlocks, Blocks
<1>2. Cardinality(Run(s, n)) = n
  BY <1>1, RunCardinality
<1>3. Cardinality(Run(s, n)) <= Cardinality(FreeBlocks)
  BY <1>1, TableFinite, FS_Subset
<1>4. n <= nFreeBlocks
  BY <1>2, <1>3 DEF Inv, CountersMatchTable
<1> QED
  BY <1>4, SomeFirstFit DEF CanGrant

----------------------------------------------------------------------------
(* The refinement.                                                         *)

\* The allocations of the pool, read off the table.
Allocs == {<<d, block_size[d]>> : d \in {e \in Blocks : RunStart(e)}}

\* A hole between the allocations is a run of free descriptors, and conversely.
LEMMA HolesAgree ==
    ASSUME Inv, NEW s \in Blocks, NEW n \in Nat
    PROVE  HoleAt(s, n) <=>
             /\ s + n < nBlocks
             /\ \A a \in Allocs : (a[1] .. (a[1] + a[2] - 1)) \cap (s .. (s + n - 1)) = {}
<1>1. ASSUME HoleAt(s, n), NEW a \in Allocs
      PROVE  (a[1] .. (a[1] + a[2] - 1)) \cap (s .. (s + n - 1)) = {}
  <2>1. PICK d \in Blocks : RunStart(d) /\ a = <<d, block_size[d]>>
    BY DEF Allocs
  <2>2. \A e \in Run(d, block_size[d]) : status[e] = USED
    BY <2>1 DEF Inv, RunsTileTable, RunIsWhole
  <2> QED
    BY <1>1, <2>1, <2>2 DEF HoleAt, Run, FREE, USED
<1>2. ASSUME s + n < nBlocks,
             \A a \in Allocs : (a[1] .. (a[1] + a[2] - 1)) \cap (s .. (s + n - 1)) = {},
             NEW e \in Run(s, n)
      PROVE  status[e] = FREE
  <2>1. e \in Blocks /\ e \in s .. (s + n - 1)
    BY <1>2, GeometryAssumption DEF Run, Blocks
  <2>2. SUFFICES ASSUME status[e] = USED PROVE FALSE
    BY <2>1 DEF Inv, TypeOK
  <2>3. PICK d \in 0 .. e : RunStart(d) /\ e < d + block_size[d]
    BY <2>1, <2>2 DEF Inv, RunsTileTable
  <2>4. d \in Blocks /\ block_size[d] \in Nat /\ e \in Nat
    BY <2>1, GeometryAssumption DEF Blocks, Inv, TypeOK
  <2>5. <<d, block_size[d]>> \in Allocs
    BY <2>3, <2>4 DEF Allocs
  <2>6. e \in d .. (d + block_size[d] - 1)
    BY <2>3, <2>4
  <2>7. (d .. (d + block_size[d] - 1)) \cap (s .. (s + n - 1)) = {}
    BY <1>2, <2>5
  <2> QED
    BY <2>1, <2>6, <2>7
<1> QED
  BY <1>1, <1>2 DEF HoleAt

\* Blocks and addresses: the address of a block leads back to it, and is not NULL.
LEMMA AddressOfBlock ==
    ASSUME NEW d \in Blocks
    PROVE  /\ MmpGetPoolAddrFromDescAddr(d) # NULL
           /\ MmpGetDescAddrFromPoolAddr(MmpGetPoolAddrFromDescAddr(d)) = d
<1>1. d \in Nat
  BY GeometryAssumption DEF Blocks
<1>2. \A x \in Nat, b \in Nat \ {0} : (x * b) \div b = x /\ x * b \in Nat
  OBVIOUS
<1>3. (d * MEM_BLK_SIZE) \div MEM_BLK_SIZE = d /\ d * MEM_BLK_SIZE \in Nat
  BY <1>1, <1>2, GeometryAssumption
<1>4. \A p \in Nat \ {0}, x \in Nat : (p + x) - p = x /\ p + x # 0
  OBVIOUS
<1>5. MmpGetPoolAddrFromDescAddr(d) = pPoolEntry + d * MEM_BLK_SIZE
  BY Zenon DEF MmpGetPoolAddrFromDescAddr
<1>6. \A x : MmpGetDescAddrFromPoolAddr(x) = (x - pPoolEntry) \div MEM_BLK_SIZE
  BY DEF MmpGetDescAddrFromPoolAddr
<1>7. pPoolEntry \in Nat \ {0}
  BY GeometryAssumption
<1>8. /\ MmpGetPoolAddrFromDescAddr(d) - pPoolEntry = d * MEM_BLK_SIZE
      /\ MmpGetPoolAddrFromDescAddr(d) # 0
  BY <1>3, <1>4, <1>5, <1>7, Zenon
<1>9. MmpGetDescAddrFromPoolAddr(MmpGetPoolAddrFromDescAddr(d))
        = (MmpGetPoolAddrFromDescAddr(d) - pPoolEntry) \div MEM_BLK_SIZE
  BY <1>6, Zenon
<1> QED
  BY <1>3, <1>8, <1>9, Zenon DEF NULL

LEMMA PoolInit == Init => Pool!Init
<1> SUFFICES ASSUME Init PROVE Pool!Init
  OBVIOUS
<1>1. Allocs = {}
  BY DEF Init, Allocs, RunStart, FREE, USED
<1> QED
  BY <1>1 DEF Init, Allocs, Pool!Init, Pool!NoBlock, BlockOfReply, AddressOfReply, NULL

\* A granted run becomes one more allocation, in a hole.
LEMMA GrantSimulates ==
    ASSUME Inv, NEW bytes \in Requests, Grant(bytes)
    PROVE  Pool!Grant(MmpGetRequiredBlocksFromBytes(bytes))
<1>1. PICK n \in Nat \ {0} : n = MmpGetRequiredBlocksFromBytes(bytes)
  BY RequiredBlocksType, InputAssumption DEF Grant
<1>2. PICK s \in Blocks :
        /\ FirstFit(s, n)
        /\ MarkRun(s, n)
        /\ reply' = [op |-> "alloc", arg |-> bytes,
                     ret |-> MmpGetPoolAddrFromDescAddr(s)]
  BY <1>1 DEF Grant
<1>3. HoleAt(s, n) /\ s \in Nat /\ s \in 0 .. (nBlocks - 1)
  BY <1>2, GeometryAssumption DEF FirstFit, Blocks
<1>4. Pool!Hole(s, n)
  BY <1>3, HolesAgree DEF Allocs, Pool!Hole, Pool!BlocksOf
<1>5. ASSUME NEW d \in Blocks
      PROVE  /\ d = s => RunStart(d)' /\ block_size'[d] = n /\ ~RunStart(d)
             /\ d # s => (RunStart(d)' <=> RunStart(d)) /\ block_size'[d] = block_size[d]
  <2>1. s \in Run(s, n) /\ status[s] = FREE
    BY <1>3 DEF HoleAt, Run
  <2>2. /\ status'[d] = IF d \in Run(s, n) THEN USED ELSE status[d]
        /\ block_size'[d] = IF d = s THEN n ELSE block_size[d]
    BY <1>2 DEF MarkRun, Inv, TypeOK
  <2>3. CASE d = s
    BY <2>1, <2>2, <2>3 DEF RunStart, FREE, USED
  <2>4. CASE d # s /\ d \in Run(s, n)
    <3>1. status[d] = FREE /\ d # 0
      BY <1>3, <2>4, GeometryAssumption DEF HoleAt, Run
    <3>2. block_size[d] = 0
      BY <3>1 DEF Inv, RunsTileTable
    <3> QED
      BY <2>2, <2>4, <3>2 DEF RunStart
  <2>5. CASE d # s /\ d \notin Run(s, n)
    BY <2>2, <2>5 DEF RunStart
  <2> QED
    BY <2>3, <2>4, <2>5
<1>6. Allocs' = Allocs \cup {<<s, n>>}
  BY <1>5 DEF Allocs
<1>7. /\ AddressOfReply' = MmpGetPoolAddrFromDescAddr(s)
      /\ BlockOfReply' = s
  BY <1>2, AddressOfBlock DEF AddressOfReply, BlockOfReply
<1>8. [op |-> reply.op,
       length |-> IF reply.op = "alloc" THEN MmpGetRequiredBlocksFromBytes(reply.arg) ELSE 0,
       block |-> BlockOfReply]' = [op |-> "alloc", length |-> n, block |-> s]
  BY <1>1, <1>2, <1>7
<1>9. n > 0
  OBVIOUS
<1> QED
  BY <1>1, <1>3, <1>4, <1>6, <1>8, <1>9 DEF Allocs, Pool!Grant

\* A refusal changes nothing and had no hole to give.
LEMMA RefuseSimulates ==
    ASSUME Inv, NEW bytes \in Requests, Refuse(bytes)
    PROVE  Pool!Refuse(MmpGetRequiredBlocksFromBytes(bytes))
<1>1. PICK n \in Nat : n = MmpGetRequiredBlocksFromBytes(bytes) /\ (bytes # 0 => n > 0)
  BY RequiredBlocksType, InputAssumption
<1>2. UNCHANGED <<status, block_size>>
      /\ reply' = [op |-> "alloc", arg |-> bytes, ret |-> NULL]
  BY DEF Refuse
<1>3. Allocs' = Allocs
  BY <1>2 DEF Allocs, RunStart
<1>4. [op |-> reply.op,
       length |-> IF reply.op = "alloc" THEN MmpGetRequiredBlocksFromBytes(reply.arg) ELSE 0,
       block |-> BlockOfReply]' = [op |-> "alloc", length |-> n, block |-> -1]
  BY <1>1, <1>2 DEF AddressOfReply, BlockOfReply
<1>5. n = 0 \/ \A s \in 0 .. (nBlocks - 1) : ~Pool!Hole(s, n)
  <2> SUFFICES ASSUME n # 0, NEW s \in Blocks, Pool!Hole(s, n) PROVE FALSE
    BY DEF Blocks
  <2>1. HoleAt(s, n)
    BY HolesAgree DEF Allocs, Pool!Hole, Pool!BlocksOf
  <2>2. CanGrant(n)
    BY <2>1, HoleCanBeGranted
  <2>3. bytes = 0
    BY <1>1, <2>2 DEF Refuse
  <2>4. MmpGetRequiredBlocksFromBytes(0) = 0
    BY GeometryAssumption DEF MmpGetRequiredBlocksFromBytes
  <2> QED
    BY <1>1, <2>3, <2>4
<1> QED
  BY <1>1, <1>3, <1>4, <1>5 DEF Allocs, Pool!Refuse, Pool!NoBlock

\* A free removes the allocation that starts at the block of the address, if
\* there is one, and no other.
LEMMA FreeSimulates ==
    ASSUME Inv, NEW addr \in PoolAddresses \cup {NULL}, MmFreeNonCachedMemory(addr)
    PROVE  \E b \in {-1} \cup (0 .. (nBlocks - 1)) : Pool!Free(b)
<1>1. PICK b \in {-1} \cup Blocks :
        /\ addr = NULL => b = -1
        /\ addr # NULL => b = MmpGetDescAddrFromPoolAddr(addr) /\ b \in Blocks
  BY DescOfPoolAddress
<1>2. reply' = [op |-> "free", arg |-> addr, ret |-> NULL]
  BY DEF MmFreeNonCachedMemory
<1>3. [op |-> reply.op,
       length |-> IF reply.op = "alloc" THEN MmpGetRequiredBlocksFromBytes(reply.arg) ELSE 0,
       block |-> BlockOfReply]' = [op |-> "free", length |-> 0, block |-> b]
  BY <1>1, <1>2 DEF AddressOfReply, BlockOfReply
<1>4. CASE addr # NULL /\ status[b] = USED /\ ReleaseRun(b)
  <2>1. b \in Blocks /\ b \in Nat /\ block_size[b] \in Nat
    BY <1>1, <1>4, GeometryAssumption DEF Blocks, Inv, TypeOK
  <2>2. \A e \in Blocks :
          /\ status'[e] = IF e \in Run(b, block_size[b]) THEN FREE ELSE status[e]
          /\ block_size'[e] = IF e \in Run(b, block_size[b]) THEN 0 ELSE block_size[e]
    BY <1>4 DEF ReleaseRun
  <2>3. ASSUME NEW d \in Blocks
        PROVE  /\ RunStart(d)' <=> RunStart(d) /\ d # b
               /\ RunStart(d)' => block_size'[d] = block_size[d]
    <3>1. CASE d = b
      <4>1. block_size[b] > 0 => b \in Run(b, block_size[b])
        BY <2>1 DEF Run
      <4>2. block_size'[b] = 0
        BY <2>1, <2>2, <4>1
      <4> QED
        BY <3>1, <4>2 DEF RunStart
    <3>2. CASE d # b /\ d \in Run(b, block_size[b])
      <4>1. RunStart(b)
        BY <1>4, <2>1, <3>2 DEF Run, RunStart
      <4>2. block_size[d] = 0
        BY <2>1, <3>2, <4>1 DEF Inv, RunsTileTable, RunIsWhole
      <4> QED
        BY <2>2, <3>2, <4>2 DEF RunStart
    <3>3. CASE d # b /\ d \notin Run(b, block_size[b])
      BY <2>2, <3>3 DEF RunStart
    <3> QED
      BY <3>1, <3>2, <3>3
  <2>4. Allocs' = {a \in Allocs : a[1] # b}
    BY <2>3 DEF Allocs
  <2> QED
    BY <1>1, <1>3, <2>4 DEF Allocs, Pool!Free, Blocks
<1>5. CASE (addr # NULL => status[b] # USED) /\ UNCHANGED <<status, block_size>>
  <2>1. Allocs' = Allocs
    BY <1>5 DEF Allocs, RunStart
  <2>2. \A a \in Allocs : a[1] # b
    <3>1. -1 \notin Blocks
      BY GeometryAssumption DEF Blocks
    <3> QED
      BY <1>1, <1>5, <3>1 DEF Allocs, RunStart
  <2>3. Allocs' = {a \in Allocs : a[1] # b}
    BY <2>1, <2>2
  <2> QED
    BY <1>1, <1>3, <2>3 DEF Allocs, Pool!Free, Blocks
<1> QED
  BY <1>1, <1>4, <1>5 DEF MmFreeNonCachedMemory

LEMMA PoolStep == Inv /\ [Next]_vars => [Pool!Next]_(Pool!poolVars)
<1> SUFFICES ASSUME Inv, [Next]_vars PROVE [Pool!Next]_(Pool!poolVars)
  OBVIOUS
<1>1. ASSUME NEW bytes \in Requests, Grant(bytes) \/ Refuse(bytes) PROVE Pool!Next
  BY <1>1, GrantSimulates, RefuseSimulates DEF Pool!Next
<1>2. ASSUME NEW addr \in PoolAddresses \cup {NULL}, MmFreeNonCachedMemory(addr) PROVE Pool!Next
  BY <1>2, FreeSimulates DEF Pool!Next, Pool!NoBlock
<1>3. CASE UNCHANGED vars
  BY <1>3 DEF vars, RunStart, AddressOfReply, BlockOfReply, Pool!poolVars
<1> QED
  BY <1>1, <1>2, <1>3 DEF Next, MmAllocateNonCachedMemory

\* The allocator of mmanager.c implements the pool of disjoint allocations, for a
\* pool of any size: a refused call had no hole to take, a free releases the
\* allocation that starts at the block, and nothing else is ever touched.
THEOREM TableImplementsPool == Spec => PoolSpec
  BY InvInit, InvStep, PoolInit, PoolStep, PTL DEF Spec, PoolSpec, Pool!Spec

----------------------------------------------------------------------------
(* The loop of the scan.                                                   *)

IsScan(scan, last, n) ==
    scan = [turn \in 0 .. last |-> IF turn = 0 THEN Beginning ELSE Turn(scan[turn - 1], n)]

\* There is such a function, from turn to turn.
LEMMA ScanExists ==
    ASSUME NEW n
    PROVE  \A last \in Nat : \E scan : IsScan(scan, last, n)
<1> DEFINE Without == {last \in Nat : \A scan : ~ IsScan(scan, last, n)}
<1> SUFFICES ASSUME Without # {} PROVE FALSE
  OBVIOUS
<1>1. PICK last \in Without : \A m \in Without : last <= m
  <2>1. Without \subseteq Nat
    OBVIOUS
  <2> HIDE DEF Without
  <2> QED
    BY <2>1, LeastNumber
<1>2. last \in Nat /\ \A scan : ~ IsScan(scan, last, n)
  OBVIOUS
<1>3. ASSUME last = 0 PROVE FALSE
  <2> DEFINE scan == [turn \in 0 .. last |-> Beginning]
  <2>1. scan = [turn \in 0 .. last |-> IF turn = 0 THEN Beginning ELSE Turn(scan[turn - 1], n)]
    <3>1. \A turn \in 0 .. last : turn = 0
      BY <1>3
    <3> QED
      BY <3>1, Zenon
  <2> QED
    BY <1>2, <2>1 DEF IsScan
<1>4. ASSUME last # 0 PROVE FALSE
  <2>1. last - 1 \in Nat /\ ~ last <= last - 1
    BY <1>2, <1>4
  <2>2. PICK shorter : IsScan(shorter, last - 1, n)
    BY <1>1, <2>1
  <2> DEFINE scan == [turn \in 0 .. last |->
                         IF turn = last THEN Turn(shorter[last - 1], n) ELSE shorter[turn]]
  <2>3. \A turn \in 0 .. last :
            scan[turn] = IF turn = 0 THEN Beginning ELSE Turn(scan[turn - 1], n)
    <3> SUFFICES ASSUME NEW turn \in 0 .. last
                 PROVE  scan[turn] = IF turn = 0 THEN Beginning ELSE Turn(scan[turn - 1], n)
      OBVIOUS
    <3>1. CASE turn = last
      <4>1. scan[turn] = Turn(shorter[last - 1], n) /\ scan[last - 1] = shorter[last - 1] /\ turn # 0
        BY <1>2, <1>4, <2>1, <3>1
      <4> QED
        BY <3>1, <4>1
    <3>2. CASE turn # last
      <4>1. turn \in 0 .. (last - 1) /\ scan[turn] = shorter[turn]
        BY <1>2, <3>2
      <4>2. shorter[turn] = IF turn = 0 THEN Beginning ELSE Turn(shorter[turn - 1], n)
        BY <2>2, <4>1 DEF IsScan
      <4>3. turn # 0 => scan[turn - 1] = shorter[turn - 1]
        BY <1>2, <4>1
      <4> QED
        BY <4>1, <4>2, <4>3, Zenon
    <3> QED
      BY <3>1, <3>2
  <2>4. scan = [turn \in 0 .. last |-> scan[turn]]
    OBVIOUS
  <2> HIDE DEF scan
  <2>5. IsScan(scan, last, n)
    BY <2>3, <2>4 DEF IsScan
  <2> QED
    BY <1>2, <2>5
<1> QED
  BY <1>3, <1>4

LEMMA ScannedWith ==
    ASSUME NEW n
    PROVE  \E scan : IsScan(scan, nBlocks, n) /\ Scanned(n) = scan[nBlocks]
<1> DEFINE scan == CHOOSE f : IsScan(f, nBlocks, n)
<1>1. IsScan(scan, nBlocks, n)
  BY ScanExists, GeometryAssumption
<1>2. Scanned(n) = scan[nBlocks]
  BY DEF Scanned, IsScan
<1> HIDE DEF scan
<1> QED
  BY <1>1, <1>2

\* The descriptors from pAllocStart up to pCur are free, and no run that starts
\* before them fits.
Scanning(loop, n) ==
    /\ loop \in [pAllocStart : Nat, pCur : Blocks, dwCurBlocks : Nat]
    /\ loop.pAllocStart + loop.dwCurBlocks = loop.pCur /\ loop.dwCurBlocks <= n
    /\ ScanStart(loop.pAllocStart)
    /\ \A d \in Run(loop.pAllocStart, loop.dwCurBlocks) : status[d] = FREE
    /\ \A r \in 0 .. (loop.pAllocStart - 1) : ScanStart(r) => ~HoleAt(r, n)

\* A used descriptor the scan comes to is the first of a run.
LEMMA JumpsOverRun ==
    ASSUME Inv, NEW start \in Nat, NEW count \in Nat, NEW c \in Blocks, c = start + count,
           ScanStart(start), \A d \in Run(start, count) : status[d] = FREE, status[c] = USED
    PROVE  RunStart(c)
<1>1. nBlocks \in Nat /\ c \in Nat /\ c < nBlocks /\ \A d \in Blocks : d \in Nat /\ block_size[d] \in Nat
  BY GeometryAssumption DEF Blocks, Inv, TypeOK
<1>2. PICK d \in 0 .. c : RunStart(d) /\ c < d + block_size[d]
  BY DEF Inv, RunsTileTable
<1>3. d \in Blocks /\ d \in Nat /\ d <= c
  BY <1>1, <1>2 DEF Blocks
<1>4. /\ \A e \in Run(d, block_size[d]) : status[e] = USED
      /\ \A e \in Run(d, block_size[d]) \ {d} : block_size[e] = 0
  BY <1>2, <1>3 DEF Inv, RunsTileTable, RunIsWhole
<1>5. ASSUME d # c PROVE FALSE
  <2>1. c - 1 \in Run(d, block_size[d])
    BY <1>1, <1>2, <1>3, <1>5 DEF Run
  <2>2. CASE count > 0
    <3>1. c - 1 \in Run(start, count)
      BY <2>2 DEF Run
    <3> QED
      BY <1>4, <2>1, <3>1 DEF FREE, USED
  <2>3. CASE count = 0
    <3>1. c = start /\ c # 0
      BY <1>1, <1>3, <1>5, <2>3
    <3>2. PICK e \in Blocks : RunStart(e) /\ c = e + block_size[e]
      BY <3>1 DEF ScanStart
    <3>3. e \in Nat /\ block_size[e] \in Nat /\ block_size[e] > 0 /\ block_size[d] \in Nat
      BY <1>1, <1>3, <3>2 DEF RunStart
    <3>4. \A x \in Run(e, block_size[e]) \ {e} : block_size[x] = 0
      BY <3>2 DEF Inv, RunsTileTable, RunIsWhole
    <3>5. block_size[d] > 0
      BY <1>2 DEF RunStart
    <3>6. CASE d = e
      BY <1>2, <3>2, <3>6, <1>1, <3>3
    <3>7. CASE d < e
      <4>1. e \in Run(d, block_size[d]) \ {d}
        BY <1>2, <1>3, <3>2, <3>3, <3>7 DEF Run
      <4> QED
        BY <1>4, <3>3, <4>1
    <3>8. CASE e < d
      <4>1. d \in Run(e, block_size[e]) \ {e}
        BY <1>1, <1>3, <1>5, <3>2, <3>3, <3>8 DEF Run
      <4> QED
        BY <3>3, <3>4, <3>5, <4>1
    <3> QED
      BY <1>3, <3>3, <3>6, <3>7, <3>8
  <2> QED
    BY <2>2, <2>3
<1> QED
  BY <1>2, <1>5

\* A turn of the loop, unless it is over, gets further.
LEMMA TurnGoesOn ==
    ASSUME Inv, NEW n \in Nat \ {0}, NEW loop, Scanning(loop, n), ~Over(loop, n)
    PROVE  Scanning(Turn(loop, n), n) /\ Turn(loop, n).pCur > loop.pCur
<1>1. PICK start, c, count :
          start = loop.pAllocStart /\ c = loop.pCur /\ count = loop.dwCurBlocks
  OBVIOUS
<1>2. /\ start \in Nat /\ c \in Blocks /\ count \in Nat /\ start + count = c
      /\ loop = [pAllocStart |-> start, pCur |-> c, dwCurBlocks |-> count]
  BY <1>1 DEF Scanning
<1>3. /\ ScanStart(start) /\ \A d \in Run(start, count) : status[d] = FREE
      /\ \A r \in 0 .. (start - 1) : ScanStart(r) => ~HoleAt(r, n)
  BY <1>1 DEF Scanning
<1>4. ~ count >= n /\ c # nBlocks - 1
  BY <1>1 DEF Over
<1>5. nBlocks \in Nat /\ c \in Nat /\ c < nBlocks /\ count < n
  BY <1>2, <1>4, GeometryAssumption DEF Blocks
<1>6. CASE status[c] = USED
  <2>1. RunStart(c)
    BY <1>2, <1>3, <1>6, JumpsOverRun
  <2>2. PICK to : to = c + block_size[c]
    OBVIOUS
  <2>3. /\ block_size[c] \in Nat /\ block_size[c] > 0 /\ to < nBlocks
        /\ \A e \in Run(c, block_size[c]) : status[e] = USED
    BY <1>2, <2>1, <2>2 DEF Inv, TypeOK, RunStart, RunsTileTable, RunIsWhole
  <2>4. to \in Nat /\ to \in Blocks /\ to > c
    BY <1>5, <2>2, <2>3 DEF Blocks
  <2>5. Turn(loop, n) = [pAllocStart |-> to, pCur |-> to, dwCurBlocks |-> 0]
    BY <1>1, <1>6, <2>2 DEF Turn, Behind
  <2>6. ScanStart(to)
    BY <1>2, <2>1, <2>2 DEF ScanStart
  <2>7. Run(to, 0) = {}
    BY <2>4 DEF Run
  <2>8. ASSUME NEW r \in 0 .. (to - 1), ScanStart(r), HoleAt(r, n) PROVE FALSE
    <3>1. r \in Nat /\ r < to
      BY <2>4
    <3>2. \A d \in Run(r, n) : status[d] = FREE
      BY <2>8 DEF HoleAt
    <3>3. CASE r < start
      BY <1>2, <1>3, <2>8, <3>1, <3>3
    <3>4. CASE start <= r /\ r <= c
      <4>1. c \in Run(r, n)
        BY <1>2, <1>5, <3>1, <3>4 DEF Run
      <4> QED
        BY <1>6, <3>2, <4>1 DEF FREE, USED
    <3>5. CASE c < r
      <4>1. r \in Run(r, n) /\ r \in Run(c, block_size[c])
        BY <1>5, <2>2, <2>3, <3>1, <3>5 DEF Run
      <4> QED
        BY <2>3, <3>2, <4>1 DEF FREE, USED
    <3> QED
      BY <1>2, <1>5, <3>1, <3>3, <3>4, <3>5
  <2>9. Scanning([pAllocStart |-> to, pCur |-> to, dwCurBlocks |-> 0], n)
    BY <2>4, <2>6, <2>7, <2>8 DEF Scanning
  <2> QED
    BY <1>1, <2>4, <2>5, <2>9
<1>7. CASE status[c] # USED
  <2>1. status[c] = FREE
    BY <1>2, <1>7 DEF Inv, TypeOK
  <2>2. Turn(loop, n) = [pAllocStart |-> start, pCur |-> c + 1, dwCurBlocks |-> count + 1]
    BY <1>1, <1>2, <1>7 DEF Turn
  <2>3. c + 1 \in Blocks /\ count + 1 \in Nat /\ start + (count + 1) = c + 1 /\ count + 1 <= n /\ c + 1 > c
    BY <1>2, <1>4, <1>5 DEF Blocks
  <2>4. \A d \in Run(start, count + 1) : d \in Run(start, count) \/ d = c
    BY <1>2 DEF Run
  <2>5. Scanning([pAllocStart |-> start, pCur |-> c + 1, dwCurBlocks |-> count + 1], n)
    BY <1>2, <1>3, <2>1, <2>3, <2>4 DEF Scanning
  <2> QED
    BY <1>1, <2>2, <2>3, <2>5
<1> QED
  BY <1>6, <1>7

\* After each turn the loop is over, or as many descriptors on at least.
LEMMA EveryTurn ==
    ASSUME Inv, NEW n \in Nat \ {0}, NEW scan, IsScan(scan, nBlocks, n)
    PROVE  \A turn \in 0 .. nBlocks :
              Scanning(scan[turn], n) /\ (Over(scan[turn], n) \/ turn <= scan[turn].pCur)
<1> DEFINE Fine(turn) == Scanning(scan[turn], n) /\ (Over(scan[turn], n) \/ turn <= scan[turn].pCur)
           Wrong == {turn \in 0 .. nBlocks : ~ Fine(turn)}
<1> SUFFICES ASSUME Wrong # {} PROVE FALSE
  OBVIOUS
<1>1. nBlocks \in Nat /\ 0 \in Blocks
  BY GeometryAssumption DEF Blocks
<1>2. PICK turn \in Wrong : \A m \in Wrong : turn <= m
  <2>1. Wrong \subseteq Nat
    BY <1>1
  <2> HIDE DEF Wrong
  <2> QED
    BY <2>1, LeastNumber
<1>3. turn \in 0 .. nBlocks /\ ~ Fine(turn)
  OBVIOUS
<1>4. scan[turn] = IF turn = 0 THEN Beginning ELSE Turn(scan[turn - 1], n)
  BY <1>3 DEF IsScan
<1>5. CASE turn = 0
  <2>1. Beginning = [pAllocStart |-> 0, pCur |-> 0, dwCurBlocks |-> 0]
    BY DEF Beginning
  <2>2. Run(0, 0) = {} /\ 0 .. (0 - 1) = {}
    BY DEF Run
  <2>3. Scanning(Beginning, n)
    BY <1>1, <2>1, <2>2 DEF Scanning, ScanStart
  <2>4. turn <= Beginning.pCur
    BY <1>5, <2>1
  <2> QED
    BY <1>3, <1>4, <1>5, <2>3, <2>4
<1>6. CASE turn # 0
  <2>1. turn - 1 \in 0 .. nBlocks /\ ~ turn <= turn - 1 /\ turn \in Nat
    BY <1>1, <1>3, <1>6
  <2>2. Fine(turn - 1)
    BY <1>2, <2>1
  <2>3. PICK before : before = scan[turn - 1]
    OBVIOUS
  <2>4. Scanning(before, n) /\ (Over(before, n) \/ turn - 1 <= before.pCur) /\ scan[turn] = Turn(before, n)
    BY <1>4, <1>6, <2>2, <2>3
  <2>5. CASE Over(before, n)
    <3>1. Turn(before, n) = before
      BY <2>5 DEF Turn
    <3> QED
      BY <1>3, <2>4, <2>5, <3>1
  <2>6. CASE ~Over(before, n)
    <3>1. Scanning(Turn(before, n), n) /\ Turn(before, n).pCur > before.pCur
      BY <2>4, <2>6, TurnGoesOn
    <3>2. turn <= Turn(before, n).pCur
      <4>1. PICK x, y : x = before.pCur /\ y = Turn(before, n).pCur
        OBVIOUS
      <4>2. x \in Nat /\ y \in Nat
        BY <2>4, <3>1, <4>1, <1>1 DEF Scanning, Blocks
      <4>3. y > x /\ turn - 1 <= x
        BY <2>4, <2>6, <3>1, <4>1
      <4> QED
        BY <2>1, <4>1, <4>2, <4>3
    <3> QED
      BY <1>3, <2>4, <3>1, <3>2
  <2> QED
    BY <2>5, <2>6
<1> QED
  BY <1>5, <1>6

LEMMA LoopFindsFirstFit ==
    ASSUME Inv
    PROVE  ScanFindsFirstFit
<1> SUFFICES ASSUME NEW n \in 1 .. nFreeBlocks
             PROVE  IF Scanned(n).dwCurBlocks >= n THEN FirstFit(Scanned(n).pAllocStart, n)
                    ELSE Scanned(n).pCur = nBlocks - 1 /\ \A d \in Blocks : ~FirstFit(d, n)
  BY DEF ScanFindsFirstFit
<1>1. n \in Nat \ {0} /\ nBlocks \in Nat /\ nBlocks \in 0 .. nBlocks
  BY GeometryAssumption DEF Inv, TypeOK
<1>2. PICK scan : IsScan(scan, nBlocks, n) /\ Scanned(n) = scan[nBlocks]
  BY ScannedWith
<1>3. PICK end : end = Scanned(n)
  OBVIOUS
<1>4. Scanning(end, n) /\ (Over(end, n) \/ nBlocks <= end.pCur)
  BY <1>1, <1>2, <1>3, EveryTurn
<1>5. PICK start, c, count :
          start = end.pAllocStart /\ c = end.pCur /\ count = end.dwCurBlocks
  OBVIOUS
<1>6. /\ start \in Nat /\ c \in Blocks /\ count \in Nat /\ start + count = c /\ count <= n
      /\ ScanStart(start) /\ \A d \in Run(start, count) : status[d] = FREE
      /\ \A r \in 0 .. (start - 1) : ScanStart(r) => ~HoleAt(r, n)
  BY <1>4, <1>5 DEF Scanning
<1>7. c \in Nat /\ c < nBlocks
  BY <1>1, <1>6 DEF Blocks
<1>8. count >= n \/ c = nBlocks - 1
  <2>1. ~ nBlocks <= end.pCur
    BY <1>1, <1>5, <1>7
  <2> QED
    BY <1>4, <1>5, <2>1 DEF Over
<1>9. ASSUME count >= n PROVE FirstFit(start, n)
  <2>1. count = n
    BY <1>1, <1>6, <1>9
  <2> QED
    BY <1>6, <1>7, <2>1 DEF FirstFit, HoleAt
<1>10. ASSUME ~ count >= n, NEW d \in Blocks, FirstFit(d, n) PROVE FALSE
  <2>1. d \in Nat /\ ScanStart(d) /\ HoleAt(d, n) /\ d + n < nBlocks
    BY <1>1, <1>10 DEF FirstFit, HoleAt, Blocks
  <2>2. ~ d < start
    BY <1>6, <2>1
  <2> QED
    BY <1>1, <1>6, <1>8, <1>10, <2>1, <2>2
<1> QED
  BY <1>3, <1>5, <1>8, <1>9, <1>10

\* In every state the loop of MmAllocateNonCachedMemory, run over the table, ends
\* before it leaves it, at the first run of free blocks that is long enough or
\* knowing that there is none.
THEOREM ScanIsFirstFit == Spec => []ScanFindsFirstFit
<1> QED
  BY LoopFindsFirstFit, InvInit, InvStep, PTL DEF Spec
=============================================================================
