----------------------------- MODULE FatFsProofs -----------------------------
(***************************************************************************)
(* Proofs about FatFs: its blocks are those its callers hold, and it       *)
(* implements SequentialFiles, for every disk whose chains are as long as  *)
(* their files.                                                            *)
(*                                                                         *)
(* The table: the entry FspGetNextCluster takes out of the packed bytes is *)
(* that of the cluster.  The chains: ClusterAt follows the table.          *)
(* The invariant: the control block is at the cluster of its position, and *)
(* its buffer is the sector of the position, unless the position is in the *)
(* sector that was last refused; what a read has copied is right past it.  *)
(***************************************************************************)
EXTENDS FatFs, FiniteSetTheorems, SequenceTheorems, WellFoundedInduction, TLAPS

----------------------------------------------------------------------------
(* Numbers.                                                                *)

\* What is left of a division, and what the position in a sector and the number
\* of the sector are after bytes that do not pass its end.
LEMMA Division ==
    ASSUME NEW a \in Nat, NEW b \in Nat \ {0}
    PROVE  a \div b \in Nat /\ a % b \in 0 .. (b - 1) /\ a = b * (a \div b) + (a % b)
OBVIOUS

LEMMA SameSector ==
    ASSUME NEW a \in Nat, NEW b \in Nat \ {0}, NEW n \in Nat, (a % b) + n < b
    PROVE  (a + n) \div b = a \div b /\ (a + n) % b = (a % b) + n
<1>1. (a + n) \div b = a \div b
  OBVIOUS
<1> DEFINE q == a \div b
           r == a % b
           r2 == (a + n) % b
<1>2. a = b * q + r /\ a + n = b * q + r2 /\ r \in Int /\ r2 \in Int /\ b * q \in Int
  <2>1. a + n \in Nat
    OBVIOUS
  <2>2. a + n = b * ((a + n) \div b) + ((a + n) % b) /\ (a + n) % b \in 0 .. (b - 1)
    BY <2>1, Division
  <2>3. a = b * (a \div b) + (a % b) /\ a % b \in 0 .. (b - 1) /\ a \div b \in Nat
    BY Division
  <2>4. r \in Int /\ r2 \in Int /\ b * q \in Int
    BY <2>2, <2>3
  <2> QED
    BY <1>1, <2>2, <2>3, <2>4
<1>3. r2 = r + n
  <2> HIDE DEF q, r, r2
  <2> DEFINE bq == b * q
  <2>1. a = bq + r /\ a + n = bq + r2 /\ bq \in Int
    BY <1>2
  <2> HIDE DEF bq
  <2> QED
    BY <1>2, <2>1
<1> QED
  BY <1>1, <1>3

LEMMA NextSector ==
    ASSUME NEW a \in Nat, NEW b \in Nat \ {0}, NEW n \in Nat, (a % b) + n = b
    PROVE  (a + n) \div b = (a \div b) + 1 /\ (a + n) % b = 0
OBVIOUS

\* The number of a sector grows with the position, and a position before the
\* end of a file is in one of its sectors.
LEMMA SectorOrder ==
    ASSUME NEW a \in Nat, NEW c \in Nat, NEW b \in Nat \ {0}, a <= c
    PROVE  a \div b <= c \div b
OBVIOUS

\* Every set of natural numbers that is not empty has a least member: of the
\* intervals that end in it, one has no other inside it.
LEMMA LeastNumber ==
    ASSUME NEW X, X \subseteq Nat, X # {}
    PROVE  \E m \in X : \A y \in X : m <= y
<1> DEFINE Upto == {0 .. x : x \in X}
<1>1. Upto \subseteq FiniteSubsetsOf(Nat)
  <2> SUFFICES ASSUME NEW x \in X PROVE 0 .. x \in FiniteSubsetsOf(Nat)
    OBVIOUS
  <2>1. IsFiniteSet(0 .. x) /\ 0 .. x \subseteq Nat
    BY FS_Interval
  <2> QED
    BY <2>1 DEF FiniteSubsetsOf
<1>2. Upto # {}
  OBVIOUS
<1>3. IsWellFoundedOn(StrictSubsetOrdering(Nat), FiniteSubsetsOf(Nat))
  BY FS_StrictSubsetOrderingWellFounded
<1> HIDE DEF Upto
<1>4. PICK I \in Upto : \A J \in Upto : ~ (<<J, I>> \in StrictSubsetOrdering(Nat))
  BY <1>1, <1>2, <1>3, WFMin, Zenon
<1>5. PICK m \in X : I = 0 .. m
  BY DEF Upto
<1>6. ASSUME NEW y \in X, y < m PROVE FALSE
  <2>1. 0 .. y \in Upto
    BY DEF Upto
  <2>2. 0 .. y \subseteq 0 .. m /\ 0 .. m \subseteq Nat /\ m \notin 0 .. y /\ m \in 0 .. m
    BY <1>6
  <2>3. <<0 .. y, 0 .. m>> \in StrictSubsetOrdering(Nat)
    BY <2>2 DEF StrictSubsetOrdering
  <2> QED
    BY <1>4, <1>5, <2>1, <2>3
<1> QED
  BY <1>6

\* Bytes that do not pass the end of their sector.
LEMMA WithinSector ==
    ASSUME NEW a \in Nat, NEW b \in Nat \ {0}, NEW n \in Nat, (a % b) + n <= b
    PROVE  a + n <= ((a \div b) + 1) * b
<1> DEFINE r == a % b
           q == a \div b
           bq == b * q
<1>1. a = bq + r /\ q \in Nat /\ r \in 0 .. (b - 1)
  BY Division
<1>2. bq \in Nat /\ (q + 1) * b = bq + b
  BY <1>1
<1>3. r + n <= b
  OBVIOUS
<1> HIDE DEF r, bq, q
<1>4. a + n <= bq + b
  BY <1>1, <1>2, <1>3
<1> QED
  BY <1>2, <1>4 DEF q

\* The sizes the disk gives.
B == BYTES_PER_SECTOR

LEMMA SectorSize == B \in Nat \ {0}
BY DiskAssumption DEF B

----------------------------------------------------------------------------
(* The table.                                                              *)

N == Cardinality(DOMAIN Fat)

LEMMA TableSize == N \in Nat /\ N % 2 = 0 /\ DOMAIN Fat = 0 .. (N - 1)
                   /\ \A c \in DOMAIN Fat : Fat[c] \in Nat /\ Fat[c] < 4096
BY DiskAssumption DEF N

\* Where the bytes of a cluster's entry are.
LEMMA EntryBytes ==
    ASSUME NEW n \in Nat, n % 2 = 0, NEW c \in 0 .. (n - 1), NEW i, i = (c \div 2) * 3 + (c % 2)
    PROVE  /\ i \in 0 .. ((n * 3) \div 2 - 1) /\ i + 1 \in 0 .. ((n * 3) \div 2 - 1)
           /\ i \div 3 = c \div 2 /\ (i + 1) \div 3 = c \div 2
           /\ i % 3 = c % 2 /\ (i + 1) % 3 = (c % 2) + 1
OBVIOUS

\* The bytes of the packed table, by their place in a group of three.
LEMMA PackedByte ==
    ASSUME NEW i \in 0 .. ((N * 3) \div 2 - 1), NEW d, d = (i \div 3) * 2
    PROVE  /\ i % 3 = 0 => PackedFat[i] = Fat[d] % 256
           /\ i % 3 = 1 => PackedFat[i] = Fat[d] \div 256 + (Fat[d + 1] % 16) * 16
           /\ i % 3 = 2 => PackedFat[i] = Fat[d + 1] \div 16
<1> DEFINE x == Fat[d] % 256
           y == Fat[d] \div 256 + (Fat[d + 1] % 16) * 16
           z == Fat[d + 1] \div 16
           r == i % 3
<1>1. PackedFat[i] = CASE r = 0 -> x [] r = 1 -> y [] r = 2 -> z
  BY Zenon DEF PackedFat, N
<1>2. 0 # 1 /\ 0 # 2 /\ 1 # 2
  OBVIOUS
<1> HIDE DEF x, y, z, r
<1>3. /\ r = 0 => PackedFat[i] = x
      /\ r = 1 => PackedFat[i] = y
      /\ r = 2 => PackedFat[i] = z
  BY <1>1, <1>2
<1> QED
  BY <1>3, Zenon DEF x, y, z, r

\* The entries of the group a cluster's entry is in.
LEMMA EntryPair ==
    ASSUME NEW n \in Nat, n % 2 = 0, NEW c \in 0 .. (n - 1), NEW d, d = (c \div 2) * 2
    PROVE  d \in 0 .. (n - 1) /\ d + 1 \in 0 .. (n - 1) /\ ((c % 2 = 0 /\ c = d) \/ (c % 2 = 1 /\ c = d + 1))
<1>1. d \in Nat /\ ((c % 2 = 0 /\ c = d) \/ (c % 2 = 1 /\ c = d + 1))
  <2>1. c \in Nat /\ c \div 2 \in Nat /\ c % 2 \in 0 .. 1 /\ c = 2 * (c \div 2) + (c % 2)
    OBVIOUS
  <2> DEFINE q == c \div 2
             r == c % 2
  <2>2. q \in Nat /\ (r = 0 \/ r = 1) /\ c = 2 * q + r /\ d = q * 2
    BY <2>1
  <2> HIDE DEF q, r
  <2>3. d \in Nat /\ ((r = 0 /\ c = d) \/ (r = 1 /\ c = d + 1))
    BY <2>2
  <2> QED
    BY <2>3 DEF r
<1>2. d + 1 <= n - 1
  <2>1. n = 2 * (n \div 2) /\ n \div 2 \in Nat
    OBVIOUS
  <2>2. d = 2 * (c \div 2) /\ c \div 2 \in Nat
    OBVIOUS
  <2>3. d <= n - 1
    BY <1>1
  <2> DEFINE p == n \div 2
             q == c \div 2
  <2>4. n = 2 * p /\ d = 2 * q /\ p \in Nat /\ q \in Nat
    BY <2>1, <2>2
  <2> HIDE DEF p, q
  <2> QED
    BY <2>3, <2>4
<1> QED
  BY <1>1, <1>2

\* The packed table has bytes.
LEMMA PackedBytes == \A i \in DOMAIN PackedFat : PackedFat[i] \in Nat /\ PackedFat[i] < 256
<1> SUFFICES ASSUME NEW i \in DOMAIN PackedFat PROVE PackedFat[i] \in Nat /\ PackedFat[i] < 256
  OBVIOUS
<1> DEFINE d == (i \div 3) * 2
<1>1. i \in 0 .. ((N * 3) \div 2 - 1)
  BY DEF PackedFat, N
<1>2. /\ i % 3 = 0 => PackedFat[i] = Fat[d] % 256
      /\ i % 3 = 1 => PackedFat[i] = Fat[d] \div 256 + (Fat[d + 1] % 16) * 16
      /\ i % 3 = 2 => PackedFat[i] = Fat[d + 1] \div 16
  BY <1>1, PackedByte, ZenonT(30)
<1>3. N \in Nat /\ N % 2 = 0
  BY TableSize
<1> DEFINE n == N
<1>4. n \in Nat /\ n % 2 = 0 /\ i \in 0 .. ((n * 3) \div 2 - 1)
  BY <1>1, <1>3
<1> HIDE DEF n
<1>5. d \in 0 .. (n - 1) /\ d + 1 \in 0 .. (n - 1) /\ (i % 3 = 0 \/ i % 3 = 1 \/ i % 3 = 2)
  BY <1>4
<1> HIDE DEF d
<1>6. Fat[d] \in Nat /\ Fat[d] < 4096 /\ Fat[d + 1] \in Nat /\ Fat[d + 1] < 4096
  BY <1>5, TableSize DEF n
<1> DEFINE x == Fat[d]
           y == Fat[d + 1]
<1>7. /\ x % 256 \in Nat /\ x % 256 < 256
      /\ x \div 256 + (y % 16) * 16 \in Nat /\ x \div 256 + (y % 16) * 16 < 256
      /\ y \div 16 \in Nat /\ y \div 16 < 256
  <2>1. x \in Nat /\ x < 4096 /\ y \in Nat /\ y < 4096
    BY <1>6
  <2> HIDE DEF x, y
  <2> QED
    BY <2>1
<1> QED
  BY <1>2, <1>5, <1>7, ZenonT(30)

\* The lower and the upper twelve bits of the word at a pair of entries.
LEMMA LowerTwelve ==
    ASSUME NEW x \in Nat, x < 4096, NEW y \in Nat, y < 4096
    PROVE  ((x % 256) + 256 * (x \div 256 + (y % 16) * 16)) % 4096 = x
OBVIOUS

LEMMA UpperTwelve ==
    ASSUME NEW x \in Nat, x < 4096, NEW y \in Nat, y < 4096
    PROVE  ((x \div 256 + (y % 16) * 16) + 256 * (y \div 16)) \div 16 = y
OBVIOUS

\* What FspGetNextCluster takes out of the packed table is the cluster's entry.
LEMMA NextOfPacked ==
    ASSUME m_FAT = PackedFat, NEW c \in DOMAIN Fat
    PROVE  FspGetNextCluster(c) = Fat[c]
<1> DEFINE i == (c \div 2) * 3 + (c % 2)
           d == (c \div 2) * 2
<1>1. c \in 0 .. (N - 1) /\ N \in Nat /\ N % 2 = 0
  BY TableSize
<1>2. /\ i \in 0 .. ((N * 3) \div 2 - 1) /\ i + 1 \in 0 .. ((N * 3) \div 2 - 1)
      /\ i \div 3 = c \div 2 /\ (i + 1) \div 3 = c \div 2
      /\ i % 3 = c % 2 /\ (i + 1) % 3 = (c % 2) + 1
  BY <1>1, EntryBytes
<1>3. d \in 0 .. (N - 1) /\ d + 1 \in 0 .. (N - 1) /\ ((c % 2 = 0 /\ c = d) \/ (c % 2 = 1 /\ c = d + 1))
  BY <1>1, EntryPair, ZenonT(30)
<1>4. Fat[d] \in Nat /\ Fat[d] < 4096 /\ Fat[d + 1] \in Nat /\ Fat[d + 1] < 4096
  BY <1>3, TableSize
<1>5. d = (i \div 3) * 2 /\ d = ((i + 1) \div 3) * 2
  BY <1>2
<1>6. FspGetNextCluster(c) = IF c % 2 = 1 THEN (PackedFat[i] + 256 * PackedFat[i + 1]) \div 16
                             ELSE (PackedFat[i] + 256 * PackedFat[i + 1]) % 4096
  BY DEF FspGetNextCluster
<1> DEFINE j == i + 1
<1>7. /\ i \in 0 .. ((N * 3) \div 2 - 1) /\ j \in 0 .. ((N * 3) \div 2 - 1)
      /\ i % 3 = c % 2 /\ j % 3 = (c % 2) + 1 /\ d = (i \div 3) * 2 /\ d = (j \div 3) * 2
  BY <1>2, <1>5
<1>8. FspGetNextCluster(c) = IF c % 2 = 1 THEN (PackedFat[i] + 256 * PackedFat[j]) \div 16
                             ELSE (PackedFat[i] + 256 * PackedFat[j]) % 4096
  BY <1>6
<1> HIDE DEF i, j, d
<1>9. CASE c % 2 = 0
  <2>1. i % 3 = 0 /\ j % 3 = 1
    BY <1>7, <1>9
  <2>2. PackedFat[i] = Fat[d] % 256 /\ PackedFat[j] = Fat[d] \div 256 + (Fat[d + 1] % 16) * 16
    BY <1>7, <2>1, PackedByte
  <2>3. FspGetNextCluster(c) = (PackedFat[i] + 256 * PackedFat[j]) % 4096
    BY <1>8, <1>9
  <2>4. c = d
    BY <1>3, <1>9
  <2>5. FspGetNextCluster(c) = Fat[d]
    <3> DEFINE x == Fat[d]
               y == Fat[d + 1]
               p == PackedFat[i]
               q == PackedFat[j]
    <3>1. x \in Nat /\ x < 4096 /\ y \in Nat /\ y < 4096 /\ p = x % 256 /\ q = x \div 256 + (y % 16) * 16
      BY <1>4, <2>2
    <3> HIDE DEF x, y, p, q
    <3>2. (p + 256 * q) % 4096 = x
      BY <3>1, LowerTwelve
    <3> QED
      BY <2>3, <3>2 DEF x, y, p, q
  <2> QED
    BY <2>4, <2>5
<1>10. CASE c % 2 = 1
  <2>1. i % 3 = 1 /\ j % 3 = 2
    BY <1>7, <1>10
  <2>2. PackedFat[i] = Fat[d] \div 256 + (Fat[d + 1] % 16) * 16 /\ PackedFat[j] = Fat[d + 1] \div 16
    BY <1>7, <2>1, PackedByte
  <2>3. FspGetNextCluster(c) = (PackedFat[i] + 256 * PackedFat[j]) \div 16
    BY <1>8, <1>10
  <2>4. c = d + 1
    BY <1>3, <1>10
  <2>5. FspGetNextCluster(c) = Fat[d + 1]
    <3> DEFINE x == Fat[d]
               y == Fat[d + 1]
               p == PackedFat[i]
               q == PackedFat[j]
    <3>1. x \in Nat /\ x < 4096 /\ y \in Nat /\ y < 4096 /\ p = x \div 256 + (y % 16) * 16 /\ q = y \div 16
      BY <1>4, <2>2
    <3> HIDE DEF x, y, p, q
    <3>2. (p + 256 * q) \div 16 = y
      BY <3>1, UpperTwelve
    <3> QED
      BY <2>3, <3>2 DEF x, y, p, q
  <2> QED
    BY <2>4, <2>5
<1> QED
  BY <1>3, <1>9, <1>10

----------------------------------------------------------------------------
(* The chains.                                                             *)

FollowsTable(f, k, first) == f = [j \in 0 .. k |-> IF j = 0 THEN first ELSE Fat[f[j - 1]]]

\* From any first cluster there is a chain of any length, ...
LEMMA ChainExists ==
    ASSUME NEW first, NEW k \in Nat
    PROVE  \E f : FollowsTable(f, k, first)
<1> DEFINE Not == {l \in Nat : ~ \E f : FollowsTable(f, l, first)}
<1> SUFFICES ASSUME Not # {} PROVE FALSE
  OBVIOUS
<1>1. PICK m \in Not : \A l \in Not : m <= l
  BY LeastNumber, Not \subseteq Nat, Zenon
<1>2. m \in Nat /\ ~ \E f : FollowsTable(f, m, first)
  BY <1>1
<1>3. CASE m = 0
  <2> DEFINE g == [j \in 0 .. 0 |-> first]
  <2>1. FollowsTable(g, 0, first)
    BY DEF FollowsTable
  <2> QED
    BY <1>2, <1>3, <2>1
<1>4. CASE m # 0
  <2>1. m - 1 \in Nat /\ m - 1 \notin Not
    BY <1>1, <1>2, <1>4
  <2>2. PICK f : FollowsTable(f, m - 1, first)
    BY <2>1
  <2> DEFINE g == [j \in 0 .. m |-> IF j = 0 THEN first ELSE Fat[f[j - 1]]]
             h == [j \in 0 .. m |-> IF j = 0 THEN first ELSE Fat[g[j - 1]]]
  <2>3. ASSUME NEW j \in 0 .. m PROVE g[j] = h[j]
    <3>1. CASE j = 0
      BY <3>1
    <3>2. CASE j # 0
      <4>1. j - 1 \in 0 .. (m - 1) /\ j - 1 \in 0 .. m
        BY <1>2, <3>2
      <4>2. f[j - 1] = g[j - 1]
        BY <2>2, <4>1 DEF FollowsTable
      <4> QED
        BY <3>2, <4>2
    <3> QED
      BY <3>1, <3>2
  <2>4. g = h
    BY <2>3
  <2>5. FollowsTable(g, m, first)
    BY <2>4 DEF FollowsTable
  <2> QED
    BY <1>2, <2>5
<1> QED
  BY <1>3, <1>4

\* ... and two of them agree as far as both go.
LEMMA ChainsAgree ==
    ASSUME NEW first, NEW k \in Nat, NEW l \in Nat, NEW f, NEW g,
           FollowsTable(f, k, first), FollowsTable(g, l, first), NEW i \in 0 .. k, i <= l
    PROVE  f[i] = g[i]
<1> DEFINE Not == {j \in Nat : j <= k /\ j <= l /\ f[j] # g[j]}
<1> SUFFICES ASSUME Not # {} PROVE FALSE
  OBVIOUS
<1>1. PICK m \in Not : \A j \in Not : m <= j
  BY LeastNumber, Not \subseteq Nat, Zenon
<1>2. m \in 0 .. k /\ m \in 0 .. l /\ f[m] # g[m]
  BY <1>1
<1>3. f[m] = IF m = 0 THEN first ELSE Fat[f[m - 1]]
  BY <1>2 DEF FollowsTable
<1>4. g[m] = IF m = 0 THEN first ELSE Fat[g[m - 1]]
  BY <1>2 DEF FollowsTable
<1>5. m # 0
  BY <1>2, <1>3, <1>4
<1>6. f[m - 1] = g[m - 1]
  BY <1>1, <1>2, <1>5
<1> QED
  BY <1>2, <1>3, <1>4, <1>5, <1>6

\* ClusterAt takes its clusters from one.
LEMMA ClusterOfChain ==
    ASSUME NEW name, NEW k \in Nat
    PROVE  \E f : FollowsTable(f, k, EntryOf(name).cluster) /\ ClusterAt(name, k) = f[k]
<1> DEFINE F == CHOOSE f : FollowsTable(f, k, EntryOf(name).cluster)
<1>1. FollowsTable(F, k, EntryOf(name).cluster)
  BY ChainExists
<1>2. ClusterAt(name, k) = F[k]
  BY DEF ClusterAt, FollowsTable
<1> QED
  BY <1>1, <1>2

LEMMA ClusterFirst ==
    ASSUME NEW name
    PROVE  ClusterAt(name, 0) = EntryOf(name).cluster
<1>1. PICK f : FollowsTable(f, 0, EntryOf(name).cluster) /\ ClusterAt(name, 0) = f[0]
  BY ClusterOfChain
<1> QED
  BY <1>1 DEF FollowsTable

LEMMA ClusterNext ==
    ASSUME NEW name, NEW k \in Nat
    PROVE  ClusterAt(name, k + 1) = Fat[ClusterAt(name, k)]
<1> DEFINE first == EntryOf(name).cluster
<1>1. PICK f : FollowsTable(f, k, first) /\ ClusterAt(name, k) = f[k]
  BY ClusterOfChain
<1>2. PICK g : FollowsTable(g, k + 1, first) /\ ClusterAt(name, k + 1) = g[k + 1]
  BY ClusterOfChain, k + 1 \in Nat
<1>3. f[k] = g[k]
  BY <1>1, <1>2, ChainsAgree, k + 1 \in Nat, k \in 0 .. k, k <= k + 1
<1>4. g[k + 1] = Fat[g[k]]
  <2>1. k + 1 \in 0 .. (k + 1) /\ k + 1 # 0 /\ (k + 1) - 1 = k
    OBVIOUS
  <2> QED
    BY <1>2, <2>1 DEF FollowsTable
<1> QED
  BY <1>1, <1>2, <1>3, <1>4

\* A file that is not empty, and the number of its last cluster.
NotEmpty(name) == name \in Names /\ Exists(name) /\ EntryOf(name).filesize \in Nat \ {0}
Last(name) == (EntryOf(name).filesize - 1) \div B

LEMMA ChainOfFile ==
    ASSUME NEW name, NotEmpty(name)
    PROVE  /\ Last(name) \in Nat
           /\ \A k \in 0 .. Last(name) : /\ IsData(ClusterAt(name, k)) /\ ClusterAt(name, k) \in DOMAIN Fat
                                         /\ ClusterAt(name, k) \in Nat /\ ClusterAt(name, k) <= 4079
           /\ Fat[ClusterAt(name, Last(name))] >= 4088
<1>1. Last(name) \in Nat
  <2> DEFINE a == EntryOf(name).filesize - 1
  <2>1. a \in Nat
    BY DEF NotEmpty
  <2> HIDE DEF a
  <2>2. a \div B \in Nat
    BY <2>1, SectorSize, Division
  <2> QED
    BY <2>2 DEF Last, a
<1>2. /\ \A k \in 0 .. Last(name) : IsData(ClusterAt(name, k)) /\ ClusterAt(name, k) \in DOMAIN Fat
      /\ Fat[ClusterAt(name, Last(name))] >= 4088
  <2>1. EntryOf(name).filesize > 0
    BY DEF NotEmpty
  <2> QED
    BY <2>1, ChainsAssumption DEF NotEmpty, Last, B
<1>3. ASSUME NEW k \in 0 .. Last(name) PROVE ClusterAt(name, k) \in Nat /\ ClusterAt(name, k) <= 4079
  <2> DEFINE c == ClusterAt(name, k)
  <2>1. IsData(c) /\ c \in DOMAIN Fat
    BY <1>2
  <2> HIDE DEF c
  <2>2. c \in Nat
    BY <2>1, TableSize
  <2>3. c \in Nat /\ c <= 4079
    BY <2>1, <2>2 DEF IsData
  <2> QED
    BY <2>3 DEF c
<1> QED
  BY <1>1, <1>2, <1>3

----------------------------------------------------------------------------
(* The invariant.                                                          *)

Bytes == Int \X Int
Buffers == {<< >>} \cup {Sector(s) : s \in Int}
Blocks == [name : Names \cup {NULL}, cluster : Nat, filesize : Nat, bytesread : Nat, buffer : Buffers]

FTypes ==
    /\ m_FAT \in {[i \in DOMAIN PackedFat |-> 0], PackedFat}
    /\ m_DirEntry \in {<< >>, Root}
    /\ held \subseteq Handles
    /\ fcb \in [Handles -> Blocks]
    /\ pc \in {"load_fat", "load_dir", "failed", "idle", "open", "copy", "fetch"}
    /\ cur \in Handles \cup {NULL}
    /\ bytes_to_read \in Nat
    /\ data \in Seq(Bytes)
    /\ unsure \in [Handles -> Nat]

\* The table and the directory are there before a caller is.
Loaded ==
    /\ pc \in {"load_dir", "idle", "open", "copy", "fetch"} => m_FAT = PackedFat
    /\ pc \in {"idle", "open", "copy", "fetch"} => m_DirEntry = Root

HeldBlocks ==
    /\ {h \in Handles : fcb[h] # Free} = held \cup (IF pc = "open" THEN {cur} ELSE {})
    /\ pc = "open" => cur \in Handles \ held /\ fcb[cur].bytesread = 0

\* The k-th sector of a file; that a block has it in its buffer.
SectorAt(name, k) == Sector(ClusterAt(name, k) + CLUSTER_OFFSET)
IsAt(file, k) == file.buffer = SectorAt(file.name, k)

\* A block that follows its file: it is at the cluster of its position.
IsOpen(file) ==
    /\ file.name \in Names /\ file.name # NULL /\ Exists(file.name)
    /\ file.filesize = EntryOf(file.name).filesize
    /\ file.bytesread <= file.filesize
    /\ file.bytesread < file.filesize => file.cluster = ClusterAt(file.name, file.bytesread \div B)

\* Its buffer is a sector of the file, ...
HasSector(file) ==
    file.filesize > 0 => \E k \in 0 .. Last(file.name) : IsAt(file, k)

\* ... that of the position, or the position is in the sector last refused; ...
Fresh(file, until) ==
    \/ file.bytesread >= file.filesize
    \/ IsAt(file, file.bytesread \div B)
    \/ until = ((file.bytesread \div B) + 1) * B

\* ... and when a read has copied something already, what it copied is what the
\* file has there, past the sector last refused.
CopiedRight(file, done, until) ==
    LET pos == file.bytesread - Len(done)
    IN  \A i \in 1 .. Len(done) : pos + i > until => done[i] = Content(file.name)[pos + i]

Right(file, done, until) ==
    IF done = << >> THEN Fresh(file, until) ELSE CopiedRight(file, done, until)

Done(h) == IF InCall(h) THEN data ELSE << >>

FilesFollow == \A h \in Handles : fcb[h] # Free => IsOpen(fcb[h])
Buffered == \A h \in held : HasSector(fcb[h]) /\ Right(fcb[h], Done(h), unsure[h])

\* A read was asked for more than it has copied, and has the rest to go; it
\* fetches at the end of a sector, and copies from that of the position.
Asked(file, left, done) ==
    \E n \in ReadSizes :
        /\ n # 0
        /\ left + Len(done) = IF (file.bytesread - Len(done)) + n < file.filesize THEN n
                              ELSE file.filesize - (file.bytesread - Len(done))
Copying(file, left, done) ==
    /\ left # 0
    /\ done # << >> => IsAt(file, file.bytesread \div B)
Fetching(file, done) ==
    /\ done # << >>
    /\ file.bytesread < file.filesize /\ file.bytesread % B = 0

InRead ==
    /\ pc \in {"copy", "fetch"} => /\ cur \in held /\ Len(data) <= fcb[cur].bytesread
                                  /\ Asked(fcb[cur], bytes_to_read, data)
    /\ pc = "copy" => Copying(fcb[cur], bytes_to_read, data)
    /\ pc = "fetch" => Fetching(fcb[cur], data)

FInv == FTypes /\ Loaded /\ HeldBlocks /\ FilesFollow /\ Buffered /\ InRead

----------------------------------------------------------------------------
(* Sectors and files.                                                      *)

LEMMA SectorBytes ==
    ASSUME NEW s \in Int
    PROVE  /\ Sector(s) \in Seq(Bytes) /\ Len(Sector(s)) = B
           /\ \A k \in 1 .. B : Sector(s)[k] = <<s, k>>
<1>1. B \in Nat /\ Sector(s) = [k \in 1 .. B |-> <<s, k>>]
  BY SectorSize DEF Sector, B
<1>2. \A k \in 1 .. B : <<s, k>> \in Bytes
  BY DEF Bytes
<1>3. Sector(s) \in [1 .. B -> Bytes]
  BY <1>1, <1>2
<1>4. Sector(s) \in Seq(Bytes)
  BY <1>1, <1>3
<1>5. Len(Sector(s)) = B
  BY <1>1, <1>3, <1>4
<1> QED
  BY <1>1, <1>4, <1>5

\* The clusters of a file that is not empty are numbers.
LEMMA SectorOfFile ==
    ASSUME NEW name, NotEmpty(name), NEW k \in 0 .. Last(name)
    PROVE  /\ ClusterAt(name, k) + CLUSTER_OFFSET \in Int
           /\ SectorAt(name, k) \in Seq(Bytes) /\ Len(SectorAt(name, k)) = B
           /\ \A i \in 1 .. B : SectorAt(name, k)[i] = <<ClusterAt(name, k) + CLUSTER_OFFSET, i>>
<1>1. ClusterAt(name, k) \in Nat
  BY ChainOfFile
<1>2. ClusterAt(name, k) + CLUSTER_OFFSET \in Int
  BY <1>1 DEF CLUSTER_OFFSET
<1> QED
  BY <1>2, SectorBytes DEF SectorAt

\* A position before the end of a file is in one of its sectors.
LEMMA PositionInFile ==
    ASSUME NEW name, NotEmpty(name), NEW pos \in Nat, pos < EntryOf(name).filesize
    PROVE  pos \div B \in 0 .. Last(name)
<1> DEFINE a == EntryOf(name).filesize - 1
<1>1. a \in Nat /\ pos <= a
  BY DEF NotEmpty
<1> HIDE DEF a
<1>2. pos \div B <= a \div B /\ pos \div B \in Nat /\ a \div B \in Nat
  BY <1>1, SectorSize, SectorOrder, Division
<1> QED
  BY <1>2 DEF Last, a

LEMMA ContentBytes ==
    ASSUME NEW name, NotEmpty(name)
    PROVE  /\ Content(name) \in Seq(Bytes) /\ Len(Content(name)) = EntryOf(name).filesize
           /\ \A i \in 1 .. EntryOf(name).filesize :
                Content(name)[i] = SectorAt(name, (i - 1) \div B)[((i - 1) % B) + 1]
<1> DEFINE size == EntryOf(name).filesize
           byte(i) == SectorAt(name, (i - 1) \div B)[((i - 1) % B) + 1]
<1>1. size \in Nat
  BY DEF NotEmpty
<1>2. Content(name) = [i \in 1 .. size |-> byte(i)]
  BY DEF Content, SectorAt, B
<1>3. ASSUME NEW i \in 1 .. size PROVE byte(i) \in Bytes
  <2> DEFINE pos == i - 1
  <2>1. pos \in Nat /\ pos < size
    BY <1>1
  <2> HIDE DEF pos
  <2>2. pos \div B \in 0 .. Last(name)
    BY <2>1, PositionInFile
  <2>3. (pos % B) + 1 \in 1 .. B
    <3>1. pos % B \in 0 .. (B - 1)
      BY <2>1, SectorSize, Division
    <3> QED
      BY <3>1, SectorSize
  <2>4. SectorAt(name, pos \div B) \in Seq(Bytes) /\ Len(SectorAt(name, pos \div B)) = B
    BY <2>2, SectorOfFile
  <2>5. SectorAt(name, pos \div B)[(pos % B) + 1] \in Bytes
    BY <2>3, <2>4
  <2> QED
    BY <2>5 DEF pos
<1> HIDE DEF size, byte
<1>4. Content(name) \in [1 .. size -> Bytes]
  BY <1>2, <1>3
<1>5. Content(name) \in Seq(Bytes)
  BY <1>1, <1>4
<1>6. Len(Content(name)) = size
  BY <1>1, <1>4, <1>5
<1>7. \A i \in 1 .. size : Content(name)[i] = byte(i)
  BY <1>2
<1> QED
  BY <1>5, <1>6, <1>7 DEF size, byte

\* A piece of a sector is what the file has at the position when the sector is
\* that of the position.
LEMMA PieceOfSector ==
    ASSUME NEW name, NotEmpty(name), NEW pos \in Nat, NEW n \in Nat \ {0}, (pos % B) + n <= B,
           pos + n <= EntryOf(name).filesize, NEW s \in Int
    PROVE  LET piece == SubSeq(Sector(s), (pos % B) + 1, (pos % B) + n) IN
           /\ piece \in Seq(Bytes) /\ Len(piece) = n
           /\ Sector(s) = SectorAt(name, pos \div B) =>
                \A i \in 1 .. n : piece[i] = Content(name)[pos + i]
<1> DEFINE k == pos \div B
           r == pos % B
           size == EntryOf(name).filesize
           cl == ClusterAt(name, k) + CLUSTER_OFFSET
           piece == SubSeq(Sector(s), r + 1, r + n)
<1>1. size \in Nat /\ pos < size /\ pos + n <= size /\ r + n <= B
  BY DEF NotEmpty
<1>2. r \in 0 .. (B - 1) /\ B \in Nat \ {0}
  BY SectorSize, Division
<1>3. k \in 0 .. Last(name)
  BY <1>1, PositionInFile
<1>4. /\ cl \in Int /\ SectorAt(name, k) = Sector(cl)
      /\ \A i \in 1 .. B : SectorAt(name, k)[i] = <<cl, i>>
  BY <1>3, SectorOfFile DEF SectorAt
<1>5. Content(name) \in Seq(Bytes) /\ Len(Content(name)) = size
  BY ContentBytes
<1>6. Sector(s) \in Seq(Bytes) /\ Len(Sector(s)) = B /\ \A i \in 1 .. B : Sector(s)[i] = <<s, i>>
  BY SectorBytes
<1>7. ASSUME NEW i \in 1 .. n PROVE Content(name)[pos + i] = <<cl, r + i>>
  <2> DEFINE m == i - 1
  <2>1. m \in Nat /\ r + m < B /\ pos + i \in 1 .. size /\ (pos + i) - 1 = pos + m /\ (r + m) + 1 = r + i
    BY <1>1, <1>2
  <2>2. (pos + m) \div B = k /\ (pos + m) % B = r + m
    BY <2>1, <1>2, SameSector
  <2>3. Content(name)[pos + i] = SectorAt(name, ((pos + i) - 1) \div B)[(((pos + i) - 1) % B) + 1]
    BY <2>1, ContentBytes
  <2>4. Content(name)[pos + i] = SectorAt(name, k)[r + i]
    <3> HIDE DEF m, k, r
    <3> QED
      BY <2>1, <2>2, <2>3
  <2>5. r + i \in 1 .. B
    BY <1>1, <1>2
  <2> QED
    BY <1>4, <2>4, <2>5
<1> HIDE DEF k, r, size, cl
<1>8. piece \in Seq(Bytes) /\ Len(piece) = n /\ \A i \in 1 .. n : piece[i] = <<s, r + i>>
  <2>1. r + 1 \in Int /\ r + n \in Int /\ \A i \in (r + 1) .. (r + n) : Sector(s)[i] \in Bytes
    BY <1>1, <1>2, <1>6
  <2>2. /\ piece \in Seq(Bytes)
        /\ Len(piece) = IF r + 1 <= r + n THEN (r + n) - (r + 1) + 1 ELSE 0
        /\ \A i \in 1 .. ((r + n) - (r + 1) + 1) : piece[i] = Sector(s)[(r + 1) + i - 1]
    BY <2>1, SubSeqProperties
  <2>3. (r + n) - (r + 1) + 1 = n /\ r + 1 <= r + n
    BY <1>2
  <2>4. ASSUME NEW i \in 1 .. n PROVE piece[i] = <<s, r + i>>
    <3>1. (r + 1) + i - 1 = r + i /\ r + i \in 1 .. B
      BY <1>1, <1>2
    <3> HIDE DEF piece
    <3>2. piece[i] = Sector(s)[r + i]
      BY <2>2, <2>3, <3>1
    <3> QED
      BY <1>6, <3>1, <3>2
  <2> HIDE DEF piece
  <2> QED
    BY <2>2, <2>3, <2>4
<1> HIDE DEF piece
<1>9. ASSUME Sector(s) = SectorAt(name, k), NEW i \in 1 .. n PROVE piece[i] = Content(name)[pos + i]
  <2>1. r + i \in 1 .. B
    BY <1>1, <1>2
  <2>2. Sector(s)[r + i] = <<s, r + i>> /\ SectorAt(name, k)[r + i] = <<cl, r + i>>
    BY <1>4, <1>6, <2>1
  <2> QED
    BY <1>7, <1>8, <1>9, <2>2
<1> QED
  BY <1>8, <1>9 DEF piece, r, k

----------------------------------------------------------------------------
(* A round of the loop of FsReadFile, on a block and what was copied.      *)

\* What is asked of a block in a round: the hypotheses the lemmas below share.
AtRound(file, left, done) ==
    /\ file \in Blocks /\ IsOpen(file) /\ HasSector(file)
    /\ left \in Nat /\ done \in Seq(Bytes) /\ Len(done) <= file.bytesread
    /\ Asked(file, left, done) /\ Copying(file, left, done)

\* How many bytes a round copies, the block after it, and what it copies.
CopiedBy(file, left) ==
    IF B - (file.bytesread % B) > left THEN left ELSE B - (file.bytesread % B)
After(file, left) ==
    LET end == file.bytesread + CopiedBy(file, left)
    IN [file EXCEPT !.bytesread = end,
                    !.cluster = IF end % B = 0 THEN Fat[file.cluster] ELSE file.cluster]
Piece(file, left) ==
    SubSeq(file.buffer, (file.bytesread % B) + 1, (file.bytesread % B) + CopiedBy(file, left))

\* A block has numbers, and a read that was asked for is before the end.
LEMMA RoundNumbers ==
    ASSUME NEW file, NEW left, NEW done, AtRound(file, left, done)
    PROVE  /\ file.bytesread \in Nat /\ file.filesize \in Nat /\ file.cluster \in Nat
           /\ left \in Nat \ {0} /\ Len(done) \in Nat
           /\ file.bytesread + left <= file.filesize
           /\ NotEmpty(file.name)
<1>1. /\ file.bytesread \in Nat /\ file.filesize \in Nat /\ file.cluster \in Nat
      /\ left \in Nat \ {0} /\ Len(done) \in Nat /\ Len(done) <= file.bytesread
  BY DEF AtRound, Blocks, Copying
<1>2. PICK n \in ReadSizes :
        /\ n # 0
        /\ left + Len(done) = IF (file.bytesread - Len(done)) + n < file.filesize THEN n
                              ELSE file.filesize - (file.bytesread - Len(done))
  BY DEF AtRound, Asked
<1>3. n \in Nat
  BY DiskAssumption
<1>4. file.bytesread + left <= file.filesize
  <2> DEFINE b == file.bytesread
             size == file.filesize
             d == Len(done)
  <2>1. /\ b \in Nat /\ size \in Nat /\ d \in Nat /\ d <= b /\ left \in Nat
        /\ left + d = IF (b - d) + n < size THEN n ELSE size - (b - d)
    BY <1>1, <1>2
  <2> HIDE DEF b, size, d
  <2>2. b + left <= size
    <3>1. CASE (b - d) + n < size
      BY <1>3, <2>1, <3>1
    <3>2. CASE ~((b - d) + n < size)
      BY <1>3, <2>1, <3>2
    <3> QED
      BY <3>1, <3>2
  <2> QED
    BY <2>2 DEF b, size
<1>5. file.filesize # 0
  BY <1>1, <1>4
<1>6. NotEmpty(file.name)
  BY <1>1, <1>5 DEF AtRound, IsOpen, NotEmpty
<1> QED
  BY <1>1, <1>4, <1>6

LEMMA RoundSize ==
    ASSUME NEW pos \in Nat, NEW left \in Nat \ {0}, NEW n,
           n = IF B - (pos % B) > left THEN left ELSE B - (pos % B)
    PROVE  /\ n \in Nat \ {0} /\ n <= left /\ left - n \in Nat
           /\ pos % B \in 0 .. (B - 1) /\ pos \div B \in Nat
           /\ (pos % B) + n <= B
           /\ (pos + n) % B = 0 => /\ (pos % B) + n = B /\ (pos + n) \div B = (pos \div B) + 1
           /\ (pos + n) % B # 0 => /\ (pos % B) + n < B /\ (pos + n) \div B = pos \div B /\ n = left
<1> DEFINE r == pos % B
<1>1. r \in 0 .. (B - 1) /\ pos \div B \in Nat /\ B \in Nat \ {0}
  BY SectorSize, Division
<1>2. n = IF B - r > left THEN left ELSE B - r
  OBVIOUS
<1> HIDE DEF r
<1>3. n \in Nat \ {0} /\ n <= left /\ left - n \in Nat /\ r + n <= B /\ (r + n < B => n = left)
  BY <1>1, <1>2
<1>4. CASE r + n = B
  <2>1. (pos + n) \div B = (pos \div B) + 1 /\ (pos + n) % B = 0
    BY <1>1, <1>3, <1>4, NextSector DEF r
  <2> QED
    BY <1>1, <1>3, <1>4, <2>1 DEF r
<1>5. CASE r + n < B
  <2>1. (pos + n) \div B = pos \div B /\ (pos + n) % B = r + n
    <3>1. (pos % B) + n < B /\ n \in Nat
      BY <1>3, <1>5 DEF r
    <3> QED
      BY <1>1, <3>1, SameSector DEF r
  <2>2. r + n # 0
    BY <1>1, <1>3
  <2> QED
    BY <1>1, <1>3, <1>5, <2>1, <2>2 DEF r
<1> QED
  BY <1>1, <1>3, <1>4, <1>5

\* The block after a round.
LEMMA AfterFields ==
    ASSUME NEW file \in Blocks, NEW left
    PROVE  LET end == file.bytesread + CopiedBy(file, left) IN
           /\ After(file, left).name = file.name
           /\ After(file, left).filesize = file.filesize
           /\ After(file, left).buffer = file.buffer
           /\ After(file, left).bytesread = end
           /\ After(file, left).cluster = IF end % B = 0 THEN Fat[file.cluster] ELSE file.cluster
BY DEF After, Blocks

\* The cluster of a round's block is that of its position, in the table.
LEMMA RoundCluster ==
    ASSUME NEW file, NEW left, NEW done, AtRound(file, left, done)
    PROVE  /\ file.bytesread \div B \in 0 .. Last(file.name)
           /\ file.cluster = ClusterAt(file.name, file.bytesread \div B)
           /\ file.cluster \in DOMAIN Fat /\ Fat[file.cluster] \in Nat
           /\ ClusterAt(file.name, (file.bytesread \div B) + 1) = Fat[file.cluster]
<1> DEFINE k == file.bytesread \div B
<1>1. /\ file.bytesread \in Nat /\ file.filesize \in Nat /\ file.bytesread < file.filesize
      /\ NotEmpty(file.name)
  <2>1. /\ file.bytesread \in Nat /\ file.filesize \in Nat /\ left \in Nat \ {0}
        /\ file.bytesread + left <= file.filesize /\ NotEmpty(file.name)
    BY RoundNumbers
  <2> QED
    BY <2>1
<1>2. file.filesize = EntryOf(file.name).filesize /\ file.cluster = ClusterAt(file.name, k)
  BY <1>1 DEF AtRound, IsOpen
<1>3. k \in 0 .. Last(file.name) /\ k \in Nat
  <2>1. k \in 0 .. Last(file.name)
    BY <1>1, <1>2, PositionInFile
  <2> QED
    BY <2>1
<1> HIDE DEF k
<1>4. ClusterAt(file.name, k) \in DOMAIN Fat
  BY <1>1, <1>3, ChainOfFile
<1>5. ClusterAt(file.name, k + 1) = Fat[ClusterAt(file.name, k)]
  BY <1>3, ClusterNext
<1>6. Fat[file.cluster] \in Nat
  BY <1>2, <1>4, TableSize
<1> QED
  BY <1>2, <1>3, <1>4, <1>5, <1>6 DEF k

\* It is a block that follows its file again, with a sector of it; ...
LEMMA RoundFollows ==
    ASSUME NEW file, NEW left, NEW done, AtRound(file, left, done)
    PROVE  After(file, left) \in Blocks /\ IsOpen(After(file, left)) /\ HasSector(After(file, left))
<1> DEFINE n == CopiedBy(file, left)
           b == file.bytesread
           k == b \div B
           new == After(file, left)
<1>1. /\ b \in Nat /\ file.filesize \in Nat /\ file.cluster \in Nat
      /\ left \in Nat \ {0} /\ b + left <= file.filesize /\ NotEmpty(file.name)
  BY RoundNumbers
<1>2. n = IF B - (b % B) > left THEN left ELSE B - (b % B)
  BY DEF CopiedBy
<1>3. /\ n \in Nat \ {0} /\ n <= left /\ k \in Nat
      /\ (b + n) % B = 0 => (b + n) \div B = k + 1
      /\ (b + n) % B # 0 => (b + n) \div B = k
  BY <1>1, <1>2, RoundSize
<1>4. file \in Blocks
  BY DEF AtRound
<1>5. /\ new.name = file.name /\ new.filesize = file.filesize /\ new.buffer = file.buffer
      /\ new.bytesread = b + n
      /\ new.cluster = IF (b + n) % B = 0 THEN Fat[file.cluster] ELSE file.cluster
  BY <1>4, AfterFields
<1>6. /\ k \in 0 .. Last(file.name) /\ file.cluster = ClusterAt(file.name, k)
      /\ Fat[file.cluster] \in Nat /\ ClusterAt(file.name, k + 1) = Fat[file.cluster]
  BY RoundCluster
<1>7. new \in Blocks
  <2>1. b + n \in Nat /\ (IF (b + n) % B = 0 THEN Fat[file.cluster] ELSE file.cluster) \in Nat
    BY <1>1, <1>3, <1>6
  <2>2. new = [file EXCEPT !.bytesread = b + n,
                           !.cluster = IF (b + n) % B = 0 THEN Fat[file.cluster] ELSE file.cluster]
    BY DEF After
  <2> HIDE DEF n, b, new
  <2> QED
    BY <1>4, <2>1, <2>2 DEF Blocks
<1>8. IsOpen(file) /\ HasSector(file)
  BY DEF AtRound
<1>9. new.cluster = ClusterAt(new.name, new.bytesread \div B)
  <2>1. CASE (b + n) % B = 0
    BY <1>3, <1>5, <1>6, <2>1
  <2>2. CASE (b + n) % B # 0
    BY <1>3, <1>5, <1>6, <2>2
  <2> QED
    BY <2>1, <2>2
<1>10. b + n <= file.filesize
  <2> HIDE DEF b, n
  <2> QED
    BY <1>1, <1>3
<1>11. IsOpen(new)
  <2> HIDE DEF new, b, n
  <2> QED
    BY <1>5, <1>8, <1>9, <1>10 DEF IsOpen
<1>12. HasSector(new)
  <2>1. file.filesize > 0
    BY <1>1
  <2>2. PICK j \in 0 .. Last(file.name) : IsAt(file, j)
    BY <1>8, <2>1 DEF HasSector
  <2>3. IsAt(new, j)
    BY <1>5, <2>2 DEF IsAt
  <2> HIDE DEF new
  <2> QED
    BY <1>5, <2>2, <2>3 DEF HasSector
<1> QED
  BY <1>7, <1>11, <1>12

\* ... what is copied so far is right after it if it was before; ...
LEMMA RoundCopies ==
    ASSUME NEW file, NEW left, NEW done, AtRound(file, left, done), NEW until \in Nat
    PROVE  LET all == done \o Piece(file, left) IN
           /\ all \in Seq(Bytes) /\ all # << >>
           /\ Len(all) = Len(done) + CopiedBy(file, left) /\ Len(all) <= After(file, left).bytesread
           /\ After(file, left).bytesread - Len(all) = file.bytesread - Len(done)
           /\ Right(file, done, until) => Right(After(file, left), all, until)
<1> DEFINE n == CopiedBy(file, left)
           b == file.bytesread
           k == b \div B
           new == After(file, left)
           piece == Piece(file, left)
           all == done \o piece
           content == Content(file.name)
<1>1. /\ b \in Nat /\ file.filesize \in Nat /\ left \in Nat \ {0} /\ b + left <= file.filesize
      /\ NotEmpty(file.name) /\ Len(done) \in Nat /\ done \in Seq(Bytes) /\ Len(done) <= b
  BY RoundNumbers DEF AtRound
<1>2. n \in Nat \ {0} /\ n <= left /\ (b % B) + n <= B /\ k \in Nat
  <2>1. n = IF B - (b % B) > left THEN left ELSE B - (b % B)
    BY DEF CopiedBy
  <2> QED
    BY <1>1, <2>1, RoundSize
<1>3. file \in Blocks /\ IsOpen(file) /\ HasSector(file) /\ Copying(file, left, done)
  BY DEF AtRound
<1>4. new.name = file.name /\ new.filesize = file.filesize /\ new.bytesread = b + n
  BY <1>3, AfterFields
<1>5. file.filesize = EntryOf(file.name).filesize
  BY <1>3 DEF IsOpen
<1>6. PICK s \in Int : file.buffer = Sector(s)
  <2>1. file.filesize > 0
    BY <1>1
  <2>2. PICK j \in 0 .. Last(file.name) : IsAt(file, j)
    BY <1>3, <2>1 DEF HasSector
  <2> DEFINE s == ClusterAt(file.name, j) + CLUSTER_OFFSET
  <2>3. s \in Int /\ file.buffer = Sector(s)
    BY <1>1, <2>2, SectorOfFile DEF IsAt, SectorAt
  <2> HIDE DEF s
  <2> QED
    BY <2>3
<1>7. b + n <= file.filesize
  <2> HIDE DEF b, n
  <2> QED
    BY <1>1, <1>2
<1>8. /\ piece \in Seq(Bytes) /\ Len(piece) = n
      /\ IsAt(file, k) => \A i \in 1 .. n : piece[i] = content[b + i]
  <2>1. piece = SubSeq(Sector(s), (b % B) + 1, (b % B) + n)
    BY <1>6 DEF Piece
  <2>2. IsAt(file, k) <=> Sector(s) = SectorAt(file.name, b \div B)
    BY <1>6 DEF IsAt
  <2>3. b + n <= EntryOf(file.name).filesize
    BY <1>5, <1>7
  <2> DEFINE cut == SubSeq(Sector(s), (b % B) + 1, (b % B) + n)
  <2> HIDE DEF b, n, piece, content
  <2>4. /\ cut \in Seq(Bytes) /\ Len(cut) = n
        /\ Sector(s) = SectorAt(file.name, b \div B) =>
             \A i \in 1 .. n : cut[i] = Content(file.name)[b + i]
    BY <1>1, <1>2, <2>3, PieceOfSector
  <2> QED
    BY <2>1, <2>2, <2>4 DEF content
<1> HIDE DEF piece
<1>9. all \in Seq(Bytes) /\ Len(all) = Len(done) + n
  BY <1>1, <1>8, ConcatProperties
<1>10. all # << >>
  <2>1. Len(all) # 0
    BY <1>1, <1>2, <1>9
  <2> QED
    BY <1>9, <2>1, EmptySeq
<1>11. Len(all) <= new.bytesread /\ new.bytesread - Len(all) = b - Len(done)
  <2> DEFINE d == Len(done)
             a == Len(all)
  <2>1. d \in Nat /\ d <= b /\ a = d + n /\ b \in Nat /\ n \in Nat
    BY <1>1, <1>2, <1>9
  <2> HIDE DEF d, a, b, n, new
  <2>2. a <= b + n /\ (b + n) - a = b - d
    BY <2>1
  <2> QED
    BY <1>4, <2>2 DEF a, d, b
<1>12. ASSUME Right(file, done, until) PROVE CopiedRight(new, all, until)
  <2> DEFINE d == Len(done)
             pos == b - d
  <2>1. /\ d \in Nat /\ d <= b /\ pos \in Nat /\ Len(all) = d + n
        /\ new.bytesread - Len(all) = pos /\ new.name = file.name
    <3>1. d \in Nat /\ d <= b /\ b \in Nat
      BY <1>1
    <3>2. pos \in Nat
      <4> HIDE DEF b, d
      <4> QED
        BY <3>1
    <3> QED
      BY <1>4, <1>9, <1>11, <3>1, <3>2
  <2>2. ASSUME NEW i \in 1 .. d, pos + i > until PROVE all[i] = content[pos + i]
    <3>1. all[i] = done[i]
      BY <1>1, <1>8, ConcatProperties
    <3>2. done # << >>
      BY <1>1, EmptySeq
    <3>3. CopiedRight(file, done, until)
      BY <1>12, <3>2 DEF Right
    <3> QED
      BY <2>2, <3>1, <3>3 DEF CopiedRight
  <2>3. ASSUME NEW m \in 1 .. n, b + m > until PROVE all[d + m] = content[b + m]
    <3>1. all[d + m] = piece[m]
      BY <1>1, <1>8, ConcatProperties
    <3>2. IsAt(file, k)
      <4>1. CASE done # << >>
        BY <1>3, <4>1 DEF Copying
      <4>2. CASE done = << >>
        <5>1. Fresh(file, until)
          BY <1>12, <4>2 DEF Right
        <5>2. ~(b >= file.filesize)
          <6> DEFINE size == file.filesize
          <6> HIDE DEF b, size
          <6> QED
            BY <1>1 DEF size
        <5>3. until # (k + 1) * B
          <6> DEFINE after == (k + 1) * B
          <6>1. b + n <= after
            BY <1>1, <1>2, SectorSize, WithinSector
          <6> HIDE DEF after, b, k, n
          <6> QED
            BY <1>1, <1>2, <2>3, <6>1 DEF after
        <5> QED
          BY <5>1, <5>2, <5>3 DEF Fresh
      <4> QED
        BY <4>1, <4>2
    <3> QED
      BY <1>8, <3>1, <3>2
  <2>4. ASSUME NEW i \in 1 .. (d + n), pos + i > until PROVE all[i] = content[pos + i]
    <3>1. CASE i <= d
      BY <2>1, <2>2, <2>4, <3>1
    <3>2. CASE i > d
      <4> DEFINE m == i - d
      <4>1. m \in 1 .. n /\ d + m = i /\ b + m = pos + i
        <5>1. d \in Nat /\ b \in Nat /\ n \in Nat /\ pos = b - d
          BY <1>1, <1>2, <2>1
        <5> HIDE DEF d, b, n, pos
        <5> QED
          BY <3>2, <5>1
      <4> HIDE DEF m, pos, b, d, all, content
      <4>2. all[d + m] = content[b + m]
        BY <2>3, <2>4, <4>1
      <4> QED
        BY <4>1, <4>2
    <3> QED
      BY <2>1, <3>1, <3>2
  <2> HIDE DEF new, all, pos, d
  <2> QED
    BY <2>1, <2>4 DEF CopiedRight, content
<1>13. Right(file, done, until) => Right(new, all, until)
  BY <1>10, <1>12 DEF Right
<1> QED
  BY <1>9, <1>10, <1>11, <1>13 DEF piece

\* ... what is left was asked for; ...
LEMMA RoundAsked ==
    ASSUME NEW file, NEW left, NEW done, AtRound(file, left, done)
    PROVE  /\ left - CopiedBy(file, left) \in Nat
           /\ Asked(After(file, left), left - CopiedBy(file, left), done \o Piece(file, left))
<1> DEFINE n == CopiedBy(file, left)
           new == After(file, left)
           all == done \o Piece(file, left)
           pos == file.bytesread - Len(done)
<1>1. left - n \in Nat /\ left \in Nat /\ n \in Nat /\ Len(done) \in Nat
  <2>1. file.bytesread \in Nat /\ left \in Nat \ {0} /\ Len(done) \in Nat
    BY RoundNumbers
  <2>2. n = IF B - (file.bytesread % B) > left THEN left ELSE B - (file.bytesread % B)
    BY DEF CopiedBy
  <2> QED
    BY <2>1, <2>2, RoundSize
<1>2. Len(all) = Len(done) + n /\ new.bytesread - Len(all) = pos
  BY RoundCopies, 0 \in Nat
<1>3. new.filesize = file.filesize
  BY AfterFields DEF AtRound
<1>4. (left - n) + Len(all) = left + Len(done)
  BY <1>1, <1>2
<1>5. PICK m \in ReadSizes :
        m # 0 /\ left + Len(done) = IF pos + m < file.filesize THEN m ELSE file.filesize - pos
  BY DEF AtRound, Asked
<1> HIDE DEF n, new, all, pos
<1>6. Asked(new, left - n, all)
  BY <1>2, <1>3, <1>4, <1>5 DEF Asked
<1> QED
  BY <1>1, <1>6 DEF n, new, all

\* ... and it is at the end of a sector with more to come, or it has read all it was asked for and is in the sector it was in,
\* or at the end of the file.
LEMMA RoundGoesOn ==
    ASSUME NEW file, NEW left, NEW done, AtRound(file, left, done),
           After(file, left).bytesread % B = 0, IsData(Fat[file.cluster])
    PROVE  Fetching(After(file, left), done \o Piece(file, left))
<1> DEFINE n == CopiedBy(file, left)
           b == file.bytesread
           k == b \div B
           new == After(file, left)
           name == file.name
           size == file.filesize
<1>1. /\ b \in Nat /\ size \in Nat /\ left \in Nat \ {0} /\ b + left <= size /\ NotEmpty(name)
  BY RoundNumbers
<1>2. file \in Blocks /\ IsOpen(file) /\ HasSector(file)
  BY DEF AtRound
<1>3. new.name = name /\ new.filesize = size /\ new.bytesread = b + n /\ new.buffer = file.buffer
  BY <1>2, AfterFields
<1>4. /\ n \in Nat \ {0} /\ n <= left /\ k \in Nat /\ b % B \in 0 .. (B - 1)
      /\ (b % B) + n = B /\ (b + n) \div B = k + 1
  <2>1. n = IF B - (b % B) > left THEN left ELSE B - (b % B)
    BY DEF CopiedBy
  <2>2. (b + n) % B = 0
    BY <1>3
  <2> HIDE DEF b, n, new
  <2> QED
    BY <1>1, <2>1, <2>2, RoundSize
<1>5. /\ k \in 0 .. Last(name) /\ file.cluster = ClusterAt(name, k)
      /\ ClusterAt(name, k + 1) = Fat[file.cluster] /\ Fat[file.cluster] \in Nat
  BY RoundCluster
<1>6. b + n <= size
  <2> HIDE DEF b, n, size
  <2> QED
    BY <1>1, <1>4
<1>7. b + n # size
  <2> SUFFICES ASSUME b + n = size PROVE FALSE
    OBVIOUS
  <2>1. size = EntryOf(name).filesize
    BY <1>2 DEF IsOpen
  <2> DEFINE m == n - 1
             r == b % B
  <2>2. m \in Nat /\ size - 1 = b + m /\ r + m < B
    <3>1. r \in Nat /\ r + n = B /\ B \in Nat
      BY <1>4, SectorSize
    <3> HIDE DEF r, b, n, size
    <3> QED
      BY <1>1, <1>4, <3>1
  <2>3. (b + m) \div B = k
    <3> HIDE DEF m, b
    <3> QED
      BY <1>1, <2>2, SectorSize, SameSector DEF r
  <2>4. Last(name) = k
    <3> HIDE DEF m, b, size, name
    <3> QED
      BY <2>1, <2>2, <2>3 DEF Last
  <2>5. Fat[file.cluster] >= 4088
    BY <1>1, <1>5, <2>4, ChainOfFile
  <2> DEFINE c == Fat[file.cluster]
  <2>6. c >= 4088 /\ c <= 4079 /\ c \in Nat
    BY <1>5, <2>5 DEF IsData
  <2> HIDE DEF c
  <2> QED
    BY <2>6
<1>8. new.bytesread < new.filesize
  <2> HIDE DEF b, n, size, new
  <2> QED
    BY <1>1, <1>3, <1>4, <1>6, <1>7
<1>9. done \o Piece(file, left) # << >>
  BY RoundCopies, 0 \in Nat
<1> HIDE DEF new
<1> QED
  BY <1>8, <1>9 DEF Fetching, new

LEMMA RoundReturns ==
    ASSUME NEW file, NEW left, NEW done, AtRound(file, left, done), NEW until \in Nat,
           ~(After(file, left).bytesread % B = 0 /\ IsData(Fat[file.cluster]))
    PROVE  /\ left - CopiedBy(file, left) = 0
           /\ Right(file, done, until) => Right(After(file, left), << >>, until)
<1> DEFINE n == CopiedBy(file, left)
           b == file.bytesread
           k == b \div B
           new == After(file, left)
           name == file.name
           size == file.filesize
<1>1. /\ b \in Nat /\ size \in Nat /\ left \in Nat \ {0} /\ b + left <= size /\ NotEmpty(name)
  BY RoundNumbers
<1>2. file \in Blocks /\ IsOpen(file) /\ HasSector(file) /\ Copying(file, left, done)
  BY DEF AtRound
<1>3. new.name = name /\ new.filesize = size /\ new.bytesread = b + n /\ new.buffer = file.buffer
  BY <1>2, AfterFields
<1>4. /\ n \in Nat \ {0} /\ n <= left /\ k \in Nat
      /\ (b + n) % B = 0 => (b + n) \div B = k + 1
      /\ (b + n) % B # 0 => (b + n) \div B = k /\ n = left
  <2>1. n = IF B - (b % B) > left THEN left ELSE B - (b % B)
    BY DEF CopiedBy
  <2> HIDE DEF b, n
  <2> QED
    BY <1>1, <2>1, RoundSize
<1>5. size = EntryOf(name).filesize
  BY <1>2 DEF IsOpen
<1>6. CASE (b + n) % B # 0
  <2>1. left - n = 0
    <3> HIDE DEF n, b
    <3> QED
      BY <1>1, <1>4, <1>6
  <2>2. ASSUME Right(file, done, until) PROVE Right(new, << >>, until)
    <3>1. IsAt(file, k) \/ until = (k + 1) * B
      <4>1. CASE done = << >>
        <5>1. ~(b >= size)
          <6> HIDE DEF b, size
          <6> QED
            BY <1>1
        <5>2. Fresh(file, until)
          BY <2>2, <4>1 DEF Right
        <5> QED
          BY <5>1, <5>2 DEF Fresh
      <4>2. CASE done # << >>
        BY <1>2, <4>2 DEF Copying
      <4> QED
        BY <4>1, <4>2
    <3>2. new.bytesread \div B = k
      BY <1>3, <1>4, <1>6
    <3>3. IsAt(new, k) <=> IsAt(file, k)
      BY <1>3 DEF IsAt
    <3> HIDE DEF new, k
    <3>4. Fresh(new, until)
      BY <3>1, <3>2, <3>3 DEF Fresh
    <3> QED
      BY <3>4 DEF Right
  <2> QED
    BY <2>1, <2>2
<1>7. CASE (b + n) % B = 0
  <2>1. ~IsData(Fat[file.cluster])
    BY <1>3, <1>7
  <2>2. b + n <= size
    <3> HIDE DEF b, n, size
    <3> QED
      BY <1>1, <1>4
  <2>3. ~(b + n < size)
    <3> SUFFICES ASSUME b + n < size PROVE FALSE
      OBVIOUS
    <3>1. b + n \in Nat
      <4> HIDE DEF b, n
      <4> QED
        BY <1>1, <1>4
    <3> DEFINE p == b + n
    <3>2. p \in Nat /\ p < EntryOf(name).filesize /\ p \div B = k + 1
      BY <1>4, <1>5, <1>7, <3>1
    <3> HIDE DEF p
    <3>3. k + 1 \in 0 .. Last(name)
      BY <1>1, <3>2, PositionInFile
    <3>4. IsData(ClusterAt(name, k + 1))
      BY <1>1, <3>3, ChainOfFile
    <3> QED
      BY <2>1, <3>4, RoundCluster
  <2>4. b + n = size
    <3> HIDE DEF b, n, size
    <3> QED
      BY <1>1, <1>4, <2>2, <2>3
  <2>5. left - n = 0
    <3> HIDE DEF b, n, size
    <3> QED
      BY <1>1, <1>4, <2>4
  <2>6. new.bytesread >= new.filesize
    BY <1>1, <1>3, <2>4
  <2> HIDE DEF new
  <2>7. Right(new, << >>, until)
    BY <2>6 DEF Right, Fresh
  <2> QED
    BY <2>5, <2>7 DEF new
<1> QED
  BY <1>6, <1>7

----------------------------------------------------------------------------
(* The directory.                                                          *)

\* What the list finds is the entry of the name, and it finds one if there is.
LEMMA FoundIsEntry ==
    ASSUME m_DirEntry = Root, NEW name, name # NULL, NEW e \in Found(name)
    PROVE  /\ Exists(name) /\ e = EntryOf(name)
           /\ e.cluster \in Nat /\ e.filesize \in Nat
<1> DEFINE Is(j) == Root[j].name = name /\ \A k \in Files : Root[k].name = name => j <= k
<1>1. PICK j \in Files : /\ e = Root[j] /\ Root[j].name = name
                         /\ \A k \in Files : k < j => Root[k].name # name
  BY DEF Found, FsGetFileList, Files
<1>2. j \in 1 .. Len(Root) /\ \A k \in Files : k \in 1 .. Len(Root)
  BY <1>1 DEF Files
<1>3. Len(Root) \in Nat /\ Root[j] \in [name : STRING, cluster : Nat, filesize : Nat, erased : BOOLEAN]
  <2> DEFINE E == [name : STRING, cluster : Nat, filesize : Nat, erased : BOOLEAN]
  <2>1. Root \in Seq(E)
    BY DiskAssumption
  <2> HIDE DEF E
  <2>2. Len(Root) \in Nat /\ Root[j] \in E
    BY <1>2, <2>1
  <2> QED
    BY <2>2 DEF E
<1>4. Is(j)
  <2> SUFFICES ASSUME NEW k \in Files, Root[k].name = name PROVE j <= k
    BY <1>1
  <2>1. ~(k < j) /\ k \in Int /\ j \in Int
    BY <1>1, <1>2, <1>3
  <2> QED
    BY <2>1
<1>5. \A i \in Files : Is(i) => i = j
  BY <1>1, <1>2, <1>3, <1>4
<1>6. (CHOOSE i \in Files : Is(i)) = j
  <2> HIDE DEF Is
  <2> QED
    BY <1>1, <1>4, <1>5
<1>7. EntryOf(name) = Root[j]
  BY <1>6 DEF EntryOf
<1> QED
  BY <1>1, <1>3, <1>7 DEF Exists

LEMMA FoundIfExists ==
    ASSUME m_DirEntry = Root, NEW name, Found(name) = {}
    PROVE  ~Exists(name)
<1> SUFFICES ASSUME Exists(name) PROVE FALSE
  OBVIOUS
<1> DEFINE Named == {i \in Files : Root[i].name = name}
<1>1. Len(Root) \in Nat
  BY DiskAssumption, LenProperties
<1>2. Named \subseteq Nat /\ Named # {}
  BY <1>1 DEF Files, Exists
<1>3. PICK j \in Named : \A k \in Named : j <= k
  BY <1>2, LeastNumber, Zenon
<1>4. \A k \in Files : k < j => Root[k].name # name
  BY <1>1, <1>2, <1>3 DEF Files
<1>5. Root[j] \in Found(name)
  BY <1>3, <1>4 DEF Found, FsGetFileList, Files
<1> QED
  BY <1>5

----------------------------------------------------------------------------
(* The invariant holds at first and in every step.                         *)

LEMMA FreeBlock == Free \in Blocks
<1>1. << >> \in Buffers
  BY DEF Buffers
<1> QED
  BY <1>1 DEF Free, Blocks

\* A block of an open file is in use.
LEMMA OpenIsNotFree ==
    ASSUME NEW file, IsOpen(file)
    PROVE  file # Free
BY DEF IsOpen, Free

LEMMA FInit == Init => FInv
<1> SUFFICES ASSUME Init PROVE FInv
  OBVIOUS
<1> USE DEF Init
<1>1. FTypes
  <2>1. fcb \in [Handles -> Blocks]
    BY FreeBlock
  <2>2. data \in Seq(Bytes)
    BY EmptySeq
  <2>3. held \subseteq Handles
    OBVIOUS
  <2>4. /\ m_FAT \in {[i \in DOMAIN PackedFat |-> 0], PackedFat}
        /\ m_DirEntry \in {<< >>, Root} /\ pc = "load_fat" /\ cur \in Handles \cup {NULL} /\ bytes_to_read \in Nat
    OBVIOUS
  <2>5. unsure \in [Handles -> Nat]
    OBVIOUS
  <2> QED
    BY <2>1, <2>2, <2>3, <2>4, <2>5 DEF FTypes
<1>2. Loaded /\ HeldBlocks /\ FilesFollow /\ Buffered /\ InRead
  <2>1. pc = "load_fat" /\ held = {} /\ \A h \in Handles : fcb[h] = Free
    OBVIOUS
  <2> QED
    BY <2>1 DEF Loaded, HeldBlocks, FilesFollow, Buffered, InRead
<1> QED
  BY <1>1, <1>2 DEF FInv

\* A step that leaves the blocks, and is in no call before it and after it.
LEMMA QuietStep ==
    ASSUME FInv, FTypes', Loaded', UNCHANGED <<fcb, held, unsure>>,
           pc \notin {"open", "copy", "fetch"}, pc' \notin {"open", "copy", "fetch"}
    PROVE  FInv'
<1>1. HeldBlocks'
  BY DEF FInv, HeldBlocks
<1>2. FilesFollow'
  BY DEF FInv, FilesFollow
<1>3. \A h \in held : Done(h) = << >> /\ Done(h)' = << >>
  BY DEF Done, InCall
<1>4. Buffered'
  <2> SUFFICES ASSUME NEW h \in held PROVE HasSector(fcb[h]) /\ Right(fcb[h], << >>, unsure[h])
    BY <1>3 DEF Buffered
  <2> QED
    BY <1>3 DEF FInv, Buffered
<1>5. InRead'
  BY DEF InRead
<1> QED
  BY <1>1, <1>2, <1>4, <1>5 DEF FInv

LEMMA LoadSteps ==
    ASSUME FInv, FspLoadFAT \/ FspLoadDirEntry \/ LoadIsRefused
    PROVE  FInv'
<1>1. FTypes'
  BY DEF FInv, FTypes, FspLoadFAT, FspLoadDirEntry, LoadIsRefused, disk
<1>2. Loaded'
  BY DEF FInv, Loaded, FspLoadFAT, FspLoadDirEntry, LoadIsRefused, disk
<1>3. UNCHANGED <<fcb, held, unsure>> /\ pc \notin {"open", "copy", "fetch"} /\ pc' \notin {"open", "copy", "fetch"}
  BY DEF FspLoadFAT, FspLoadDirEntry, LoadIsRefused
<1> QED
  BY <1>1, <1>2, <1>3, QuietStep

LEMMA OpenFailsStep ==
    ASSUME FInv, NEW name \in Names, OpenFails(name)
    PROVE  FInv'
<1>1. UNCHANGED <<m_FAT, m_DirEntry, fcb, held, pc, cur, bytes_to_read, data, unsure>> /\ pc = "idle"
  BY DEF OpenFails, disk, locals
<1>2. FTypes' /\ Loaded'
  BY <1>1 DEF FInv, FTypes, Loaded
<1> QED
  BY <1>1, <1>2, QuietStep

LEMMA OpenStep ==
    ASSUME FInv, NEW name \in Names, FsOpenFile(name)
    PROVE  FInv'
<1>1. PICK h \in Handles, e \in Found(name) :
        /\ fcb[h] = Free
        /\ fcb' = [fcb EXCEPT ![h] = [name |-> name, cluster |-> e.cluster, filesize |-> e.filesize,
                                      bytesread |-> 0, buffer |-> << >>]]
        /\ cur' = h
  BY DEF FsOpenFile
<1>2. /\ pc = "idle" /\ pc' = "open" /\ name # NULL
      /\ UNCHANGED <<m_FAT, m_DirEntry, held, bytes_to_read, data, answer, unsure>>
  BY DEF FsOpenFile, disk
<1> DEFINE new == [name |-> name, cluster |-> e.cluster, filesize |-> e.filesize,
                   bytesread |-> 0, buffer |-> << >>]
<1>3. m_DirEntry = Root
  BY <1>2 DEF FInv, Loaded
<1>4. Exists(name) /\ e = EntryOf(name) /\ e.cluster \in Nat /\ e.filesize \in Nat
  BY <1>2, <1>3, FoundIsEntry
<1>5. /\ new.name = name /\ new.cluster = e.cluster /\ new.filesize = e.filesize
      /\ new.bytesread = 0 /\ new.buffer = << >>
  OBVIOUS
<1>6. new \in Blocks
  <2>1. << >> \in Buffers
    BY DEF Buffers
  <2> QED
    BY <1>4, <2>1 DEF Blocks
<1>7. fcb' = [fcb EXCEPT ![h] = new]
  BY <1>1
<1> HIDE DEF new
<1>8. fcb \in [Handles -> Blocks]
  BY DEF FInv, FTypes
<1>9. fcb' \in [Handles -> Blocks] /\ fcb'[h] = new /\ \A g \in Handles \ {h} : fcb'[g] = fcb[g]
  BY <1>6, <1>7, <1>8
<1>10. IsOpen(new)
  <2>1. ClusterAt(name, 0) = e.cluster /\ 0 \div B = 0
    BY <1>4, ClusterFirst, SectorSize
  <2> QED
    BY <1>2, <1>4, <1>5, <2>1 DEF IsOpen
<1>11. FTypes' /\ Loaded'
  BY <1>1, <1>2, <1>9 DEF FInv, FTypes, Loaded
<1>12. {g \in Handles : fcb[g] # Free} = held /\ h \notin held
  BY <1>1, <1>2 DEF FInv, HeldBlocks
<1>13. HeldBlocks'
  <2>1. {g \in Handles : fcb'[g] # Free} = held \cup {h}
    BY <1>9, <1>10, <1>12, OpenIsNotFree
  <2> QED
    BY <1>1, <1>2, <1>5, <1>9, <1>12, <2>1 DEF HeldBlocks
<1>14. FilesFollow'
  BY <1>9, <1>10 DEF FInv, FilesFollow
<1>15. Buffered'
  <2> SUFFICES ASSUME NEW g \in held PROVE HasSector(fcb'[g]) /\ Right(fcb'[g], Done(g)', unsure'[g])
    BY <1>2 DEF Buffered
  <2>1. g \in Handles \ {h}
    BY <1>12 DEF FInv, FTypes
  <2>2. Done(g) = << >> /\ Done(g)' = << >>
    BY <1>2 DEF Done, InCall
  <2> QED
    BY <1>2, <1>9, <2>1, <2>2 DEF FInv, Buffered
<1>16. InRead'
  BY <1>2 DEF InRead
<1> QED
  BY <1>11, <1>13, <1>14, <1>15, <1>16 DEF FInv

\* The block with the sector of its cluster in its buffer.
Refilled(file) == [file EXCEPT !.buffer = Sector(file.cluster + CLUSTER_OFFSET)]

LEMMA RefilledFields ==
    ASSUME NEW file \in Blocks
    PROVE  /\ Refilled(file) \in Blocks
           /\ Refilled(file).name = file.name /\ Refilled(file).filesize = file.filesize
           /\ Refilled(file).bytesread = file.bytesread /\ Refilled(file).cluster = file.cluster
           /\ Refilled(file).buffer = Sector(file.cluster + CLUSTER_OFFSET)
<1>1. Sector(file.cluster + CLUSTER_OFFSET) \in Buffers
  <2>1. file.cluster + CLUSTER_OFFSET \in Int
    BY DEF Blocks, CLUSTER_OFFSET
  <2> QED
    BY <2>1 DEF Buffers
<1> QED
  BY <1>1 DEF Refilled, Blocks

\* It has the sector of its position, if that is before the end.
LEMMA RefilledIsRight ==
    ASSUME NEW file \in Blocks, IsOpen(file), file.bytesread < file.filesize \/ file.bytesread = 0
    PROVE  /\ IsOpen(Refilled(file)) /\ HasSector(Refilled(file))
           /\ \A until : Right(Refilled(file), << >>, until)
           /\ file.bytesread < file.filesize => IsAt(Refilled(file), file.bytesread \div B)
<1> DEFINE new == Refilled(file)
           k == file.bytesread \div B
<1>1. /\ new.name = file.name /\ new.filesize = file.filesize
      /\ new.bytesread = file.bytesread /\ new.cluster = file.cluster
      /\ new.buffer = Sector(file.cluster + CLUSTER_OFFSET)
  BY RefilledFields
<1>2. file.bytesread \in Nat /\ file.filesize \in Nat
  BY DEF Blocks
<1> HIDE DEF new
<1>3. IsOpen(new)
  BY <1>1 DEF IsOpen
<1>4. ASSUME file.bytesread < file.filesize PROVE IsAt(new, k) /\ k \in 0 .. Last(file.name)
  <2>1. file.cluster = ClusterAt(file.name, k)
    BY <1>4 DEF IsOpen
  <2>2. NotEmpty(file.name) /\ file.bytesread < EntryOf(file.name).filesize
    BY <1>2, <1>4 DEF IsOpen, NotEmpty
  <2> QED
    BY <1>1, <1>2, <2>1, <2>2, PositionInFile DEF IsAt, SectorAt
<1>5. ASSUME NEW until PROVE Right(new, << >>, until)
  <2>1. file.bytesread >= file.filesize \/ file.bytesread < file.filesize
    BY <1>2
  <2>2. Fresh(new, until)
    BY <1>1, <1>4, <2>1 DEF Fresh
  <2> QED
    BY <2>2 DEF Right
<1>6. HasSector(new)
  <2> SUFFICES ASSUME file.filesize > 0 PROVE \E j \in 0 .. Last(file.name) : IsAt(new, j)
    BY <1>1 DEF HasSector
  <2>1. file.bytesread < file.filesize
    BY <1>2
  <2>2. k \in 0 .. Last(file.name) /\ IsAt(new, k) /\ k \in Int
    BY <1>4, <2>1
  <2> HIDE DEF k
  <2> QED
    BY <2>2
<1> QED
  BY <1>3, <1>4, <1>5, <1>6 DEF new

LEMMA FilledIs ==
    ASSUME fcb \in [Handles -> Blocks], NEW h \in Handles
    PROVE  /\ Filled(h) \in [Handles -> Blocks]
           /\ Filled(h)[h] = Refilled(fcb[h])
           /\ \A g \in Handles \ {h} : Filled(h)[g] = fcb[g]
<1>1. fcb[h] \in Blocks
  OBVIOUS
<1>2. Filled(h) = [fcb EXCEPT ![h] = Refilled(fcb[h])]
  BY DEF Filled, Refilled
<1>3. Refilled(fcb[h]) \in Blocks
  BY <1>1, RefilledFields
<1> QED
  BY <1>2, <1>3

LEMMA FirstComesStep ==
    ASSUME FInv, FirstSectorComes
    PROVE  FInv'
<1>1. /\ pc = "open" /\ fcb' = Filled(cur) /\ held' = held \cup {cur} /\ pc' = "idle"
      /\ unsure' = [unsure EXCEPT ![cur] = 0]
      /\ UNCHANGED <<m_FAT, m_DirEntry, cur, bytes_to_read, data>>
  BY DEF FirstSectorComes, disk
<1>2. /\ cur \in Handles \ held /\ fcb[cur].bytesread = 0
      /\ {g \in Handles : fcb[g] # Free} = held \cup {cur}
  BY <1>1 DEF FInv, HeldBlocks
<1>3. fcb \in [Handles -> Blocks] /\ held \subseteq Handles /\ unsure \in [Handles -> Nat]
  BY DEF FInv, FTypes
<1> DEFINE new == Refilled(fcb[cur])
<1>4. fcb' \in [Handles -> Blocks] /\ fcb'[cur] = new /\ \A g \in Handles \ {cur} : fcb'[g] = fcb[g]
  BY <1>1, <1>2, <1>3, FilledIs
<1>5. fcb[cur] \in Blocks /\ IsOpen(fcb[cur])
  BY <1>2, <1>3 DEF FInv, FilesFollow
<1>6. IsOpen(new) /\ HasSector(new) /\ \A until : Right(new, << >>, until)
  BY <1>2, <1>5, RefilledIsRight
<1> HIDE DEF new
<1>13. unsure' \in [Handles -> Nat] /\ \A g \in Handles \ {cur} : unsure'[g] = unsure[g]
  BY <1>1, <1>2, <1>3
<1>7. FTypes' /\ Loaded'
  BY <1>1, <1>2, <1>4, <1>13 DEF FInv, FTypes, Loaded
<1>8. HeldBlocks'
  <2>1. {g \in Handles : fcb'[g] # Free} = held \cup {cur}
    BY <1>2, <1>4, <1>6, OpenIsNotFree
  <2> QED
    BY <1>1, <2>1 DEF HeldBlocks
<1>9. FilesFollow'
  BY <1>4, <1>6 DEF FInv, FilesFollow
<1>10. \A g \in Handles : Done(g) = << >> /\ Done(g)' = << >>
  BY <1>1 DEF Done, InCall
<1>11. Buffered'
  <2> SUFFICES ASSUME NEW g \in held \cup {cur}
               PROVE  HasSector(fcb'[g]) /\ Right(fcb'[g], << >>, unsure'[g])
    BY <1>1, <1>2, <1>3, <1>10 DEF Buffered
  <2>1. CASE g = cur
    BY <1>4, <1>6, <2>1
  <2>2. CASE g # cur
    BY <1>3, <1>4, <1>10, <1>13, <2>2 DEF FInv, Buffered
  <2> QED
    BY <2>1, <2>2
<1>12. InRead'
  BY <1>1 DEF InRead
<1> QED
  BY <1>7, <1>8, <1>9, <1>11, <1>12 DEF FInv

\* A step that frees one block, in no call after it.
LEMMA FreeingStep ==
    ASSUME FInv, NEW h \in Handles, fcb' = [fcb EXCEPT ![h] = Free], held' = held \ {h},
           held \cup (IF pc = "open" THEN {cur} ELSE {}) \subseteq held' \cup {h},
           pc \notin {"copy", "fetch"}, pc' = "idle", unsure' = unsure, FTypes', Loaded'
    PROVE  FInv'
<1>1. fcb \in [Handles -> Blocks] /\ held \subseteq Handles
  BY DEF FInv, FTypes
<1>2. fcb'[h] = Free /\ \A g \in Handles \ {h} : fcb'[g] = fcb[g]
  BY <1>1
<1>3. HeldBlocks'
  <2>1. {g \in Handles : fcb[g] # Free} = held \cup (IF pc = "open" THEN {cur} ELSE {})
    BY DEF FInv, HeldBlocks
  <2>2. \A g \in Handles : fcb'[g] # Free <=> g \in held \ {h}
    <3> SUFFICES ASSUME NEW g \in Handles PROVE fcb'[g] # Free <=> g \in held \ {h}
      OBVIOUS
    <3>1. fcb[g] # Free <=> g \in held \cup (IF pc = "open" THEN {cur} ELSE {})
      BY <2>1
    <3> QED
      BY <1>2, <3>1
  <2> QED
    BY <1>1, <2>2 DEF HeldBlocks
<1>4. FilesFollow'
  <2> SUFFICES ASSUME NEW g \in Handles, fcb'[g] # Free PROVE IsOpen(fcb'[g])
    BY DEF FilesFollow
  <2>1. fcb'[g] = fcb[g]
    BY <1>2
  <2> QED
    BY <2>1 DEF FInv, FilesFollow
<1>5. \A g \in Handles : Done(g) = << >> /\ Done(g)' = << >>
  BY DEF Done, InCall
<1>6. Buffered'
  <2> SUFFICES ASSUME NEW g \in held \ {h}
               PROVE  HasSector(fcb'[g]) /\ Right(fcb'[g], << >>, unsure[g])
    BY <1>1, <1>5 DEF Buffered
  <2> QED
    BY <1>1, <1>2, <1>5 DEF FInv, Buffered
<1>7. InRead'
  BY DEF InRead
<1> QED
  BY <1>3, <1>4, <1>6, <1>7 DEF FInv

LEMMA FirstRefusedStep ==
    ASSUME FInv, FirstSectorRefused
    PROVE  FInv'
<1>1. /\ pc = "open" /\ fcb' = [fcb EXCEPT ![cur] = Free] /\ pc' = "idle"
      /\ UNCHANGED <<m_FAT, m_DirEntry, held, cur, bytes_to_read, data, unsure>>
  BY DEF FirstSectorRefused, AfterRefusedOpen, disk
<1>2. cur \in Handles \ held
  BY <1>1 DEF FInv, HeldBlocks
<1>3. fcb' \in [Handles -> Blocks]
  BY <1>1, FreeBlock DEF FInv, FTypes
<1>4. FTypes' /\ Loaded'
  BY <1>1, <1>3 DEF FInv, FTypes, Loaded
<1> QED
  BY <1>1, <1>2, <1>4, FreeingStep

LEMMA CloseStep ==
    ASSUME FInv, NEW h \in Handles, FsCloseFile(h)
    PROVE  FInv'
<1>1. /\ pc = "idle" /\ pc' = "idle" /\ h \in held /\ fcb' = [fcb EXCEPT ![h] = Free] /\ held' = held \ {h}
      /\ UNCHANGED <<m_FAT, m_DirEntry, cur, bytes_to_read, data, unsure>>
  BY DEF FsCloseFile, disk, locals
<1>2. fcb' \in [Handles -> Blocks]
  BY <1>1, FreeBlock DEF FInv, FTypes
<1>3. FTypes' /\ Loaded'
  BY <1>1, <1>2 DEF FInv, FTypes, Loaded
<1> QED
  BY <1>1, <1>3, FreeingStep

\* A step of a read, or the one that begins it: of the blocks that are held it
\* changes at most that of the read.
LEMMA BlockStep ==
    ASSUME FInv, NEW h \in held, NEW new, IsOpen(new), HasSector(new),
           fcb'[h] = new, \A g \in Handles \ {h} : fcb'[g] = fcb[g],
           held' = held, pc # "open", pc' # "open",
           \A g \in Handles \ {h} : Done(g) = << >> /\ Done(g)' = << >>,
           Right(new, Done(h)', unsure'[h]), \A g \in Handles \ {h} : unsure'[g] = unsure[g],
           FTypes', Loaded', InRead'
    PROVE  FInv'
<1>1. held \subseteq Handles
  BY DEF FInv, FTypes
<1>2. HeldBlocks'
  <2>1. {g \in Handles : fcb[g] # Free} = held
    BY DEF FInv, HeldBlocks
  <2>2. {g \in Handles : fcb'[g] # Free} = held
    BY <1>1, <2>1, OpenIsNotFree
  <2> QED
    BY <2>2 DEF HeldBlocks
<1>3. FilesFollow'
  <2> SUFFICES ASSUME NEW g \in Handles, fcb'[g] # Free PROVE IsOpen(fcb'[g])
    BY DEF FilesFollow
  <2> QED
    BY DEF FInv, FilesFollow
<1>4. Buffered'
  <2> SUFFICES ASSUME NEW g \in held PROVE HasSector(fcb'[g]) /\ Right(fcb'[g], Done(g)', unsure'[g])
    BY DEF Buffered
  <2>1. CASE g = h
    BY <2>1
  <2>2. CASE g # h
    BY <1>1, <2>2 DEF FInv, Buffered
  <2> QED
    BY <2>1, <2>2
<1> QED
  BY <1>2, <1>3, <1>4 DEF FInv

LEMMA ReadStep ==
    ASSUME FInv, NEW h \in Handles, NEW n \in ReadSizes, FsReadFile(h, n)
    PROVE  FInv'
<1>1. pc = "idle" /\ h \in held /\ UNCHANGED <<m_FAT, m_DirEntry, fcb, held, unsure>>
  BY DEF FsReadFile, disk
<1> DEFINE file == fcb[h]
<1>2. fcb \in [Handles -> Blocks] /\ file \in Blocks
  BY DEF FInv, FTypes
<1>3. file.bytesread \in Nat /\ file.filesize \in Nat /\ n \in Nat
  BY <1>2, DiskAssumption DEF Blocks
<1>4. CASE n = 0 \/ file.filesize <= file.bytesread
  <2>1. UNCHANGED <<pc, cur, bytes_to_read, data>>
    BY <1>4 DEF FsReadFile, locals
  <2>2. FTypes' /\ Loaded'
    BY <1>1, <2>1 DEF FInv, FTypes, Loaded
  <2> QED
    BY <1>1, <2>1, <2>2, QuietStep
<1>5. CASE ~(n = 0 \/ file.filesize <= file.bytesread)
  <2>1. /\ bytes_to_read' = BytesToRead(h, n) /\ data' = << >> /\ cur' = h /\ pc' = "copy"
    BY <1>5 DEF FsReadFile
  <2>2. n # 0 /\ file.bytesread < file.filesize
    BY <1>3, <1>5
  <2>3. BytesToRead(h, n) = IF file.bytesread + n < file.filesize THEN n ELSE file.filesize - file.bytesread
    BY DEF BytesToRead
  <2> DEFINE b == file.bytesread
             size == file.filesize
             left == BytesToRead(h, n)
  <2>4. left \in Nat /\ left # 0
    <3>1. /\ b \in Nat /\ size \in Nat /\ n \in Nat /\ n # 0 /\ b < size
          /\ left = IF b + n < size THEN n ELSE size - b
      BY <1>3, <2>2, <2>3
    <3> HIDE DEF b, size, left
    <3> QED
      BY <3>1
  <2>5. << >> \in Seq(Bytes) /\ Len(<< >>) = 0
    BY EmptySeq
  <2>6. FTypes' /\ Loaded'
    BY <1>1, <2>1, <2>4, <2>5 DEF FInv, FTypes, Loaded
  <2>7. IsOpen(file) /\ HasSector(file) /\ Right(file, << >>, unsure[h])
    <3>1. fcb[h] # Free /\ Done(h) = << >>
      BY <1>1 DEF FInv, HeldBlocks, Done, InCall
    <3> QED
      BY <1>1, <3>1 DEF FInv, FilesFollow, Buffered
  <2>8. Asked(file, left, << >>)
    <3>1. left + 0 = IF (b - 0) + n < size THEN n ELSE size - (b - 0)
      BY <1>3, <2>3, <2>4
    <3> QED
      BY <2>2, <2>5, <3>1 DEF Asked
  <2>9. InRead'
    <3>1. Copying(file, left, << >>)
      BY <2>4 DEF Copying
    <3>2. cur' \in held' /\ Len(data') <= fcb'[cur'].bytesread
      BY <1>1, <1>3, <2>1, <2>5
    <3>3. fcb'[cur'] = file /\ bytes_to_read' = left /\ data' = << >> /\ pc' = "copy"
      BY <1>1, <2>1
    <3> HIDE DEF left, file
    <3> QED
      BY <2>8, <3>1, <3>2, <3>3 DEF InRead
  <2>10. \A g \in Handles : Done(g) = << >> /\ Done(g)' = << >>
    BY <1>1, <2>1 DEF Done, InCall
  <2>11. held' = held /\ pc # "open" /\ pc' # "open" /\ \A g \in Handles : fcb'[g] = fcb[g]
    BY <1>1, <2>1
  <2>12. Right(file, Done(h)', unsure'[h]) /\ \A g \in Handles \ {h} : unsure'[g] = unsure[g]
    BY <1>1, <2>7, <2>10
  <2> HIDE DEF file
  <2>13. fcb'[h] = file
    BY <1>1 DEF file
  <2> QED
    BY <1>1, <2>6, <2>7, <2>9, <2>10, <2>11, <2>12, <2>13, BlockStep
<1> QED
  BY <1>4, <1>5

\* What a round copies is what CopyBytes does.
LEMMA CopyIsRound ==
    ASSUME FInv, CopyBytes
    PROVE  LET file == fcb[cur] IN
           /\ cur \in held /\ cur \in Handles /\ file \in Blocks
           /\ AtRound(file, bytes_to_read, data)
           /\ fcb' \in [Handles -> Blocks]
           /\ fcb'[cur] = After(file, bytes_to_read)
           /\ \A g \in Handles \ {cur} : fcb'[g] = fcb[g]
           /\ bytes_to_read' = bytes_to_read - CopiedBy(file, bytes_to_read)
           /\ ReturnOr(After(file, bytes_to_read).bytesread % B = 0 /\ IsData(Fat[file.cluster]), "fetch",
                       data \o Piece(file, bytes_to_read))
           /\ UNCHANGED <<m_FAT, m_DirEntry, held, cur, unsure>>
<1> DEFINE file == fcb[cur]
           left == bytes_to_read
           n == CopiedBy(file, left)
           end == file.bytesread + n
<1>1. pc = "copy" /\ UNCHANGED <<m_FAT, m_DirEntry, held, cur, unsure>>
  BY DEF CopyBytes, disk
<1>2. /\ cur \in held /\ held \subseteq Handles /\ fcb \in [Handles -> Blocks]
      /\ left \in Nat /\ data \in Seq(Bytes) /\ m_FAT = PackedFat
      /\ Len(data) <= file.bytesread /\ Asked(file, left, data) /\ Copying(file, left, data)
  BY <1>1 DEF FInv, FTypes, InRead, Loaded
<1>3. file # Free
  BY <1>1, <1>2 DEF FInv, HeldBlocks
<1>4. file \in Blocks /\ IsOpen(file) /\ HasSector(file)
  BY <1>2, <1>3 DEF FInv, FilesFollow, Buffered
<1>5. AtRound(file, left, data)
  BY <1>2, <1>4 DEF AtRound
<1>6. FspGetNextCluster(file.cluster) = Fat[file.cluster]
  BY <1>2, <1>5, RoundCluster, NextOfPacked
<1>7. After(file, left).bytesread = end
  BY <1>4, AfterFields
<1>8. n = IF B - (file.bytesread % B) > left THEN left ELSE B - (file.bytesread % B)
  BY DEF CopiedBy
<1>9. PosOfBuffer(cur) = file.bytesread % B
  BY DEF PosOfBuffer, B
<1> DEFINE cluster == IF end % B = 0 THEN FspGetNextCluster(file.cluster) ELSE file.cluster
<1>10. /\ fcb' = [fcb EXCEPT ![cur].bytesread = end, ![cur].cluster = cluster]
       /\ bytes_to_read' = left - n
       /\ ReturnOr(end % B = 0 /\ IsData(cluster), "fetch",
                   data \o SubSeq(file.buffer, (file.bytesread % B) + 1, (file.bytesread % B) + n))
  <2> DEFINE pos == PosOfBuffer(cur)
             m == IF BYTES_PER_SECTOR - pos > left THEN left ELSE BYTES_PER_SECTOR - pos
             new == IF (file.bytesread + m) % BYTES_PER_SECTOR = 0
                    THEN FspGetNextCluster(file.cluster) ELSE file.cluster
  <2>1. /\ fcb' = [fcb EXCEPT ![cur].bytesread = file.bytesread + m, ![cur].cluster = new]
        /\ bytes_to_read' = left - m
        /\ ReturnOr((file.bytesread + m) % BYTES_PER_SECTOR = 0 /\ IsData(new), "fetch",
                    data \o SubSeq(file.buffer, pos + 1, pos + m))
    BY Zenon DEF CopyBytes, FetchesAhead
  <2>2. pos = file.bytesread % B /\ m = n /\ BYTES_PER_SECTOR = B
    BY <1>8, <1>9 DEF B
  <2> HIDE DEF pos, m, n, left, file
  <2> QED
    BY <2>1, <2>2
<1>11. cluster = IF end % B = 0 THEN Fat[file.cluster] ELSE file.cluster
  BY <1>6
<1>12. fcb' = [fcb EXCEPT ![cur] = After(file, left)]
  <2>1. After(file, left) = [file EXCEPT !.bytesread = end, !.cluster = cluster]
    BY <1>11 DEF After
  <2>2. [fcb EXCEPT ![cur].bytesread = end, ![cur].cluster = cluster]
        = [fcb EXCEPT ![cur] = [file EXCEPT !.bytesread = end, !.cluster = cluster]]
    <3> HIDE DEF end, cluster
    <3> QED
      BY <1>2, <1>4 DEF Blocks
  <2> HIDE DEF end, cluster
  <2> QED
    BY <1>10, <2>1, <2>2
<1>13. After(file, left) \in Blocks
  BY <1>5, RoundFollows
<1>14. ReturnOr(After(file, left).bytesread % B = 0 /\ IsData(Fat[file.cluster]), "fetch",
                data \o Piece(file, left))
  <2>1. (end % B = 0 /\ IsData(cluster)) <=> (After(file, left).bytesread % B = 0 /\ IsData(Fat[file.cluster]))
    <3>1. CASE end % B = 0
      BY <1>7, <1>11, <3>1
    <3>2. CASE end % B # 0
      BY <1>7, <3>2
    <3> QED
      BY <3>1, <3>2
  <2>2. data \o Piece(file, left)
        = data \o SubSeq(file.buffer, (file.bytesread % B) + 1, (file.bytesread % B) + n)
    BY DEF Piece
  <2> HIDE DEF end, cluster, n
  <2> QED
    BY <1>10, <2>1, <2>2 DEF ReturnOr
<1>15. fcb' \in [Handles -> Blocks] /\ fcb'[cur] = After(file, left) /\ \A g \in Handles \ {cur} : fcb'[g] = fcb[g]
  <2> HIDE DEF left, file
  <2> QED
    BY <1>2, <1>12, <1>13
<1> QED
  BY <1>1, <1>2, <1>4, <1>5, <1>10, <1>14, <1>15

LEMMA CopyStep ==
    ASSUME FInv, CopyBytes
    PROVE  FInv'
<1> DEFINE file == fcb[cur]
           left == bytes_to_read
           new == After(file, left)
           all == data \o Piece(file, left)
           goes_on == new.bytesread % B = 0 /\ IsData(Fat[file.cluster])
<1>1. /\ cur \in held /\ cur \in Handles /\ file \in Blocks /\ AtRound(file, left, data)
      /\ fcb' \in [Handles -> Blocks] /\ fcb'[cur] = new /\ \A g \in Handles \ {cur} : fcb'[g] = fcb[g]
      /\ bytes_to_read' = left - CopiedBy(file, left)
      /\ ReturnOr(goes_on, "fetch", all)
      /\ UNCHANGED <<m_FAT, m_DirEntry, held, cur, unsure>>
  BY CopyIsRound
<1>12. unsure[cur] \in Nat
  BY <1>1 DEF FInv, FTypes
<1>2. new \in Blocks /\ IsOpen(new) /\ HasSector(new)
  BY <1>1, RoundFollows
<1>3. /\ all \in Seq(Bytes) /\ all # << >> /\ Len(all) <= new.bytesread
      /\ Right(file, data, unsure[cur]) => Right(new, all, unsure[cur])
  BY <1>1, <1>12, RoundCopies
<1>4. left - CopiedBy(file, left) \in Nat /\ Asked(new, left - CopiedBy(file, left), all)
  BY <1>1, RoundAsked
<1>5. pc = "copy"
  BY DEF CopyBytes
<1>6. \/ goes_on /\ pc' = "fetch" /\ data' = all
      \/ ~goes_on /\ pc' = "idle" /\ data' = << >>
  BY <1>1 DEF ReturnOr
<1>7. Right(file, data, unsure[cur])
  BY <1>1, <1>5 DEF FInv, Buffered, Done, InCall
<1>8. FTypes' /\ Loaded'
  <2>1. data' \in Seq(Bytes) /\ pc' \in {"fetch", "idle"}
    BY <1>3, <1>6, EmptySeq
  <2> HIDE DEF all, left, goes_on
  <2> QED
    BY <1>1, <1>4, <1>5, <2>1 DEF FInv, FTypes, Loaded
<1>9. \A g \in Handles \ {cur} : Done(g) = << >> /\ Done(g)' = << >>
  BY <1>1 DEF Done, InCall
<1>10. CASE goes_on
  <2>1. pc' = "fetch" /\ data' = all
    BY <1>6, <1>10
  <2>2. Fetching(new, all)
    BY <1>1, <1>10, RoundGoesOn
  <2> HIDE DEF file, left, new, all, goes_on
  <2>3. InRead'
    BY <1>1, <1>3, <1>4, <2>1, <2>2 DEF InRead
  <2>4. Right(new, Done(cur)', unsure'[cur])
    BY <1>1, <1>3, <1>7, <2>1 DEF Done, InCall
  <2> QED
    BY <1>1, <1>2, <1>5, <1>8, <1>9, <2>1, <2>3, <2>4, BlockStep
<1>11. CASE ~goes_on
  <2>1. pc' = "idle" /\ data' = << >>
    BY <1>6, <1>11
  <2>2. Right(file, data, unsure[cur]) => Right(new, << >>, unsure[cur])
    BY <1>1, <1>11, <1>12, RoundReturns
  <2> HIDE DEF file, left, new, all, goes_on
  <2>3. InRead'
    BY <2>1 DEF InRead
  <2>4. Right(new, Done(cur)', unsure'[cur])
    BY <1>1, <1>7, <2>1, <2>2 DEF Done, InCall
  <2> QED
    BY <1>1, <1>2, <1>5, <1>8, <1>9, <2>1, <2>3, <2>4, BlockStep
<1> QED
  BY <1>10, <1>11

\* The block of a read that fetches.
LEMMA FetchFacts ==
    ASSUME FInv, pc = "fetch"
    PROVE  /\ cur \in held /\ cur \in Handles /\ fcb[cur] \in Blocks /\ IsOpen(fcb[cur]) /\ HasSector(fcb[cur])
           /\ Fetching(fcb[cur], data) /\ data \in Seq(Bytes) /\ Len(data) \in Nat
           /\ Len(data) <= fcb[cur].bytesread /\ Asked(fcb[cur], bytes_to_read, data)
           /\ Right(fcb[cur], data, unsure[cur]) /\ unsure \in [Handles -> Nat]
<1>1. /\ cur \in held /\ held \subseteq Handles /\ fcb \in [Handles -> Blocks] /\ data \in Seq(Bytes)
      /\ Fetching(fcb[cur], data) /\ unsure \in [Handles -> Nat]
      /\ Len(data) <= fcb[cur].bytesread /\ Asked(fcb[cur], bytes_to_read, data)
  BY DEF FInv, FTypes, InRead
<1>2. fcb[cur] # Free
  BY <1>1 DEF FInv, HeldBlocks
<1>3. Done(cur) = data
  BY DEF Done, InCall
<1> QED
  BY <1>1, <1>2, <1>3 DEF FInv, FilesFollow, Buffered

LEMMA NextComesStep ==
    ASSUME FInv, NextSectorComes
    PROVE  FInv'
<1> DEFINE file == fcb[cur]
           new == Refilled(file)
<1>1. /\ pc = "fetch" /\ fcb' = Filled(cur) /\ ReturnOr(bytes_to_read # 0, "copy", data)
      /\ UNCHANGED <<m_FAT, m_DirEntry, held, cur, bytes_to_read, unsure>>
  BY DEF NextSectorComes, disk
<1>2. /\ cur \in held /\ cur \in Handles /\ file \in Blocks /\ IsOpen(file) /\ HasSector(file)
      /\ Fetching(file, data) /\ Len(data) <= file.bytesread /\ Asked(file, bytes_to_read, data)
      /\ data \in Seq(Bytes) /\ Right(file, data, unsure[cur])
  BY <1>1, FetchFacts
<1>3. data # << >> /\ file.bytesread < file.filesize
  BY <1>2 DEF Fetching
<1>4. /\ IsOpen(new) /\ HasSector(new) /\ Right(new, << >>, unsure[cur])
      /\ IsAt(new, file.bytesread \div B)
  BY <1>2, <1>3, RefilledIsRight
<1>5. /\ new.name = file.name /\ new.filesize = file.filesize /\ new.bytesread = file.bytesread
  BY <1>2, RefilledFields
<1>6. fcb' \in [Handles -> Blocks] /\ fcb'[cur] = new /\ \A g \in Handles \ {cur} : fcb'[g] = fcb[g]
  <2>1. fcb \in [Handles -> Blocks]
    BY DEF FInv, FTypes
  <2> QED
    BY <1>1, <1>2, <2>1, FilledIs
<1> HIDE DEF new, file
<1>7. \/ bytes_to_read # 0 /\ pc' = "copy" /\ data' = data
      \/ bytes_to_read = 0 /\ pc' = "idle" /\ data' = << >>
  BY <1>1 DEF ReturnOr
<1>8. FTypes' /\ Loaded'
  <2>1. data' \in Seq(Bytes) /\ pc' \in {"copy", "idle"}
    BY <1>2, <1>7, EmptySeq
  <2> QED
    BY <1>1, <1>6, <2>1 DEF FInv, FTypes, Loaded
<1>9. \A g \in Handles \ {cur} : Done(g) = << >> /\ Done(g)' = << >>
  BY <1>1 DEF Done, InCall
<1>10. CASE bytes_to_read # 0
  <2>1. pc' = "copy" /\ data' = data
    BY <1>7, <1>10
  <2>2. Copying(new, bytes_to_read, data) /\ Asked(new, bytes_to_read, data)
    BY <1>2, <1>4, <1>5, <1>10 DEF Copying, Asked
  <2>3. Right(new, data, unsure[cur])
    BY <1>2, <1>3, <1>5 DEF Right, CopiedRight
  <2>4. InRead'
    BY <1>1, <1>2, <1>5, <1>6, <2>1, <2>2 DEF InRead
  <2>5. Right(new, Done(cur)', unsure'[cur])
    BY <1>1, <1>2, <2>1, <2>3 DEF Done, InCall
  <2> QED
    BY <1>1, <1>2, <1>4, <1>6, <1>8, <1>9, <2>1, <2>4, <2>5, BlockStep
<1>11. CASE bytes_to_read = 0
  <2>1. pc' = "idle" /\ data' = << >>
    BY <1>7, <1>11
  <2>2. InRead'
    BY <2>1 DEF InRead
  <2>3. Right(new, Done(cur)', unsure'[cur])
    BY <1>1, <1>4, <2>1 DEF Done, InCall
  <2> QED
    BY <1>1, <1>2, <1>4, <1>6, <1>8, <1>9, <2>1, <2>2, <2>3, BlockStep
<1> QED
  BY <1>10, <1>11

\* The sector that is refused is that of the position.
LEMMA RefusedIsFresh ==
    ASSUME NEW file \in Blocks, NEW done, Fetching(file, done)
    PROVE  Right(file, << >>, file.bytesread + B)
<1> DEFINE b == file.bytesread
           k == b \div B
<1>1. b \in Nat /\ b % B = 0
  BY DEF Blocks, Fetching
<1>2. b = B * (b \div B) + (b % B) /\ B \in Nat \ {0} /\ b \div B \in Nat
  BY <1>1, SectorSize, Division
<1> DEFINE bk == B * k
<1>3. b = bk + 0 /\ bk \in Nat /\ (k + 1) * B = bk + B
  BY <1>1, <1>2
<1> HIDE DEF bk, k, b
<1>4. b + B = (k + 1) * B
  BY <1>3
<1> QED
  BY <1>4 DEF Right, Fresh, k, b

LEMMA NextRefusedStep ==
    ASSUME FInv, NextSectorRefused
    PROVE  FInv'
<1> DEFINE file == fcb[cur]
           until == file.bytesread + B
<1>1. /\ pc = "fetch" /\ pc' = "idle" /\ data' = << >>
      /\ unsure' = [unsure EXCEPT ![cur] = until]
      /\ UNCHANGED <<m_FAT, m_DirEntry, fcb, held, cur, bytes_to_read>>
  BY DEF NextSectorRefused, disk, B
<1>2. /\ cur \in held /\ cur \in Handles /\ file \in Blocks /\ IsOpen(file) /\ HasSector(file)
      /\ Fetching(file, data) /\ unsure \in [Handles -> Nat]
  BY <1>1, FetchFacts
<1>3. until \in Nat
  <2>1. file.bytesread \in Nat /\ B \in Nat
    BY <1>2, SectorSize DEF Blocks
  <2> QED
    BY <2>1
<1>4. unsure' \in [Handles -> Nat] /\ unsure'[cur] = until /\ \A g \in Handles \ {cur} : unsure'[g] = unsure[g]
  BY <1>1, <1>2, <1>3
<1>5. FTypes' /\ Loaded'
  BY <1>1, <1>4, EmptySeq DEF FInv, FTypes, Loaded
<1>6. \A g \in Handles \ {cur} : Done(g) = << >> /\ Done(g)' = << >>
  BY <1>1 DEF Done, InCall
<1>7. InRead'
  BY <1>1 DEF InRead
<1>8. fcb'[cur] = file /\ \A g \in Handles \ {cur} : fcb'[g] = fcb[g]
  BY <1>1
<1>9. Right(file, Done(cur)', unsure'[cur])
  <2>1. Right(file, << >>, until)
    BY <1>2, RefusedIsFresh
  <2>2. Done(cur)' = << >>
    BY <1>1 DEF Done, InCall
  <2> QED
    BY <1>4, <2>1, <2>2
<1> HIDE DEF file, until
<1> QED
  BY <1>1, <1>2, <1>4, <1>5, <1>6, <1>7, <1>8, <1>9, BlockStep

LEMMA FStep == FInv /\ [Next]_vars => FInv'
<1> SUFFICES ASSUME FInv, [Next]_vars PROVE FInv'
  OBVIOUS
<1>1. CASE FspLoadFAT \/ FspLoadDirEntry \/ LoadIsRefused
  BY <1>1, LoadSteps
<1>2. ASSUME NEW name \in Names, FsOpenFile(name) \/ OpenFails(name) PROVE FInv'
  BY <1>2, OpenStep, OpenFailsStep
<1>3. CASE FirstSectorComes
  BY <1>3, FirstComesStep
<1>4. CASE FirstSectorRefused
  BY <1>4, FirstRefusedStep
<1>5. ASSUME NEW h \in Handles, FsCloseFile(h) PROVE FInv'
  BY <1>5, CloseStep
<1>6. ASSUME NEW h \in Handles, NEW n \in ReadSizes, FsReadFile(h, n) PROVE FInv'
  BY <1>6, ReadStep
<1>7. CASE CopyBytes
  BY <1>7, CopyStep
<1>8. CASE NextSectorComes
  BY <1>8, NextComesStep
<1>9. CASE NextSectorRefused
  BY <1>9, NextRefusedStep
<1>10. CASE UNCHANGED vars
  <2>1. UNCHANGED <<m_FAT, m_DirEntry, fcb, held, pc, cur, bytes_to_read, data, answer, unsure>>
    BY <1>10 DEF vars, disk, locals
  <2> QED
    BY <2>1 DEF FInv, FTypes, Loaded, HeldBlocks, FilesFollow, Buffered, Done, InCall, InRead
<1> QED
  BY <1>1, <1>2, <1>3, <1>4, <1>5, <1>6, <1>7, <1>8, <1>9, <1>10 DEF Next

\* In every behaviour each block in use is at the cluster of its position and
\* holds a sector of its file, that of the position unless the position is in the
\* sector the driver last refused to this handle.
THEOREM FilesInvariant == Spec => []FInv
<1>1. Init => FInv
  BY FInit
<1>2. FInv /\ [Next]_vars => FInv'
  BY FStep
<1> QED
  BY <1>1, <1>2, PTL DEF Spec

LEMMA BlocksFromInv == FInv => BlocksAreHeld
<1> SUFFICES ASSUME FInv PROVE BlocksAreHeld
  OBVIOUS
<1>1. \A i \in DOMAIN m_FAT : m_FAT[i] \in 0 .. 255
  <2>1. m_FAT = [i \in DOMAIN PackedFat |-> 0] \/ m_FAT = PackedFat
    BY DEF FInv, FTypes
  <2>2. CASE m_FAT = [i \in DOMAIN PackedFat |-> 0]
    BY <2>2
  <2>3. CASE m_FAT = PackedFat
    <3> SUFFICES ASSUME NEW i \in DOMAIN PackedFat PROVE PackedFat[i] \in 0 .. 255
      BY <2>3
    <3> DEFINE byte == PackedFat[i]
    <3>1. byte \in Nat /\ byte < 256
      BY PackedBytes
    <3> HIDE DEF byte
    <3>2. byte \in 0 .. 255
      BY <3>1
    <3> QED
      BY <3>2 DEF byte
  <2> QED
    BY <2>1, <2>2, <2>3
<1>2. ASSUME NEW h \in Handles, fcb[h] # Free PROVE fcb[h].bytesread \in 0 .. fcb[h].filesize
  <2>1. fcb[h] \in Blocks /\ IsOpen(fcb[h])
    BY <1>2 DEF FInv, FTypes, FilesFollow
  <2>2. fcb[h].bytesread \in Nat /\ fcb[h].filesize \in Nat /\ fcb[h].bytesread <= fcb[h].filesize
    BY <2>1 DEF Blocks, IsOpen
  <2> QED
    BY <2>2
<1>3. TypeOK
  BY <1>1, <1>2 DEF FInv, FTypes, TypeOK
<1> QED
  BY <1>3 DEF FInv, HeldBlocks, BlocksAreHeld

\* The memory of the file system is that of the handles its callers hold and of
\* the one being opened, whatever is refused: no control block is lost.
THEOREM BlocksCorrect == Spec => []BlocksAreHeld
BY FilesInvariant, BlocksFromInv, PTL

----------------------------------------------------------------------------
(* The file system implements SequentialFiles.                             *)

\* What the abstract files see of a held block, and of a handle nobody holds.
Shown(file, done, until) ==
    [name |-> file.name, pos |-> file.bytesread - Len(done), until |-> until]
Nothing == [name |-> NULL, pos |-> 0, until |-> 0]
Opened == [h \in Handles |-> IF h \in held THEN Shown(fcb[h], Done(h), unsure[h]) ELSE Nothing]

\* It is what FatFs gives for opened.
Mapped == [h \in Handles |->
    IF h \in held THEN [name |-> fcb[h].name, pos |-> Position(h), until |-> unsure[h]]
    ELSE [name |-> NULL, pos |-> 0, until |-> 0]]

LEMMA MappedIs == FTypes => Mapped = Opened
<1> SUFFICES ASSUME FTypes, NEW h \in held PROVE Position(h) = fcb[h].bytesread - Len(Done(h))
  BY DEF Mapped, Opened, Nothing, Shown
<1>1. fcb[h].bytesread \in Nat /\ Len(<< >>) = 0
  BY EmptySeq DEF FTypes, Blocks
<1> QED
  BY <1>1 DEF Position, Done

\* The abstract steps, on what FatFs gives for opened.
LEMMA MappedOpens ==
    ASSUME NEW name \in Names, Exists(name), NEW h \in Handles, Mapped[h] = Nothing,
           Mapped' = [Mapped EXCEPT ![h] = [name |-> name, pos |-> 0, until |-> 0]],
           answer' = Answer("open", h, << >>, FALSE)
    PROVE  Abstract!Next
<1>1. Abstract!Open(name)
  BY DEF Abstract!Open, Mapped, Nothing, Answer, Abstract!Answer, Abstract!Closed, Abstract!File, NULL
<1> QED
  BY <1>1 DEF Abstract!Next

LEMMA MappedOpenFails ==
    ASSUME NEW name \in Names, NEW refused \in BOOLEAN,
           IF refused THEN DriverRefuses /\ Exists(name)
           ELSE ~Exists(name) \/ \A h \in Handles : Mapped[h] # Nothing,
           Mapped' = Mapped, answer' = Answer("open", NULL, << >>, refused)
    PROVE  Abstract!Next
<1>1. Abstract!Open(name)
  <2>1. CASE refused
    BY <2>1 DEF Abstract!Open, Mapped, Nothing, Answer, Abstract!Answer, Abstract!Closed, Abstract!File, NULL
  <2>2. CASE ~refused
    <3>1. refused = FALSE
      BY <2>2
    <3> QED
      BY <2>2, <3>1 DEF Abstract!Open, Mapped, Nothing, Answer, Abstract!Answer, Abstract!Closed, Abstract!File, NULL
  <2> QED
    BY <2>1, <2>2
<1> QED
  BY <1>1 DEF Abstract!Next

LEMMA MappedCloses ==
    ASSUME NEW h \in Handles, Mapped[h] # Nothing, Mapped' = [Mapped EXCEPT ![h] = Nothing],
           answer' = Answer("close", h, << >>, FALSE)
    PROVE  Abstract!Next
<1>1. Abstract!Close(h)
  BY DEF Abstract!Close, Mapped, Nothing, Answer, Abstract!Answer, Abstract!Closed, Abstract!File, NULL
<1> QED
  BY <1>1 DEF Abstract!Next

\* The abstract read, on the same.
MappedRead(h, n) ==
    LET file == Mapped[h]
        bytes == Content(file.name)
        end == IF file.pos + n < Len(bytes) THEN file.pos + n ELSE Len(bytes)
    IN /\ file # Abstract!Closed
       /\ \E to \in file.pos .. end, refused \in BOOLEAN :
            /\ refused => DriverRefuses /\ to > file.pos /\ to % B = 0
            /\ to < end => refused
            /\ Mapped' = [Mapped EXCEPT ![h] =
                   Abstract!File(file.name, to, IF refused THEN to + B ELSE file.until)]
            /\ answer' = Abstract!Answer("read", h, answer'.data, refused)
            /\ Len(answer'.data) = to - file.pos
            /\ \A i \in file.pos + 1 .. to :
                   i > file.until => answer'.data[i - file.pos] = bytes[i]

LEMMA MappedReadIs ==
    ASSUME NEW h \in Handles, NEW n \in ReadSizes, MappedRead(h, n) PROVE Abstract!Next
<1>1. Abstract!Read(h, n)
  BY DEF MappedRead, Mapped, Abstract!Read, B
<1> QED
  BY <1>1 DEF Abstract!Next

\* A read that gives all, from p to where it got.
Gives(h, n, name, p, got, end, all, until, refused) ==
    /\ name # NULL
    /\ Mapped[h] = [name |-> name, pos |-> p, until |-> until]
    /\ Mapped' = [Mapped EXCEPT ![h] =
           [name |-> name, pos |-> p + got, until |-> IF refused THEN (p + got) + B ELSE until]]
    /\ answer' = Answer("read", h, all, refused) /\ Len(all) = got
    /\ end = IF p + n < Len(Content(name)) THEN p + n ELSE Len(Content(name))
    /\ p + got <= end /\ (p + got < end => refused)
    /\ refused => DriverRefuses /\ got > 0 /\ (p + got) % B = 0
    /\ \A j \in 1 .. got : p + j > until => all[j] = Content(name)[p + j]

LEMMA MappedReads ==
    ASSUME NEW h, h \in Handles, NEW n, n \in ReadSizes, NEW name, NEW p, p \in Nat, NEW got, got \in Nat,
           NEW end, end \in Nat, NEW all, NEW until, until \in Nat, NEW refused, refused \in BOOLEAN,
           Gives(h, n, name, p, got, end, all, until, refused)
    PROVE  Abstract!Next
<1> USE DEF Gives
<1> DEFINE to == p + got
<1>1. to \in p .. end /\ to - p = got /\ (to < end => refused) /\ (refused => DriverRefuses /\ to > p)
  OBVIOUS
<1>2. Mapped[h].name = name /\ Mapped[h].pos = p /\ Mapped[h].until = until /\ Mapped[h] # Nothing
  BY DEF Nothing
<1>3. answer' = Answer("read", h, answer'.data, refused) /\ answer'.data = all
  BY DEF Answer
<1>4. /\ Mapped' = [Mapped EXCEPT ![h] = Abstract!File(name, to, IF refused THEN to + B ELSE until)]
      /\ Nothing = Abstract!Closed
  BY DEF Abstract!File, Abstract!Closed, Nothing, NULL
<1> DEFINE last == IF Mapped[h].pos + n < Len(Content(Mapped[h].name)) THEN Mapped[h].pos + n
                   ELSE Len(Content(Mapped[h].name))
<1>5. last = end /\ Mapped[h] # Abstract!Closed
  BY <1>2, <1>4
<1>6. /\ answer' = Abstract!Answer("read", h, answer'.data, refused)
      /\ Len(answer'.data) = to - p
  BY <1>1, <1>3 DEF Answer, Abstract!Answer
<1>7. ASSUME NEW i \in p + 1 .. to, i > until PROVE all[i - p] = Content(name)[i]
  <2> DEFINE j == i - p
  <2>1. j \in 1 .. got /\ p + j = i
    OBVIOUS
  <2> HIDE DEF j, to
  <2>2. all[j] = Content(name)[p + j]
    BY <1>7, <2>1
  <2> QED
    BY <2>1, <2>2 DEF j
<1>13. refused => to % B = 0
  OBVIOUS
<1> HIDE DEF to
<1>8. /\ to \in Mapped[h].pos .. last /\ (to < last => refused)
      /\ refused => DriverRefuses /\ to > Mapped[h].pos /\ to % B = 0
  BY <1>1, <1>2, <1>5, <1>13
<1>9. Mapped' = [Mapped EXCEPT ![h] =
          Abstract!File(Mapped[h].name, to, IF refused THEN to + B ELSE Mapped[h].until)]
  BY <1>2, <1>4
<1>10. Len(answer'.data) = to - Mapped[h].pos
  BY <1>2, <1>6
<1>14. \A i \in Mapped[h].pos + 1 .. to :
          i > Mapped[h].until => answer'.data[i - Mapped[h].pos] = Content(Mapped[h].name)[i]
  BY <1>2, <1>3, <1>7
<1> HIDE DEF last
<1>11. \E t \in Mapped[h].pos .. last, r \in BOOLEAN :
         /\ r => DriverRefuses /\ t > Mapped[h].pos /\ t % B = 0
         /\ t < last => r
         /\ Mapped' = [Mapped EXCEPT ![h] =
                Abstract!File(Mapped[h].name, t, IF r THEN t + B ELSE Mapped[h].until)]
         /\ answer' = Abstract!Answer("read", h, answer'.data, r)
         /\ Len(answer'.data) = t - Mapped[h].pos
         /\ \A i \in Mapped[h].pos + 1 .. t :
                i > Mapped[h].until => answer'.data[i - Mapped[h].pos] = Content(Mapped[h].name)[i]
  BY <1>6, <1>8, <1>9, <1>10, <1>14, Zenon
<1>12. MappedRead(h, n)
  BY <1>5, <1>11, Zenon DEF MappedRead, last
<1> QED
  BY <1>12, MappedReadIs

\* What a step does to what the abstract files see: a step inside a call leaves
\* it as it is, one that ends a call changes one handle.
Maps == FInv /\ Mapped = Opened

LEMMA MapsAlways == FInv => Maps
BY MappedIs DEF Maps, FInv

Seen(h) == IF h \in held THEN Shown(fcb[h], Done(h), unsure[h]) ELSE Nothing

LEMMA MappedAt ==
    ASSUME Maps, NEW h \in Handles
    PROVE  Mapped[h] = Seen(h)
BY DEF Maps, Opened, Seen

LEMMA NothingSeen ==
    ASSUME Maps, Maps', answer' = answer, \A h \in Handles : Seen(h)' = Seen(h)
    PROVE  UNCHANGED <<Mapped, answer>>
<1>1. Mapped = [h \in Handles |-> Seen(h)]
  BY DEF Maps, Opened, Seen
<1>2. Mapped' = [h \in Handles |-> Seen(h)']
  BY DEF Maps, Opened, Seen
<1>3. Mapped' = Mapped
  BY <1>1, <1>2, Zenon
<1> QED
  BY <1>3

LEMMA OneSeen ==
    ASSUME Maps, Maps', NEW h \in Handles, NEW new, Seen(h)' = new,
           \A g \in Handles \ {h} : Seen(g)' = Seen(g)
    PROVE  Mapped' = [Mapped EXCEPT ![h] = new]
<1>1. Mapped = [g \in Handles |-> Seen(g)]
  BY DEF Maps, Opened, Seen
<1>2. Mapped' = [g \in Handles |-> Seen(g)']
  BY DEF Maps, Opened, Seen
<1>3. [Mapped EXCEPT ![h] = new] = [g \in Handles |-> IF g = h THEN new ELSE Seen(g)]
  BY <1>1
<1>4. \A g \in Handles : Seen(g)' = IF g = h THEN new ELSE Seen(g)
  OBVIOUS
<1> HIDE DEF Mapped
<1> QED
  BY <1>2, <1>3, <1>4

\* The bytes of an open file are as many as its block says.
LEMMA ContentSize ==
    ASSUME NEW file \in Blocks, IsOpen(file)
    PROVE  Len(Content(file.name)) = file.filesize
<1>1. file.filesize = EntryOf(file.name).filesize /\ file.filesize \in Nat
  BY DEF IsOpen, Blocks
<1>2. CASE file.filesize = 0
  <2>1. Content(file.name) = << >>
    BY <1>1, <1>2 DEF Content
  <2> QED
    BY <1>2, <2>1
<1>3. CASE file.filesize # 0
  <2>1. NotEmpty(file.name)
    BY <1>1, <1>3 DEF IsOpen, NotEmpty
  <2> QED
    BY <1>1, <2>1, ContentBytes
<1> QED
  BY <1>2, <1>3

\* Steps outside a call of a read leave the other handles as they are.
LEMMA OutsideReads ==
    ASSUME pc \notin {"copy", "fetch"}, pc' \notin {"copy", "fetch"},
           NEW g \in Handles, fcb'[g] = fcb[g], g \in held' <=> g \in held, unsure'[g] = unsure[g]
    PROVE  Seen(g)' = Seen(g)
<1>1. Done(g) = << >> /\ Done(g)' = << >>
  BY DEF Done, InCall
<1> QED
  BY <1>1 DEF Seen

LEMMA LoadsMap ==
    ASSUME Maps, Maps', FspLoadFAT \/ FspLoadDirEntry \/ LoadIsRefused
    PROVE  UNCHANGED <<Mapped, answer>>
<1>1. /\ fcb' = fcb /\ held' = held /\ answer' = answer /\ unsure' = unsure
      /\ pc \notin {"copy", "fetch"} /\ pc' \notin {"copy", "fetch"}
  BY DEF FspLoadFAT, FspLoadDirEntry, LoadIsRefused
<1>2. \A h \in Handles : Seen(h)' = Seen(h)
  BY <1>1, OutsideReads
<1> QED
  BY <1>1, <1>2, NothingSeen

LEMMA OpenFailsMaps ==
    ASSUME Maps, Maps', NEW name \in Names, OpenFails(name)
    PROVE  Abstract!Next
<1>1. /\ fcb' = fcb /\ held' = held /\ pc' = pc /\ pc = "idle" /\ unsure' = unsure
      /\ answer' = Answer("open", NULL, << >>, FALSE)
      /\ name = NULL \/ Found(name) = {} \/ \A h \in Handles : fcb[h] # Free
  BY DEF OpenFails, disk, locals
<1>2. \A h \in Handles : Seen(h)' = Seen(h)
  BY <1>1, OutsideReads
<1>3. Mapped' = Mapped
  <2>1. Mapped = [h \in Handles |-> Seen(h)] /\ Mapped' = [h \in Handles |-> Seen(h)']
    BY DEF Maps, Opened, Seen
  <2> QED
    BY <1>2, <2>1, Zenon
<1>4. ~Exists(name) \/ \A h \in Handles : Mapped[h] # Nothing
  <2>1. CASE name = NULL
    BY <2>1 DEF Exists
  <2>2. CASE Found(name) = {}
    <3>1. m_DirEntry = Root
      BY <1>1 DEF Maps, FInv, Loaded
    <3> QED
      BY <2>2, <3>1, FoundIfExists
  <2>3. CASE \A h \in Handles : fcb[h] # Free
    <3> SUFFICES ASSUME NEW h \in Handles PROVE Mapped[h] # Nothing
      OBVIOUS
    <3>1. h \in held /\ IsOpen(fcb[h])
      BY <1>1, <2>3 DEF Maps, FInv, HeldBlocks, FilesFollow
    <3>2. Mapped[h] = Shown(fcb[h], Done(h), unsure[h])
      BY <3>1, MappedAt DEF Seen
    <3>3. fcb[h].name # NULL
      BY <3>1 DEF IsOpen
    <3> QED
      BY <3>2, <3>3 DEF Shown, Nothing
  <2> QED
    BY <1>1, <2>1, <2>2, <2>3
<1> QED
  BY <1>1, <1>3, <1>4, MappedOpenFails

\* A call to open a file is not seen before it returns.
LEMMA OpenMaps ==
    ASSUME Maps, Maps', NEW name \in Names, FsOpenFile(name)
    PROVE  UNCHANGED <<Mapped, answer>>
<1>1. PICK h \in Handles :
        fcb[h] = Free /\ \E file : fcb' = [fcb EXCEPT ![h] = file]
  BY DEF FsOpenFile
<1>2. pc = "idle" /\ pc' = "open" /\ held' = held /\ answer' = answer /\ unsure' = unsure
  BY DEF FsOpenFile
<1>3. fcb \in [Handles -> Blocks] /\ h \notin held
  BY <1>1, <1>2 DEF Maps, FInv, FTypes, HeldBlocks
<1>4. ASSUME NEW g \in Handles PROVE Seen(g)' = Seen(g)
  <2>1. CASE g = h
    BY <1>2, <1>3, <2>1 DEF Seen
  <2>2. CASE g # h
    <3>1. fcb'[g] = fcb[g]
      BY <1>1, <1>3, <2>2
    <3> QED
      BY <1>2, <3>1, OutsideReads
  <2> QED
    BY <2>1, <2>2
<1> QED
  BY <1>2, <1>4, NothingSeen

LEMMA FirstComesMaps ==
    ASSUME Maps, Maps', FirstSectorComes
    PROVE  Abstract!Next
<1>1. /\ pc = "open" /\ pc' = "idle" /\ fcb' = Filled(cur) /\ held' = held \cup {cur}
      /\ answer' = Answer("open", cur, << >>, FALSE) /\ unsure' = [unsure EXCEPT ![cur] = 0]
  BY DEF FirstSectorComes
<1>2. PICK h \in Handles : h = cur
  BY <1>1 DEF Maps, FInv, HeldBlocks
<1> DEFINE file == fcb[h]
           new == Refilled(file)
<1>3. /\ h \notin held /\ file.bytesread = 0 /\ file # Free /\ fcb \in [Handles -> Blocks]
      /\ unsure \in [Handles -> Nat]
  BY <1>1, <1>2 DEF Maps, FInv, FTypes, HeldBlocks
<1>4. file \in Blocks /\ IsOpen(file)
  BY <1>3 DEF Maps, FInv, FilesFollow
<1>5. fcb'[h] = new /\ \A g \in Handles \ {h} : fcb'[g] = fcb[g]
  BY <1>1, <1>2, <1>3, FilledIs
<1>6. new.name = file.name /\ new.bytesread = 0
  BY <1>3, <1>4, RefilledFields
<1>12. unsure'[h] = 0 /\ \A g \in Handles \ {h} : unsure'[g] = unsure[g]
  BY <1>1, <1>2, <1>3
<1>7. file.name \in Names /\ Exists(file.name)
  BY <1>4 DEF IsOpen
<1> HIDE DEF new, file
<1> DEFINE shown == [name |-> file.name, pos |-> 0, until |-> 0]
<1>8. Seen(h)' = shown
  <2>1. Seen(h)' = Shown(new, << >>, 0)
    <3>1. Done(h)' = << >> /\ h \in held'
      BY <1>1, <1>2 DEF Done, InCall
    <3> QED
      BY <1>5, <1>12, <3>1 DEF Seen
  <2> DEFINE pos == new.bytesread - Len(<< >>)
  <2>2. Shown(new, << >>, 0) = [name |-> new.name, pos |-> pos, until |-> 0]
    BY DEF Shown
  <2>3. pos = 0
    <3> DEFINE read == new.bytesread
               len == Len(<< >>)
    <3>1. read = 0 /\ len = 0 /\ pos = read - len
      BY <1>6, EmptySeq, Zenon
    <3> HIDE DEF pos, read, len
    <3> QED
      BY <3>1
  <2> HIDE DEF pos
  <2> QED
    BY <1>6, <2>1, <2>2, <2>3
<1>9. \A g \in Handles \ {h} : Seen(g)' = Seen(g)
  <2> SUFFICES ASSUME NEW g \in Handles \ {h} PROVE Seen(g)' = Seen(g)
    OBVIOUS
  <2>1. g \in held' <=> g \in held
    BY <1>1, <1>2
  <2> QED
    BY <1>1, <1>5, <1>12, <2>1, OutsideReads
<1>10. Mapped[h] = Nothing
  BY <1>3, MappedAt DEF Seen
<1>11. Mapped' = [Mapped EXCEPT ![h] = shown]
  <2> HIDE DEF shown
  <2> QED
    BY <1>8, <1>9, OneSeen
<1> QED
  BY <1>1, <1>2, <1>7, <1>10, <1>11, MappedOpens

LEMMA FirstRefusedMaps ==
    ASSUME Maps, Maps', FirstSectorRefused
    PROVE  Abstract!Next
<1>1. /\ DriverRefuses /\ pc = "open" /\ pc' = "idle" /\ fcb' = [fcb EXCEPT ![cur] = Free]
      /\ held' = held /\ answer' = Answer("open", NULL, << >>, TRUE) /\ unsure' = unsure
  BY DEF FirstSectorRefused, AfterRefusedOpen
<1>2. PICK h \in Handles : h = cur
  BY <1>1 DEF Maps, FInv, HeldBlocks
<1>3. h \notin held /\ fcb[h] # Free /\ fcb \in [Handles -> Blocks]
  BY <1>1, <1>2 DEF Maps, FInv, FTypes, HeldBlocks
<1>4. fcb[h].name \in Names /\ Exists(fcb[h].name)
  BY <1>3 DEF Maps, FInv, FilesFollow, IsOpen
<1>5. ASSUME NEW g \in Handles PROVE Seen(g)' = Seen(g)
  <2>1. CASE g = h
    BY <1>1, <1>3, <2>1 DEF Seen
  <2>2. CASE g # h
    <3>1. fcb'[g] = fcb[g]
      BY <1>1, <1>2, <1>3, <2>2
    <3> QED
      BY <1>1, <3>1, OutsideReads
  <2> QED
    BY <2>1, <2>2
<1>6. Mapped' = Mapped
  <2>1. Mapped = [g \in Handles |-> Seen(g)] /\ Mapped' = [g \in Handles |-> Seen(g)']
    BY DEF Maps, Opened, Seen
  <2> QED
    BY <1>5, <2>1, Zenon
<1> QED
  BY <1>1, <1>4, <1>6, MappedOpenFails

LEMMA CloseMaps ==
    ASSUME Maps, Maps', NEW h \in Handles, FsCloseFile(h)
    PROVE  Abstract!Next
<1>1. /\ pc = "idle" /\ pc' = "idle" /\ h \in held /\ fcb' = [fcb EXCEPT ![h] = Free]
      /\ held' = held \ {h} /\ answer' = Answer("close", h, << >>, FALSE) /\ unsure' = unsure
  BY DEF FsCloseFile, locals
<1>2. fcb \in [Handles -> Blocks] /\ fcb[h] # Free
  BY <1>1 DEF Maps, FInv, FTypes, HeldBlocks
<1>3. Seen(h)' = Nothing
  BY <1>1 DEF Seen
<1>4. \A g \in Handles \ {h} : Seen(g)' = Seen(g)
  <2> SUFFICES ASSUME NEW g \in Handles \ {h} PROVE Seen(g)' = Seen(g)
    OBVIOUS
  <2>1. fcb'[g] = fcb[g] /\ (g \in held' <=> g \in held)
    BY <1>1, <1>2
  <2> QED
    BY <1>1, <2>1, OutsideReads
<1>5. Mapped' = [Mapped EXCEPT ![h] = Nothing]
  BY <1>3, <1>4, OneSeen
<1>6. Mapped[h] # Nothing
  <2>1. Mapped[h] = Shown(fcb[h], Done(h), unsure[h])
    BY <1>1, MappedAt DEF Seen
  <2>2. fcb[h].name # NULL
    BY <1>2 DEF Maps, FInv, FilesFollow, IsOpen
  <2> QED
    BY <2>1, <2>2 DEF Shown, Nothing
<1> QED
  BY <1>1, <1>5, <1>6, MappedCloses

\* The end of a call of a read of n bytes: it gave all, from the position p where
\* the call began.
GaveAll(h, p, got, n, end, all, refused) ==
    /\ held' = held /\ pc' = "idle" /\ \A g \in Handles \ {h} : Seen(g)' = Seen(g)
    /\ fcb'[h].name = fcb[h].name
    /\ p = fcb[h].bytesread - Len(Done(h)) /\ fcb'[h].bytesread = p + got
    /\ Len(all) = got /\ answer' = Answer("read", h, all, refused)
    /\ end = IF p + n < fcb[h].filesize THEN p + n ELSE fcb[h].filesize
    /\ p + got <= end
    /\ p + got < end => refused
    /\ refused => DriverRefuses /\ got > 0 /\ (p + got) % B = 0
    /\ unsure'[h] = IF refused THEN (p + got) + B ELSE unsure[h]
    /\ \A j \in 1 .. got : p + j > unsure[h] => all[j] = Content(fcb[h].name)[p + j]

LEMMA ReadEnds ==
    ASSUME Maps, Maps', NEW h \in held, NEW p \in Nat, NEW got \in Nat, NEW n \in ReadSizes,
           NEW end \in Nat, NEW all, NEW refused \in BOOLEAN, GaveAll(h, p, got, n, end, all, refused)
    PROVE  Abstract!Next
<1> USE DEF GaveAll
<1> DEFINE file == fcb[h]
           name == file.name
           until == unsure[h]
<1>1. h \in Handles /\ file \in Blocks /\ file # Free /\ until \in Nat
  BY DEF Maps, FInv, FTypes, HeldBlocks
<1>2. IsOpen(file)
  BY <1>1 DEF Maps, FInv, FilesFollow
<1>3. name # NULL /\ Len(Content(name)) = file.filesize
  BY <1>1, <1>2, ContentSize DEF IsOpen
<1>4. Mapped[h] = [name |-> name, pos |-> p, until |-> until]
  <2>1. Mapped[h] = Shown(file, Done(h), until)
    BY <1>1, MappedAt DEF Seen
  <2> QED
    BY <2>1, Zenon DEF Shown
<1> DEFINE is == IF refused THEN (p + got) + B ELSE until
<1>5. Seen(h)' = [name |-> name, pos |-> p + got, until |-> is]
  <2>1. Done(h)' = << >>
    BY DEF Done, InCall
  <2>2. Seen(h)' = [name |-> fcb'[h].name, pos |-> fcb'[h].bytesread - Len(<< >>), until |-> unsure'[h]]
    BY <2>1 DEF Seen, Shown
  <2>3. fcb'[h].bytesread - Len(<< >>) = p + got
    <3> DEFINE read == fcb'[h].bytesread
               len == Len(<< >>)
    <3>1. read = p + got /\ len = 0
      BY EmptySeq
    <3> HIDE DEF read, len
    <3>2. read - len = p + got
      BY <3>1
    <3> QED
      BY <3>2 DEF read, len
  <2>4. unsure'[h] = is
    OBVIOUS
  <2> HIDE DEF is, file, until
  <2> QED
    BY <2>2, <2>3, <2>4 DEF file
<1>6. p + got <= end /\ (p + got < end => refused) /\ (refused => DriverRefuses /\ got > 0 /\ (p + got) % B = 0)
  OBVIOUS
<1>9. \A j \in 1 .. got : p + j > until => all[j] = Content(name)[p + j]
  OBVIOUS
<1>10. end = IF p + n < Len(Content(name)) THEN p + n ELSE Len(Content(name))
  BY <1>3
<1>12. answer' = Answer("read", h, all, refused) /\ Len(all) = got
  OBVIOUS
<1> HIDE DEF is, name, file, until
<1>11. Mapped' = [Mapped EXCEPT ![h] = [name |-> name, pos |-> p + got, until |-> is]]
  BY <1>1, <1>5, OneSeen
<1>13. Mapped' = [Mapped EXCEPT ![h] =
           [name |-> name, pos |-> p + got, until |-> IF refused THEN (p + got) + B ELSE until]]
  BY <1>11 DEF is
<1>14. Gives(h, n, name, p, got, end, all, until, refused)
  <2> HIDE DEF GaveAll, Mapped
  <2> QED
    BY <1>3, <1>4, <1>6, <1>9, <1>10, <1>12, <1>13 DEF Gives
<1> HIDE DEF GaveAll
<1> QED
  BY <1>1, <1>14, MappedReads

\* How far a read is to go, from what it has copied and what is left.
Goes(file, p, len, left) ==
    \E n \in ReadSizes, end \in Nat :
        /\ end = IF p + n < file.filesize THEN p + n ELSE file.filesize
        /\ (p + len) + left = end

LEMMA AskedEnd ==
    ASSUME NEW file, file \in Blocks, NEW left, left \in Nat, NEW done, Len(done) \in Nat,
           Len(done) <= file.bytesread, Asked(file, left, done)
    PROVE  /\ file.bytesread - Len(done) \in Nat
           /\ Goes(file, file.bytesread - Len(done), Len(done), left)
<1> DEFINE b == file.bytesread
           size == file.filesize
           len == Len(done)
           p == b - len
<1>1. b \in Nat /\ size \in Nat /\ len \in Nat /\ len <= b /\ p = b - len
  BY DEF Blocks
<1>2. PICK n \in ReadSizes : left + len = IF (b - len) + n < size THEN n ELSE size - (b - len)
  BY DEF Asked
<1>3. n \in Nat
  BY DiskAssumption
<1> DEFINE end == IF p + n < size THEN p + n ELSE size
<1>4. p \in Nat /\ end \in Nat /\ (p + len) + left = end
  <2> HIDE DEF b, size, len
  <2> QED
    BY <1>1, <1>2, <1>3, SMTT(30)
<1>5. end = IF p + n < file.filesize THEN p + n ELSE file.filesize
  OBVIOUS
<1> HIDE DEF end, p, len
<1>6. Goes(file, p, len, left)
  BY <1>4, <1>5 DEF Goes
<1> QED
  BY <1>4, <1>6 DEF p, len

LEMMA ReadMaps ==
    ASSUME Maps, Maps', NEW h \in Handles, NEW n \in ReadSizes, FsReadFile(h, n)
    PROVE  Abstract!Next \/ UNCHANGED <<Mapped, answer>>
<1> DEFINE file == fcb[h]
<1>1. pc = "idle" /\ h \in held /\ UNCHANGED <<fcb, held, unsure>>
  BY DEF FsReadFile
<1>2. file \in Blocks /\ IsOpen(file)
  BY <1>1 DEF Maps, FInv, FTypes, HeldBlocks, FilesFollow
<1>3. file.bytesread \in Nat /\ file.filesize \in Nat /\ file.bytesread <= file.filesize /\ n \in Nat
  BY <1>2, DiskAssumption DEF Blocks, IsOpen
<1>4. CASE n = 0 \/ file.filesize <= file.bytesread
  <2>1. pc' = "idle" /\ answer' = Answer("read", h, << >>, FALSE)
    BY <1>1, <1>4 DEF FsReadFile, locals
  <2>2. \A g \in Handles : Seen(g)' = Seen(g)
    BY <1>1, <2>1, OutsideReads
  <2>3. Len(<< >>) = 0 /\ Done(h) = << >>
    BY <1>1, EmptySeq DEF Done, InCall
  <2> DEFINE p == file.bytesread
             end == IF p + n < file.filesize THEN p + n ELSE file.filesize
             all == << >>
             got == 0
  <2>4. p \in Nat /\ end \in Nat /\ p + got <= end /\ ~(p + got < end)
    <3> DEFINE size == file.filesize
    <3>1. p \in Nat /\ size \in Nat /\ n \in Nat /\ p <= size /\ (n = 0 \/ size <= p)
      BY <1>3, <1>4
    <3>2. end = IF p + n < size THEN p + n ELSE size
      OBVIOUS
    <3> HIDE DEF p, size, end
    <3> QED
      BY <3>1, <3>2
  <2>5. p = fcb[h].bytesread - Len(Done(h)) /\ fcb'[h].bytesread = p + got /\ fcb'[h].name = fcb[h].name
    BY <1>1, <1>3, <2>3
  <2>7. /\ end = IF p + n < fcb[h].filesize THEN p + n ELSE fcb[h].filesize
        /\ Len(all) = got /\ got \in Nat /\ answer' = Answer("read", h, all, FALSE)
        /\ \A j \in 1 .. got : p + j > unsure[h] => all[j] = Content(fcb[h].name)[p + j]
        /\ unsure'[h] = unsure[h]
    BY <1>1, <2>1, <2>3
  <2>8. pc' = "idle" /\ held' = held /\ \A g \in Handles \ {h} : Seen(g)' = Seen(g)
    BY <1>1, <2>1, <2>2
  <2> HIDE DEF p, end, all, got, file
  <2>9. GaveAll(h, p, got, n, end, all, FALSE)
    BY <1>1, <2>4, <2>5, <2>7, <2>8 DEF GaveAll
  <2>10. Abstract!Next
    BY <1>1, <2>4, <2>7, <2>9, ReadEnds
  <2> QED
    BY <2>10
<1>5. CASE ~(n = 0 \/ file.filesize <= file.bytesread)
  <2>1. data' = << >> /\ answer' = answer
    BY <1>5 DEF FsReadFile
  <2>2. \A g \in Handles : Done(g) = << >> /\ Done(g)' = << >>
    BY <1>1, <2>1 DEF Done, InCall
  <2>3. \A g \in Handles : Seen(g)' = Seen(g)
    BY <1>1, <2>2 DEF Seen
  <2> QED
    BY <2>1, <2>3, NothingSeen
<1> QED
  BY <1>4, <1>5

\* In a read every handle but that of the read has nothing on its way.
LEMMA OthersInRead ==
    ASSUME NEW h \in Handles, h = cur, cur' = cur, held' = held,
           \A g \in Handles \ {h} : fcb'[g] = fcb[g] /\ unsure'[g] = unsure[g]
    PROVE  \A g \in Handles \ {h} : Seen(g)' = Seen(g)
<1> SUFFICES ASSUME NEW g \in Handles \ {h} PROVE Seen(g)' = Seen(g)
  OBVIOUS
<1>1. Done(g) = << >> /\ Done(g)' = << >>
  BY DEF Done, InCall
<1> QED
  BY <1>1 DEF Seen

LEMMA CopyMaps ==
    ASSUME Maps, Maps', CopyBytes
    PROVE  Abstract!Next \/ UNCHANGED <<Mapped, answer>>
<1>1. PICK h \in Handles : h = cur
  BY CopyIsRound DEF Maps
<1> DEFINE file == fcb[h]
           left == bytes_to_read
           new == After(file, left)
           all == data \o Piece(file, left)
           goes_on == new.bytesread % B = 0 /\ IsData(Fat[file.cluster])
           p == file.bytesread - Len(data)
<1>2. /\ h \in held /\ file \in Blocks /\ AtRound(file, left, data)
      /\ fcb'[h] = new /\ \A g \in Handles \ {h} : fcb'[g] = fcb[g]
      /\ held' = held /\ cur' = cur /\ unsure' = unsure
  BY <1>1, CopyIsRound DEF Maps
<1>11. unsure[h] \in Nat /\ Right(file, Done(h), unsure[h])
  BY <1>2 DEF Maps, FInv, FTypes, Buffered
<1>3. ReturnOr(goes_on, "fetch", all)
  BY <1>1, CopyIsRound DEF Maps
<1>4. /\ all # << >> /\ all \in Seq(Bytes) /\ Len(all) = Len(data) + CopiedBy(file, left)
      /\ new.bytesread - Len(all) = p
      /\ Right(file, data, unsure[h]) => Right(new, all, unsure[h])
  BY <1>2, <1>11, RoundCopies
<1>5. /\ new.name = file.name /\ new.bytesread = file.bytesread + CopiedBy(file, left)
  BY <1>2, AfterFields
<1>6. /\ left \in Nat /\ Len(data) \in Nat /\ Len(data) <= file.bytesread /\ Asked(file, left, data)
      /\ file.bytesread \in Nat
  BY <1>2, RoundNumbers DEF AtRound
<1>7. Done(h) = data
  BY <1>1 DEF CopyBytes, Done, InCall
<1>8. \A g \in Handles \ {h} : Seen(g)' = Seen(g)
  BY <1>1, <1>2, OthersInRead
<1>9. CASE goes_on
  <2>1. pc' = "fetch" /\ data' = all /\ answer' = answer
    BY <1>3, <1>9 DEF ReturnOr
  <2>2. Done(h)' = all
    BY <1>1, <1>2, <2>1 DEF Done, InCall
  <2>3. Shown(new, all, unsure[h]) = Shown(file, data, unsure[h])
    <3> HIDE DEF new, all, file
    <3> QED
      BY <1>4, <1>5 DEF Shown
  <2> HIDE DEF new, all
  <2>4. Seen(h)' = Seen(h)
    BY <1>2, <1>7, <2>2, <2>3 DEF Seen
  <2> QED
    BY <1>8, <2>1, <2>4, NothingSeen
<1>10. CASE ~goes_on
  <2>1. pc' = "idle" /\ answer' = Answer("read", h, all, FALSE)
    BY <1>1, <1>3, <1>10 DEF ReturnOr
  <2>2. left - CopiedBy(file, left) = 0
    BY <1>2, <1>10, <1>11, RoundReturns
  <2>3. p \in Nat /\ Goes(file, p, Len(data), left)
    <3> HIDE DEF file
    <3> QED
      BY <1>2, <1>6, AskedEnd
  <2>4. PICK n \in ReadSizes, end \in Nat :
           /\ end = IF p + n < file.filesize THEN p + n ELSE file.filesize
           /\ (p + Len(data)) + left = end
    BY <2>3 DEF Goes
  <2> DEFINE got == Len(all)
             copied == CopiedBy(file, left)
  <2>5. got \in Nat /\ p + got = end /\ new.bytesread = p + got
    <3>1. got = Len(data) + copied /\ copied \in Int /\ left = copied
      <4>1. copied \in Int
        BY <1>6 , SectorSize DEF CopiedBy
      <4> HIDE DEF copied, left
      <4> QED
        BY <1>4, <1>6, <2>2, <4>1 DEF copied
    <3>2. got \in Nat /\ new.bytesread \in Int /\ new.bytesread - got = p
      <4>1. new.bytesread \in Int
        <5> HIDE DEF new, left
        <5> QED
          BY <1>5, <1>6, <3>1
      <4> QED
        BY <1>4, <4>1, LenProperties
    <3>3. p \in Nat /\ Len(data) \in Nat
      BY <1>6, <2>3
    <3> DEFINE read == new.bytesread
               len == Len(data)
    <3>4. got = len + copied /\ left = copied /\ (p + len) + left = end /\ read - got = p /\ copied \in Int /\ read \in Int
      BY <2>4, <3>1, <3>2
    <3> HIDE DEF got, copied, p, left, read, len
    <3> QED
      BY <3>2, <3>3, <3>4 DEF read, len
  <2>6. \A j \in 1 .. got : p + j > unsure[h] => all[j] = Content(file.name)[p + j]
    <3>1. Right(new, all, unsure[h])
      BY <1>4, <1>7, <1>11
    <3>2. CopiedRight(new, all, unsure[h])
      BY <1>4, <3>1 DEF Right
    <3> HIDE DEF new, all, p, file
    <3> QED
      BY <1>4, <1>5, <3>2 DEF CopiedRight
  <2>7. p + got <= end /\ ~(p + got < end) /\ Len(all) = got
    <3> HIDE DEF p, got
    <3> QED
      BY <2>5 DEF got
  <2> HIDE DEF got, all, p, new, left
  <2>8. p = fcb[h].bytesread - Len(Done(h))
    BY <1>7 DEF p
  <2>9. \A j \in 1 .. got : p + j > unsure[h] => all[j] = Content(fcb[h].name)[p + j]
    BY <2>6
  <2>10. GaveAll(h, p, got, n, end, all, FALSE)
    BY <1>2, <1>5, <1>8, <2>1, <2>4, <2>5, <2>7, <2>8, <2>9 DEF GaveAll
  <2>11. Abstract!Next
    BY <1>2, <2>3, <2>5, <2>10, ReadEnds
  <2> QED
    BY <2>11
<1> QED
  BY <1>9, <1>10

\* A call that ends in a fetch gives what it has copied.
LEMMA FetchEnds ==
    ASSUME Maps, Maps', NEW h \in held, h = cur, pc = "fetch", cur' = cur, held' = held, pc' = "idle",
           \A g \in Handles \ {h} : fcb'[g] = fcb[g] /\ unsure'[g] = unsure[g],
           fcb'[h].name = fcb[h].name, fcb'[h].bytesread = fcb[h].bytesread,
           NEW refused \in BOOLEAN, answer' = Answer("read", h, data, refused),
           unsure'[h] = IF refused THEN fcb[h].bytesread + B ELSE unsure[h],
           refused => DriverRefuses, refused \/ bytes_to_read = 0
    PROVE  Abstract!Next
<1> DEFINE file == fcb[h]
           p == file.bytesread - Len(data)
           got == Len(data)
           left == bytes_to_read
<1>1. /\ h \in Handles /\ file \in Blocks /\ Len(data) \in Nat /\ Len(data) <= file.bytesread
      /\ Asked(file, left, data) /\ data # << >> /\ data \in Seq(Bytes)
      /\ file.bytesread % B = 0 /\ Right(file, data, unsure[h])
  BY FetchFacts DEF Maps, Fetching
<1>2. left \in Nat /\ Done(h) = data
  BY DEF Maps, FInv, FTypes, Done, InCall
<1>3. p \in Nat /\ Goes(file, p, Len(data), left)
  <2> HIDE DEF file, left
  <2> QED
    BY <1>1, <1>2, AskedEnd
<1>4. PICK n \in ReadSizes, end \in Nat :
         /\ end = IF p + n < file.filesize THEN p + n ELSE file.filesize
         /\ (p + Len(data)) + left = end
  BY <1>3 DEF Goes
<1>5. file.bytesread \in Nat
  BY <1>1 DEF Blocks
<1>6. got \in Nat /\ got # 0
  BY <1>1, EmptySeq
<1>7. file.bytesread = p + got
  <2> DEFINE read == file.bytesread
  <2>1. p = read - got /\ read \in Nat
    BY <1>5
  <2> HIDE DEF p, got, read
  <2>2. read = p + got
    BY <1>6, <2>1
  <2> QED
    BY <2>2 DEF read
<1>8. p + got <= end /\ (p + got < end => left # 0)
  <2>1. (p + got) + left = end /\ p \in Nat
    BY <1>3, <1>4
  <2> HIDE DEF p, got, left
  <2> QED
    BY <1>2, <1>6, <2>1
<1>9. \A j \in 1 .. got : p + j > unsure[h] => data[j] = Content(file.name)[p + j]
  BY <1>1 DEF Right, CopiedRight
<1>10. \A g \in Handles \ {h} : Seen(g)' = Seen(g)
  BY <1>1, OthersInRead
<1>11. p = fcb[h].bytesread - Len(Done(h)) /\ Len(data) = got
  BY <1>2
<1>12. (p + got < end => refused) /\ (refused => DriverRefuses /\ got > 0)
  <2> HIDE DEF p, got
  <2> QED
    BY <1>6, <1>8
<1>13. p \in Nat
  BY <1>3
<1>14. end = IF p + n < fcb[h].filesize THEN p + n ELSE fcb[h].filesize
  BY <1>4
<1>15. fcb'[h].bytesread = p + got /\ (p + got) % B = 0
       /\ unsure'[h] = IF refused THEN (p + got) + B ELSE unsure[h]
  <2> HIDE DEF p, got
  <2> QED
    BY <1>1, <1>7
<1> DEFINE all == data
<1>16. Len(all) = got /\ answer' = Answer("read", h, all, refused)
  OBVIOUS
<1>17. \A j \in 1 .. got : p + j > unsure[h] => all[j] = Content(fcb[h].name)[p + j]
  BY <1>9
<1> HIDE DEF p, got, left, file, all
<1>18. GaveAll(h, p, got, n, end, all, refused)
  BY <1>8, <1>10, <1>11, <1>12, <1>14, <1>15, <1>16, <1>17 DEF GaveAll
<1> QED
  BY <1>6, <1>13, <1>18, ReadEnds

LEMMA NextComesMaps ==
    ASSUME Maps, Maps', NextSectorComes
    PROVE  Abstract!Next \/ UNCHANGED <<Mapped, answer>>
<1>1. PICK h \in Handles : h = cur
  BY FetchFacts DEF Maps, NextSectorComes
<1> DEFINE file == fcb[h]
           new == Refilled(file)
<1>2. /\ pc = "fetch" /\ fcb' = Filled(cur) /\ ReturnOr(bytes_to_read # 0, "copy", data)
      /\ held' = held /\ cur' = cur /\ unsure' = unsure
  BY DEF NextSectorComes
<1>3. h \in held /\ file \in Blocks /\ data # << >>
  BY <1>1, <1>2, FetchFacts DEF Maps, Fetching
<1>4. fcb'[h] = new /\ \A g \in Handles \ {h} : fcb'[g] = fcb[g]
  <2>1. fcb \in [Handles -> Blocks]
    BY DEF Maps, FInv, FTypes
  <2> QED
    BY <1>1, <1>2, <2>1, FilledIs
<1>5. new.name = file.name /\ new.bytesread = file.bytesread
  BY <1>3, RefilledFields
<1> HIDE DEF new
<1>6. CASE bytes_to_read # 0
  <2>1. pc' = "copy" /\ data' = data /\ answer' = answer
    BY <1>2, <1>6 DEF ReturnOr
  <2>2. Done(h) = data /\ Done(h)' = data
    BY <1>1, <1>2, <2>1 DEF Done, InCall
  <2>4. Shown(new, data, unsure[h]) = Shown(file, data, unsure[h])
    <3> HIDE DEF file
    <3> QED
      BY <1>5 DEF Shown
  <2>5. Seen(h)' = Seen(h)
    BY <1>2, <1>4, <2>2, <2>4 DEF Seen
  <2>6. \A g \in Handles \ {h} : Seen(g)' = Seen(g)
    BY <1>1, <1>2, <1>4, OthersInRead
  <2> QED
    BY <2>1, <2>5, <2>6, NothingSeen
<1>7. CASE bytes_to_read = 0
  <2>1. pc' = "idle" /\ answer' = Answer("read", h, data, FALSE)
    BY <1>1, <1>2, <1>7 DEF ReturnOr
  <2>2. \A g \in Handles \ {h} : fcb'[g] = fcb[g] /\ unsure'[g] = unsure[g]
    BY <1>2, <1>4
  <2>3. fcb'[h].name = fcb[h].name /\ fcb'[h].bytesread = fcb[h].bytesread /\ unsure'[h] = unsure[h]
    BY <1>2, <1>4, <1>5
  <2> HIDE DEF file
  <2>4. Abstract!Next
    BY <1>1, <1>2, <1>3, <1>7, <2>1, <2>2, <2>3, FetchEnds
  <2> QED
    BY <2>4
<1> QED
  BY <1>6, <1>7

LEMMA NextRefusedMaps ==
    ASSUME Maps, Maps', NextSectorRefused
    PROVE  Abstract!Next
<1>1. PICK h \in Handles : h = cur
  BY FetchFacts DEF Maps, NextSectorRefused
<1>2. /\ DriverRefuses /\ pc = "fetch" /\ pc' = "idle" /\ fcb' = fcb /\ held' = held /\ cur' = cur
      /\ answer' = Answer("read", h, data, TRUE) /\ unsure' = [unsure EXCEPT ![h] = fcb[h].bytesread + B]
  BY <1>1 DEF NextSectorRefused, B
<1>3. h \in held /\ unsure \in [Handles -> Nat]
  BY <1>1, <1>2, FetchFacts DEF Maps
<1>4. unsure'[h] = fcb[h].bytesread + B /\ \A g \in Handles \ {h} : fcb'[g] = fcb[g] /\ unsure'[g] = unsure[g]
  BY <1>2, <1>3
<1>5. fcb'[h].name = fcb[h].name /\ fcb'[h].bytesread = fcb[h].bytesread
  BY <1>2
<1>6. PICK refused \in BOOLEAN : refused = TRUE
  OBVIOUS
<1> QED
  BY <1>1, <1>2, <1>3, <1>4, <1>5, <1>6, FetchEnds

LEMMA StepMaps ==
    ASSUME Maps, Maps', [Next]_vars
    PROVE  Abstract!Next \/ UNCHANGED <<Mapped, answer>>
<1>1. CASE FspLoadFAT \/ FspLoadDirEntry \/ LoadIsRefused
  BY <1>1, LoadsMap
<1>2. ASSUME NEW name \in Names, FsOpenFile(name) \/ OpenFails(name)
      PROVE  Abstract!Next \/ UNCHANGED <<Mapped, answer>>
  BY <1>2, OpenMaps, OpenFailsMaps
<1>3. CASE FirstSectorComes
  BY <1>3, FirstComesMaps
<1>4. CASE FirstSectorRefused
  BY <1>4, FirstRefusedMaps
<1>5. ASSUME NEW h \in Handles, FsCloseFile(h) PROVE Abstract!Next
  BY <1>5, CloseMaps
<1>6. ASSUME NEW h \in Handles, NEW n \in ReadSizes, FsReadFile(h, n)
      PROVE  Abstract!Next \/ UNCHANGED <<Mapped, answer>>
  BY <1>6, ReadMaps
<1>7. CASE CopyBytes
  BY <1>7, CopyMaps
<1>8. CASE NextSectorComes
  BY <1>8, NextComesMaps
<1>9. CASE NextSectorRefused
  BY <1>9, NextRefusedMaps
<1>10. CASE UNCHANGED vars
  <2>1. UNCHANGED <<fcb, held, pc, cur, data, answer, unsure>>
    BY <1>10 DEF vars, disk, locals
  <2>2. \A h \in Handles : Seen(h)' = Seen(h)
    BY <2>1 DEF Seen, Done, InCall
  <2> QED
    BY <2>1, <2>2, NothingSeen
<1> QED
  BY <1>1, <1>2, <1>3, <1>4, <1>5, <1>6, <1>7, <1>8, <1>9, <1>10 DEF Next

LEMMA InitMaps == Init => Abstract!Init
<1> SUFFICES ASSUME Init PROVE Abstract!Init
  OBVIOUS
<1>1. held = {} /\ answer = Answer("none", NULL, << >>, FALSE)
  BY DEF Init
<1>2. Mapped = [h \in Handles |-> Nothing]
  BY <1>1 DEF Mapped, Nothing
<1>3. Nothing = Abstract!Closed
  BY DEF Nothing, Abstract!Closed, Abstract!File, NULL
<1>4. answer = Abstract!NoAnswer
  BY <1>1 DEF Answer, Abstract!NoAnswer, Abstract!Answer, NULL
<1> QED
  BY <1>2, <1>3, <1>4, Zenon DEF Abstract!Init, Mapped

\* The file system implements the sequential files, for every disk whose chains
\* are as long as their files: each read gives the next bytes of its file, each
\* once, whatever other handles are read between.  Only a call in which the driver
\* refused a sector stops early, and only the bytes of that sector, of that handle,
\* may be wrong afterwards.
THEOREM FilesCorrect == Spec => FilesSpec
<1>1. Spec => []Maps
  BY FilesInvariant, MapsAlways, PTL
<1>2. Maps /\ Maps' /\ [Next]_vars => [Abstract!Next]_<<Mapped, answer>>
  BY StepMaps
<1>3. Init => Abstract!Init
  BY InitMaps
<1>4. Spec => Abstract!Init /\ [][Abstract!Next]_<<Mapped, answer>>
  BY <1>1, <1>2, <1>3, PTL DEF Spec
<1> QED
  BY <1>4, PTL DEF FilesSpec, Abstract!Spec, Mapped
=============================================================================
