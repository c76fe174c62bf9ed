--------------------------- MODULE MemoryManager ---------------------------
(***************************************************************************)
(* The memory manager of src/mylysos/mmanager.c: a pool of blocks above    *)
(* 2 MB, described by a table of descriptors at its start.  Allocation is  *)
(* first fit over the table; only the first descriptor of a run records    *)
(* the length of the run.  Both operations run with interrupts disabled    *)
(* from their first read of the table to their last write, so each is one  *)
(* action.                                                                 *)
(*                                                                         *)
(* Descriptors are numbered instead of linked: pNext of descriptor i is    *)
(* i + 1, and NULL for the last one (MmpCreateMemPoolBlk, which never      *)
(* changes the links afterwards).                                          *)
(***************************************************************************)
EXTENDS Integers, FiniteSets

CONSTANTS
    POOL_START,     \* MEMORY_POOL_START_ADDRESS
    MEM_BLK_SIZE,   \* bytes of a block
    DESC_SIZE,      \* sizeof(MEM_BLK_DESC)
    MemSize,        \* m_MemSize, as MmpCheckMemorySize found it
    Requests,       \* the byte counts the callers ask for
    Garbage         \* what memory may hold at boot: desc 0's block_size

FREE == "MEM_BLK_FREE"
USED == "MEM_BLK_USED"
NULL == 0

\* How many blocks a number of bytes takes.
MmpGetRequiredBlocksFromBytes(bytes) ==
    bytes \div MEM_BLK_SIZE + (IF bytes % MEM_BLK_SIZE # 0 THEN 1 ELSE 0)

\* The division of the usable memory into descriptors and blocks.  The
\* number of descriptors is computed twice: the second time for the blocks
\* that are left after the first.
dwBlksOfUsableMem == MmpGetRequiredBlocksFromBytes(MemSize - POOL_START)

nBlocks ==
    dwBlksOfUsableMem - MmpGetRequiredBlocksFromBytes(dwBlksOfUsableMem * DESC_SIZE)

pPoolEntry ==
    POOL_START + MmpGetRequiredBlocksFromBytes(nBlocks * DESC_SIZE) * MEM_BLK_SIZE

Blocks == 0 .. (nBlocks - 1)

\* MmpCreateMemPoolBlk writes pNext through pCur after its loop, so the code
\* needs two blocks at least; MmpCheckMemorySize accepts no pool under 1 MB.
ASSUME GeometryAssumption ==
    /\ POOL_START \in Nat \ {0}
    /\ MEM_BLK_SIZE \in Nat \ {0}
    /\ DESC_SIZE \in Nat \ {0}
    /\ MemSize \in Nat
    /\ nBlocks \in Nat
    /\ nBlocks >= 2
    /\ pPoolEntry \in Nat \ {0}

ASSUME InputAssumption == Requests \subseteq Nat /\ Garbage \subseteq Nat

VARIABLES
    status,         \* status of each descriptor
    block_size,     \* block_size of each descriptor
    nUsedBlocks,    \* m_MemBlkManager.nUsedBlocks
    nFreeBlocks,    \* m_MemBlkManager.nFreeBlocks
    reply           \* the last call, its argument and what it returned

vars == <<status, block_size, nUsedBlocks, nFreeBlocks, reply>>

MmpGetPoolAddrFromDescAddr(d) == pPoolEntry + d * MEM_BLK_SIZE

\* The descriptor of the block an address of the pool lies in.
MmpGetDescAddrFromPoolAddr(addr) == (addr - pPoolEntry) \div MEM_BLK_SIZE

PoolAddresses == pPoolEntry .. (MmpGetPoolAddrFromDescAddr(nBlocks) - 1)

Run(s, n) == s .. (s + n - 1)

\* A run of length n starts at s: its first descriptor says so.
RunStart(s) == status[s] = USED /\ block_size[s] > 0

----------------------------------------------------------------------------
(* MmpCreateMemPoolBlk clears block_size of every descriptor but the first *)

Init ==
    /\ status = [d \in Blocks |-> FREE]
    /\ \E g \in Garbage : block_size = [d \in Blocks |-> IF d = 0 THEN g ELSE 0]
    /\ nUsedBlocks = 0
    /\ nFreeBlocks = nBlocks
    /\ reply = [op |-> "none", arg |-> 0, ret |-> NULL]

(***************************************************************************)
(* The scan of MmAllocateNonCachedMemory.  It counts free descriptors from *)
(* a start; at a used one it jumps over the run and takes the descriptor   *)
(* after it as the new start; at the last descriptor it gives up, whatever *)
(* the status of that descriptor.                                          *)
(***************************************************************************)
ScanStart(s) == s = 0 \/ \E d \in Blocks : RunStart(d) /\ s = d + block_size[d]

HoleAt(s, n) ==
    /\ s + n < nBlocks
    /\ \A d \in Run(s, n) : status[d] = FREE

FirstFit(s, n) ==
    /\ ScanStart(s)
    /\ HoleAt(s, n)
    /\ \A r \in 0 .. (s - 1) : ScanStart(r) => ~HoleAt(r, n)

\* The loop itself, by its variables: one turn of it, and where it is after as many
\* turns as there are descriptors.
Beginning == [pAllocStart |-> 0, pCur |-> 0, dwCurBlocks |-> 0]
Over(loop, n) == loop.dwCurBlocks >= n \/ loop.pCur = nBlocks - 1
Behind(d) == d + block_size[d]

\* Mutated form: a jump that forgets to move pAllocStart.
Turn_KeepsStart(loop, n) ==
    IF Over(loop, n) THEN loop
    ELSE IF status[loop.pCur] = USED
         THEN [loop EXCEPT !.pCur = Behind(loop.pCur), !.dwCurBlocks = 0]
         ELSE [loop EXCEPT !.pCur = @ + 1, !.dwCurBlocks = @ + 1]

Turn(loop, n) ==
    IF Over(loop, n) THEN loop
    ELSE IF status[loop.pCur] = USED
         THEN [pAllocStart |-> Behind(loop.pCur), pCur |-> Behind(loop.pCur), dwCurBlocks |-> 0]
         ELSE [loop EXCEPT !.pCur = @ + 1, !.dwCurBlocks = @ + 1]

Scanned(n) ==
    LET scan[turn \in 0 .. nBlocks] ==
            IF turn = 0 THEN Beginning ELSE Turn(scan[turn - 1], n)
    IN  scan[nBlocks]

\* Mutated form: the refusal that compares the request with the used blocks.
CanGrant_UsedBlocks(n) == n <= nUsedBlocks + 1 /\ \E s \in Blocks : FirstFit(s, n)

CanGrant(n) == n <= nFreeBlocks /\ \E s \in Blocks : FirstFit(s, n)

\* Mutated form: every descriptor of the run gets the length.
MarkRun_AllSizes(s, n) ==
    /\ status' = [d \in Blocks |-> IF d \in Run(s, n) THEN USED ELSE status[d]]
    /\ block_size' = [d \in Blocks |-> IF d \in Run(s, n) THEN n ELSE block_size[d]]

MarkRun(s, n) ==
    /\ status' = [d \in Blocks |-> IF d \in Run(s, n) THEN USED ELSE status[d]]
    /\ block_size' = [block_size EXCEPT ![s] = n]

\* Allocation succeeds.
Grant(bytes) ==
    LET n == MmpGetRequiredBlocksFromBytes(bytes) IN
    /\ bytes # 0
    /\ CanGrant(n)
    /\ \E s \in Blocks :
         /\ FirstFit(s, n)
         /\ MarkRun(s, n)
         /\ reply' = [op |-> "alloc", arg |-> bytes,
                      ret |-> MmpGetPoolAddrFromDescAddr(s)]
    /\ nFreeBlocks' = nFreeBlocks - n
    /\ nUsedBlocks' = nUsedBlocks + n

\* Allocation returns NULL: no bytes, too few free blocks, or no run found.
Refuse(bytes) ==
    /\ bytes = 0 \/ ~CanGrant(MmpGetRequiredBlocksFromBytes(bytes))
    /\ reply' = [op |-> "alloc", arg |-> bytes, ret |-> NULL]
    /\ UNCHANGED <<status, block_size, nUsedBlocks, nFreeBlocks>>

MmAllocateNonCachedMemory(bytes) == Grant(bytes) \/ Refuse(bytes)

\* Mutated form: the loop releases the statuses and keeps the length.
ReleaseRun_KeepsSize(d) ==
    LET n == block_size[d] IN
    /\ status' = [e \in Blocks |-> IF e \in Run(d, n) THEN FREE ELSE status[e]]
    /\ block_size' = block_size
    /\ nFreeBlocks' = nFreeBlocks + n
    /\ nUsedBlocks' = nUsedBlocks - n

\* The descriptors the free loop passes: block_size of them from the given one.
ReleaseRun(d) ==
    LET n == block_size[d] IN
    /\ status' = [e \in Blocks |-> IF e \in Run(d, n) THEN FREE ELSE status[e]]
    /\ block_size' = [e \in Blocks |-> IF e \in Run(d, n) THEN 0 ELSE block_size[e]]
    /\ nFreeBlocks' = nFreeBlocks + n
    /\ nUsedBlocks' = nUsedBlocks - n

\* Any address of the pool may be given, or NULL: the block is found by
\* division, and what happens depends on its descriptor alone.
MmFreeNonCachedMemory(addr) ==
    LET d == MmpGetDescAddrFromPoolAddr(addr) IN
    /\ reply' = [op |-> "free", arg |-> addr, ret |-> NULL]
    /\ \/ /\ addr # NULL
          /\ status[d] = USED
          /\ ReleaseRun(d)
       \/ /\ addr # NULL => status[d] # USED
          /\ UNCHANGED <<status, block_size, nUsedBlocks, nFreeBlocks>>

Next ==
    \/ \E bytes \in Requests : MmAllocateNonCachedMemory(bytes)
    \/ \E addr \in PoolAddresses \cup {NULL} : MmFreeNonCachedMemory(addr)

Spec == Init /\ [][Next]_vars

----------------------------------------------------------------------------
(* Properties.                                                             *)

\* Every variable has its type; the counters stay inside the pool, so the
\* DWORD arithmetic on them never wraps.
TypeOK ==
    /\ status \in [Blocks -> {FREE, USED}]
    /\ block_size \in [Blocks -> Nat]
    /\ nUsedBlocks \in 0 .. nBlocks
    /\ nFreeBlocks \in 0 .. nBlocks
    /\ reply.op \in {"none", "alloc", "free"}

\* The counters the callers are refused on, and the `free' command prints,
\* are the numbers of used and free descriptors, whatever is freed.
UsedBlocks == {d \in Blocks : status[d] = USED}
FreeBlocks == {d \in Blocks : status[d] = FREE}

CountersMatchTable ==
    /\ nUsedBlocks = Cardinality(UsedBlocks)
    /\ nFreeBlocks = Cardinality(FreeBlocks)

\* The used descriptors are tiled by runs: each run starts at the one
\* descriptor that records its length, its descriptors are used, and it ends
\* before the last descriptor.  A free descriptor other than the first has no
\* length left in it, or a run allocated over it would start in its middle.
\* The jump of the scan over a run and the loop of the free rely on all three.
RunIsWhole(d) ==
    /\ d + block_size[d] < nBlocks
    /\ \A e \in Run(d, block_size[d]) : status[e] = USED
    /\ \A e \in Run(d, block_size[d]) \ {d} : block_size[e] = 0

RunsTileTable ==
    /\ \A d \in Blocks : RunStart(d) => RunIsWhole(d)
    /\ \A e \in Blocks : status[e] = USED =>
         \E d \in 0 .. e : RunStart(d) /\ e < d + block_size[d]
    /\ \A e \in Blocks \ {0} : status[e] = FREE => block_size[e] = 0

\* The loop over the table ends in every state, inside the table, having found the
\* run FirstFit names, or at the last descriptor when there is none.
ScanFindsFirstFit ==
    \A n \in 1 .. nFreeBlocks :
        LET end == Scanned(n)
        IN  IF end.dwCurBlocks >= n THEN FirstFit(end.pAllocStart, n)
            ELSE end.pCur = nBlocks - 1 /\ \A d \in Blocks : ~FirstFit(d, n)

----------------------------------------------------------------------------
(* The pool of BlockPool, read off the table.                              *)

AddressOfReply == IF reply.op = "alloc" THEN reply.ret ELSE reply.arg

BlockOfReply ==
    IF AddressOfReply = NULL THEN -1 ELSE MmpGetDescAddrFromPoolAddr(AddressOfReply)

Pool == INSTANCE BlockPool WITH
    Lengths <- {MmpGetRequiredBlocksFromBytes(b) : b \in Requests},
    allocs <- {<<d, block_size[d]>> : d \in {e \in Blocks : RunStart(e)}},
    answer <- [op |-> reply.op,
               length |-> IF reply.op = "alloc"
                          THEN MmpGetRequiredBlocksFromBytes(reply.arg) ELSE 0,
               block |-> BlockOfReply]

\* The table implements the pool of disjoint allocations: a call that is
\* refused had no hole to take, a free releases exactly the allocation that
\* starts at the block, and no other allocation is ever touched.
PoolSpec == Pool!Spec
=============================================================================
