----------------------------- MODULE BlockPool -----------------------------
(***************************************************************************)
(* What the non-cached memory allocator of mmanager.c promises, with no    *)
(* descriptor table: a set of disjoint allocations over nBlocks blocks.    *)
(* An allocation takes any hole of the requested length that ends before   *)
(* the last block, and is refused only when no such hole is left.  The     *)
(* last block is never handed out (the scan stops at the descriptor whose  *)
(* pNext is NULL before it looks at its status), so it is not part of the  *)
(* promise.                                                                *)
(***************************************************************************)
EXTENDS Integers

CONSTANTS nBlocks,   \* blocks of the pool, numbered from 0
          Lengths    \* request lengths, in blocks; 0 is a request of no bytes

VARIABLES allocs,    \* the allocations: a set of <<first block, length>>
          answer     \* the last call and its result

poolVars == <<allocs, answer>>

NoBlock == -1

BlocksOf(a) == a[1] .. (a[1] + a[2] - 1)

\* n blocks from s on belong to no allocation, and the last block is not one.
Hole(s, n) ==
    /\ s + n < nBlocks
    /\ \A a \in allocs : BlocksOf(a) \cap (s .. (s + n - 1)) = {}

Init ==
    /\ allocs = {}
    /\ answer = [op |-> "none", length |-> 0, block |-> NoBlock]

Grant(n) ==
    \E s \in 0 .. (nBlocks - 1) :
        /\ n > 0
        /\ Hole(s, n)
        /\ allocs' = allocs \cup {<<s, n>>}
        /\ answer' = [op |-> "alloc", length |-> n, block |-> s]

Refuse(n) ==
    /\ n = 0 \/ \A s \in 0 .. (nBlocks - 1) : ~Hole(s, n)
    /\ answer' = [op |-> "alloc", length |-> n, block |-> NoBlock]
    /\ UNCHANGED allocs

\* Freeing removes the allocation that starts at the block, if there is one:
\* a block inside an allocation, a free one, or none at all, releases nothing.
Free(b) ==
    /\ allocs' = {a \in allocs : a[1] # b}
    /\ answer' = [op |-> "free", length |-> 0, block |-> b]

Next ==
    \/ \E n \in Lengths : Grant(n) \/ Refuse(n)
    \/ \E b \in {NoBlock} \cup (0 .. (nBlocks - 1)) : Free(b)

Spec == Init /\ [][Next]_poolVars
=============================================================================
