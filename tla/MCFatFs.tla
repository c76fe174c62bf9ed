------------------------------- MODULE MCFatFs -------------------------------
(***************************************************************************)
(* The file system on a small disk: a file that ends inside a sector, with *)
(* a chain that goes back and forth over odd and even clusters, one that   *)
(* ends at the end of a sector, an empty one, and an erased one.           *)
(***************************************************************************)
EXTENDS FatFs

Entry(name, cluster, filesize, erased) ==
    [name |-> name, cluster |-> cluster, filesize |-> filesize, erased |-> erased]

MCRoot == <<Entry("B", 7, 3, TRUE), Entry("A", 2, 5, FALSE), Entry("B", 4, 4, FALSE),
            Entry("E", 0, 0, FALSE), Entry("A", 6, 1, FALSE)>>

\* A: 2, 5, 3; B: 4, 8; the second A, which no open finds: 6.  4088 and more
\* end a chain; 2730 is what a formatter may leave in a free entry.
MCFat == [c \in 0 .. 9 |->
    CASE c = 0 -> 4080 [] c = 1 -> 4095 [] c = 2 -> 5 [] c = 3 -> 4095 [] c = 4 -> 8
      [] c = 5 -> 3 [] c = 6 -> 4088 [] c = 7 -> 2730 [] c = 8 -> 4095 [] c = 9 -> 0]
=============================================================================
