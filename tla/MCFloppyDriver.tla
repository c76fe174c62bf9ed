--------------------------- MODULE MCFloppyDriver ---------------------------
(***************************************************************************)
(* The floppy driver with reads that stay inside a track, as those of the  *)
(* file system do.                                                         *)
(***************************************************************************)
EXTENDS FloppyDriver

MCRequests == {<<1, 2>>, <<9, 3>>}
=============================================================================
