----------------------------- MODULE MCCommands -----------------------------
(***************************************************************************)
(* Two programs, the shorter loaded over the longer; a text the buffer of  *)
(* CrtpPrintfFmt is too short for, and one a NUL cuts; names that are no   *)
(* programs; one that does not exist.                                      *)
(***************************************************************************)
EXTENDS Commands

MCContent(n) ==
    CASE n = "HELLO" -> <<"x", "y", Exit>>
      [] n = "BYE" -> <<"y", Exit>>
      [] n = "NOTE.TXT" -> <<"y", "x", "y">>
      [] n = "CUT.TXT" -> <<"x", Nul, "y">>
      [] OTHER -> << >>

MCExists(n) == n # "LOST"
MCExecutable(n) == n \notin {"NOTE.TXT", "CUT.TXT"}
=============================================================================
