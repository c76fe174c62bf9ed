------------------------------ MODULE MCShell ------------------------------
(* Small screens for the shell.                                            *)
EXTENDS Shell

MCPrompt == <<"A", ">">>

MCBootText == <<"k", CR, LF>>

\* Whole rows, and a file or a program's text that does not end its row.
MCOutputs == {<< >>, <<"o", CR, LF>>, <<"o">>}
=============================================================================
