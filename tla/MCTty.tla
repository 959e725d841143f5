-------------------------------- MODULE MCTty --------------------------------
(***************************************************************************)
(* A frame of two columns and two rows.  The strings wrap, end a line      *)
(* exactly at the last column, return to its start and end at a NUL.       *)
(***************************************************************************)
EXTENDS Tty

MCStrings == {<<"a", "n", NewLine>>, <<"a", Return, "n">>, <<NewLine, Nul, "a">>}
At(active, x, y, color) == [active |-> active, xpos |-> x, ypos |-> y, color |-> color]
MCAttrs == {At(TRUE, 0, 0, "gray"), At(FALSE, 1, 1, "inverse"), At(FALSE, 1, 2, "gray")}
MCLogos == {<<1, 3>>}
==============================================================================
