------------------------------ MODULE MCSystem ------------------------------
EXTENDS System

CONSTANTS shell_task, tty_task, a, d, o, nl, bs, clr, sp, qt, bsl, gt

(* All programs, or any one missing.                                        *)
MCArchives == {Programs} \cup {Programs \ {p} : p \in Programs}

(* printf("$%s> ", epath), with a path of one character.                    *)
MCPrompt == <<<<d>>, <<o>>, <<gt>>, <<sp>>>>

(* Nothing, or a coloured line and more.                                    *)
MCOutputs == {<<>>, <<<<clr>>, <<o>>, <<o>>, <<nl>>, <<o>>>>}
=============================================================================
