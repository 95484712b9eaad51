------------------------------- MODULE MCPlayers ------------------------------
(* Small instances of Players: two profiles of one console.                 *)
EXTENDS Players

CONSTANTS Privacy, Camera

OneConsole == [x \in Xuids |-> CHOOSE c \in Consoles : TRUE]
\* A registration uploads one of the settings, or both.
OneOrBoth == {{Privacy}, {Privacy, Camera}}
=============================================================================
