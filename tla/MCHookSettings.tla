--------------------------- MODULE MCHookSettings ---------------------------
(***************************************************************************)
(* A user with a hook of his own, one whose script lives in a directory    *)
(* named hooks, and an entry of an older Whittle; two commands and three   *)
(* edits, crashes or failing writes.                                       *)
(***************************************************************************)
EXTENDS HookSettings

CONSTANTS linter, hooksScript, oldEntry

MCUserHooks == {linter, hooksScript, oldEntry}
MCOlder == {oldEntry}
MCLookAlike == {hooksScript, oldEntry}
MCShadows == {hooksScript}
MCFaults == {"write"}
=============================================================================
