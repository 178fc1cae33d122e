---------------------------- MODULE MCConfigFiles ----------------------------
(* A small instance of ConfigFiles: the root of the main worktree and a    *)
(* directory below it, in which jtp init may be run too.                   *)
EXTENDS ConfigFiles
=============================================================================
