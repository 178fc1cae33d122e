----------------------------- MODULE MCShellHook -----------------------------
(* The instances of MCWorkspaces, for the shell function.                  *)
EXTENDS ShellHook, MCWorkspaces
=============================================================================
