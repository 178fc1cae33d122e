------------------------------ MODULE MCHooks ------------------------------
(* A command hook with a background job between two other hooks.           *)
EXTENDS Hooks, TLC

MCStreams == {"stdout", "stderr"}
ThreeHooks == <<"command", "files", "command">>

\* The shell writes more than a pipe holds; the job outlives it.
MCOutput ==
    "sh" :> ("stdout" :> 1 @@ "stderr" :> 3) @@ "job" :> ("stdout" :> 1 @@ "stderr" :> 0)
ShellOnly == "sh" :> ("stdout" :> 2 @@ "stderr" :> 3)
=============================================================================
