------------------------------ MODULE ShellHook ------------------------------
(***************************************************************************)
(* The shell function that jtp hook and jtp shell-init print               *)
(* (cmd/wtp/hook.go), around jtp add, jtp remove, jtp cd and jtp exec.  A  *)
(* process cannot move its parent, so the function runs jtp, reads the path *)
(* it prints and changes directory itself: the directory of the shell is   *)
(* state that lives from one command to the next.                          *)
(*                                                                         *)
(* bash, zsh and fish get the same function.  The process Shell is the jtp *)
(* that the function waits for, and the only one: this is one terminal.    *)
(***************************************************************************)
EXTENDS Lookup

CONSTANT Shell

ASSUME ShellAssumption ==
    /\ Procs = {Shell}
    /\ [path |-> MainRoot, real |-> TRUE] \in Cwds

VARIABLE shell
    \* [at, line, arg, tty, cwd, target]: where the function is, the command and the
    \* name it was given, whether stdout is a terminal, the directory, and where to go

allVars == <<vars, shell>>

\* The prompt after a command that ended with status 0 ("done") or not ("failed").
Prompt(status, dir) ==
    [at |-> status, line |-> "none", arg |-> <<>>, tty |-> FALSE,
     cwd |-> dir, target |-> <<>>]

AtPrompt == shell.at \in {"done", "failed"}

Ends(status) == shell' = Prompt(status, shell.cwd)

\* One path names the same directory to everybody.
Here(c) == c.cwd = shell.cwd

ShellInit == Init /\ shell = Prompt("done", MainRoot)

\* A command is refused before it does anything, and main makes its error status 1:
\* wrong arguments (validateAddInput, removeCommand, parseExecInput), a directory
\* outside every repository, a name nothing answers to, a target one stands in.
TypeRefused ==
    /\ AtPrompt
    /\ Ends("failed")
    /\ UNCHANGED vars

\* jtp add: with a terminal the function asks for --quiet and keeps the output.
TypeAdd(tty) ==
    /\ AtPrompt
    /\ AddStart(Shell)
    /\ Here(proc'[Shell])
    /\ shell' = [shell EXCEPT !.at = "jtp", !.line = "add", !.tty = tty,
                              !.arg = proc'[Shell].arg]

\* jtp remove goes through the function as it is.
TypeRemove ==
    /\ AtPrompt
    /\ RemFind(Shell)
    /\ Here(proc'[Shell])
    /\ shell' = [shell EXCEPT !.at = "jtp", !.line = "remove",
                              !.arg = proc'[Shell].arg]

\* cdToWorktree and execCommand: the path of the first worktree that answers.
Found(name) == InRepo(shell.cwd) /\ FoundByCd(name) # {}
Answer(name) == Root(First(FoundByCd(name)))

\* jtp cd, run once with its errors hidden; without a name it is "@".
TypeCd(name) ==
    /\ AtPrompt
    /\ shell' = [shell EXCEPT !.line = "cd", !.arg = name,
                              !.at = IF Found(name) THEN "chdir" ELSE "again",
                              !.target = IF Found(name) THEN Answer(name) ELSE <<>>]
    /\ UNCHANGED vars

\* The second run of jtp cd, for its message; by now it may find the worktree.
CdAgain ==
    /\ shell.at = "again"
    /\ Ends(IF Found(shell.arg) THEN "done" ELSE "failed")
    /\ UNCHANGED vars

\* jtp exec <worktree> -- <command>.
TypeExec(name) ==
    /\ AtPrompt
    /\ Found(name)
    /\ shell' = [shell EXCEPT !.at = "exec", !.line = "exec", !.arg = name,
                              !.target = Answer(name)]
    /\ UNCHANGED vars

\* runExecInWorktree: the command runs in the worktree, and may edit its files.
RunExec ==
    /\ shell.at = "exec"
    /\ IF shell.target \in dirs
         THEN /\ dirty' \in {dirty, dirty \cup ({shell.target} \cap content)}
              /\ \E status \in {"done", "failed"} : Ends(status)
         ELSE /\ Ends("failed")
              /\ UNCHANGED dirty
    /\ UNCHANGED <<repoVars, dirs, content, proc>>

\* What jtp add --quiet prints.
PrintedRepo(c) == c.repo
Printed(c) == c.path

\* The statuses with which the process can end at a place: jtp add ends well only
\* behind --exec, jtp remove behind os.RemoveAll or, with --with-branch, the branch;
\* a message that cannot be written after that fails the command all the same.
Statuses(pc) ==
    IF pc \in {"exec", "clear", "unmark"} THEN {"done", "failed"} ELSE {"failed"}

\* jtp goes on, and when it ends well with a path the function goes there.
JtpRuns ==
    /\ shell.at = "jtp"
    /\ AddStep(Shell) \/ RemoveStep(Shell)
    /\ LET c == proc[Shell]
       IN  IF proc'[Shell].pc # "idle"
             THEN UNCHANGED shell
             ELSE \E status \in Statuses(c.pc) :
                    IF status = "done" /\ shell.line = "add" /\ shell.tty
                      THEN shell' = [shell EXCEPT !.at = "chdir", !.target = Printed(c)]
                      ELSE Ends(status)

\* jtp is killed, or one of its calls fails.
JtpStops ==
    /\ shell.at = "jtp"
    /\ Stop(Shell)
    /\ Ends("failed")

\* cd "$target_dir".
Chdir ==
    /\ shell.at = "chdir"
    /\ shell' = IF shell.target \in dirs
                  THEN Prompt("done", shell.target)
                  ELSE Prompt("failed", shell.cwd)
    /\ UNCHANGED vars

-----------------------------------------------------------------------------
Types ==
    \/ TypeRefused \/ TypeRemove
    \/ \E tty \in BOOLEAN : TypeAdd(tty)
    \/ \E name \in Typed \cup {MainMark} : TypeCd(name) \/ TypeExec(name)

\* What the function does by itself once a command is typed.
Runs == JtpRuns \/ CdAgain \/ RunExec \/ Chdir

\* What the user does outside this shell.
Others == User /\ UNCHANGED shell

ShellNext == Types \/ Runs \/ JtpStops \/ Others

\* The subprocesses, the hooks and the commands of --exec and jtp exec end.
ShellSpec == ShellInit /\ [][ShellNext]_allVars /\ WF_allVars(Runs)

-----------------------------------------------------------------------------
(* Properties.                                                             *)

\* Whatever sequence of jtp commands one shell runs, also when they fail half
\* way, it never finds the directory it stands in deleted.
ShellStands == shell.cwd \in dirs

\* An interactive jtp add that ends with status 0 leaves the shell in the new
\* worktree: a registered workspace with its checkout, at the place that the branch
\* given resolves to, with that branch there.
AddLandsThere ==
    [][shell.line = "add" /\ shell.tty /\ shell'.at = "done" =>
          /\ shell'.cwd = ResolveWorktreePath(MainRoot, shell.arg)
          /\ shell'.cwd \in content
          /\ \E n \in DOMAIN workspaces : Root(n) = shell'.cwd
          /\ shell.arg \in DOMAIN bookmarks]_allVars

\* Every command typed comes back to the prompt.
CommandsEnd == ~AtPrompt ~> AtPrompt
=============================================================================
