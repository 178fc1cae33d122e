------------------------------- MODULE Lookup -------------------------------
(***************************************************************************)
(* How jtp cd, jtp exec and jtp remove turn a name into a worktree, and    *)
(* the name that the message of jtp add suggests, over the states that     *)
(* adds, removals and the user's jj commands lead to                       *)
(* (cmd/wtp/worktree_resolver.go, cd.go, exec.go, remove.go).              *)
(*                                                                         *)
(* A lookup is one GetWorktrees and writes nothing, so it is an expression *)
(* over one state.  The "*" that completion and list append to the current  *)
(* worktree is left out: cd and exec trim it from a name, remove does not. *)
(***************************************************************************)
EXTENDS Workspaces

MainMark == <<"@">>

\* "root", "@" and the two legacy completion formats, "repo(root worktree)" and
\* "repo@branch(root worktree)".
MainAliases == {<<"root">>, MainMark, <<"repo(root worktree)">>}

\* getWorktreeNameFromPath.
ShownName(n) == IF n = MainName THEN MainMark ELSE WorktreeName(Root(n), Root(MainName))

\* isWorktreeManagedCommon.
Managed == {n \in DOMAIN workspaces : n = MainName \/ IsManaged(Root(n), Root(MainName))}

\* tryDirectWorktreeMatches: branch, worktree name, directory name.
TryDirectNoPath(n, name) ==
    /\ n \in Managed
    /\ name \in {DisplayName(n), PathBase(Root(n))}
TryDirectAny(n, name) ==
    name \in {DisplayName(n), PathBase(Root(n))} \cup
             (IF n \in Managed THEN {ShownName(n)} ELSE {})
TryDirect(n, name) ==
    /\ n \in Managed
    /\ \/ DisplayName(n) = name
       \/ ShownName(n) = name
       \/ PathBase(Root(n)) = name

\* tryMainWorktreeMatches.
TryMain(n, name) ==
    /\ Root(n) = Root(MainName)
    /\ name \in MainAliases \cup {PathBase(Root(n))}

\* resolveWorktreePathByName: the first listed worktree that answers to the name.
FoundByCd(name) == {n \in DOMAIN workspaces : TryDirect(n, name) \/ TryMain(n, name)}

\* findTargetWorktreeFromList: the one jtp remove takes.
FoundByRemove(name) == Matches(name)

\* displaySuccessMessage: "To switch to the new worktree, run: jtp cd <name>".
Hint(c) == IF c.path = c.repo THEN MainMark ELSE WorktreeName(c.path, c.repo)

-----------------------------------------------------------------------------
(* Properties.                                                             *)

\* A name that jtp cd takes to a worktree other than the main one is the name
\* of that same worktree for jtp remove, though the loops are two and a name may fit
\* several worktrees, by their branches, places and moved bookmarks: looking around
\* with cd or exec before removing is a valid check of what remove will delete.
RemoveAgreesWithCd ==
    \A name \in Typed :
        LET found == FoundByCd(name)
        IN  found # {} /\ First(found) # MainName =>
              /\ FoundByRemove(name) # {}
              /\ First(FoundByRemove(name)) = First(found)

\* A name that is the branch or the worktree name of a worktree leads jtp cd there,
\* whatever other worktrees have a directory of that name: "The order matters: more
\* specific matches come first".
MoreSpecificFirst ==
    \A name \in Typed :
        LET specific == {n \in Managed : name \in {DisplayName(n), ShownName(n)}}
        IN  specific # {} => First(FoundByCd(name)) \in specific

\* The command that jtp add prints at its end leads to the worktree it made, unless
\* another worktree has come to display that name as its branch.
HintLeadsThere ==
    \A p \in Procs :
        /\ At(p, "exec")
        /\ proc[p].path \in content
        /\ proc[p].name \in DOMAIN workspaces
        /\ Root(proc[p].name) = proc[p].path
        /\ \A n \in DOMAIN workspaces \ {proc[p].name} : DisplayName(n) # Hint(proc[p])
        => /\ FoundByCd(Hint(proc[p])) # {}
           /\ Root(First(FoundByCd(Hint(proc[p])))) = proc[p].path
=============================================================================
