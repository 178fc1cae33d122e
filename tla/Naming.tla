------------------------------- MODULE Naming -------------------------------
(***************************************************************************)
(* How jtp derives directories and names from branch names: config.go's    *)
(* ResolveWorktreePath, the inverse getWorktreeNameFromPath, the test      *)
(* isPathWithin and the workspace name GitWorktreeAdd gives to jj.         *)
(*                                                                         *)
(* A path, a branch and a workspace name are sequences of segments: the    *)
(* branch "feature/auth" is <<"feature", "auth">>.  Paths are absolute and *)
(* cleaned; a branch segment is never "..", which validateBranchLikeName   *)
(* refuses.  It lets "." pass, which the path loses and the workspace name  *)
(* keeps ("jtp add -b ." asks for base_dir itself): left out here.         *)
(***************************************************************************)
EXTENDS Integers, SequencesExt

CONSTANTS
    Segments,  \* what stands between two "/"
    MainRoot,  \* where the workspace "default" lives
    BaseDir    \* defaults.base_dir: [up |-> number of "..", rest |-> segments]

ASSUME NamingAssumption ==
    /\ MainRoot \in Seq(Segments)
    /\ BaseDir \in [up : Nat, rest : Seq(Segments)]

\* filepath.Join(repo, base_dir): leading ".." climb, and stop at the root.
ResolveBase(repo) ==
    SubSeq(repo, 1, IF BaseDir.up < Len(repo) THEN Len(repo) - BaseDir.up ELSE 0)
        \o BaseDir.rest

ResolveWorktreePath(repo, branch) == ResolveBase(repo) \o branch

\* filepath.Rel(basePath, targetPath) neither is ".." nor starts with "../".
IsPathWithin(basePath, targetPath) == IsPrefix(basePath, targetPath)

IsManaged(path, mainRepo) == IsPathWithin(ResolveBase(mainRepo), path)

\* The worktree name jtp shows: the path relative to base_dir, for a managed path.
WorktreeName(path, mainRepo) ==
    SubSeq(path, Len(ResolveBase(mainRepo)) + 1, Len(path))

\* filepath.Base, as a one-segment name.
PathBase(path) == <<Last(path)>>

\* The segment after the last "/".
ExtractFirstSegment(ref) == <<Head(ref)>>
ExtractBranchName(ref) == <<Last(ref)>>

\* GitWorktreeAdd: opts.Branch when it is set (-b, or a remote branch is
\* tracked), else the last segment of the revision.
WorkspaceName(branch, fullName) ==
    IF fullName THEN branch ELSE ExtractBranchName(branch)
=============================================================================
