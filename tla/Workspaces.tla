----------------------------- MODULE Workspaces -----------------------------
(***************************************************************************)
(* jtp add and jtp remove (cmd/wtp/add.go, cmd/wtp/remove.go) run by a set *)
(* of concurrent processes against one jj repository and one file system.  *)
(*                                                                         *)
(* jtp holds no lock: a command is a sequence of jj subprocesses and file  *)
(* system calls, and each of them is one atomic action here.  A GetWorktrees *)
(* (one jj workspace list, one jj workspace root per workspace) is a single *)
(* read: the code acts on its result only after the last of its calls.     *)
(***************************************************************************)
EXTENDS Naming, FiniteSets, FiniteSetsExt

CONSTANTS
    Procs,          \* concurrently running jtp commands
    Branches,       \* what the user gives to jtp add
    Revisions,      \* what may follow "-b <branch>"; <<>> is no revision
    Typed,          \* what the user gives to jtp remove
    Remotes,        \* names of remotes
    NoRemote,       \* the empty string ResolveBranch returns for a local branch
    AtRemote,       \* [<<segment, remote>> -> the segment "<segment>@<remote>"]
    Rank,           \* the order in which jj lists workspaces and bookmarks
    InitBookmarks,  \* local bookmarks of the initial repository
    InitRemote,     \* its remote bookmarks, <<branch, remote>>
    Fetches,        \* the sets of remote bookmarks a jj git fetch may leave
    Foreign,        \* its workspaces made without jtp: [name -> root]
    Cwds,           \* working directories: [path, real]; real = FALSE is $PWD
                    \* spelled through a symbolic link
    RootLookupFails, \* jj may fail to answer GetMainWorktreePath
    Events          \* which events of the environment occur

DefaultName == <<"default">>

Elsewhere == <<>>  \* a commit that is no workspace's working copy

\* The segment after the last "/" of "<branch>@<remote>".
MarkedName(branch, remote) == <<AtRemote[<<Last(branch), remote>>]>>

Names == Branches \cup Typed \cup {ExtractBranchName(b) : b \in Branches}
            \cup {MarkedName(b, r) : b \in Branches, r \in Remotes}
            \cup DOMAIN Foreign \cup {DefaultName}

ASSUME WorkspacesAssumption ==
    /\ DefaultName \in Seq(Segments)
    /\ Branches \cup Typed \subseteq Seq(Segments) \ {<<>>}
    /\ Revisions \subseteq Seq(Segments)
    /\ Remotes \subseteq Segments /\ NoRemote \notin Remotes
    /\ \A b \in Branches, r \in Remotes : AtRemote[<<Last(b), r>>] \in Segments
    /\ InitBookmarks \subseteq Branches
    /\ InitRemote \subseteq Branches \X Remotes
    /\ Fetches \subseteq SUBSET (Branches \X Remotes)
    /\ Foreign \in [DOMAIN Foreign -> Seq(Segments)]
    /\ DOMAIN Foreign \subseteq Seq(Segments) \ {<<>>, DefaultName}
    /\ Cwds \subseteq [path : Seq(Segments), real : BOOLEAN]
    /\ RootLookupFails \in BOOLEAN
    /\ Rank \in [Names -> Nat]
    /\ \A m, n \in Names : Rank[m] = Rank[n] => m = n
    /\ Events \subseteq {"edit", "mark", "stop"}

\* A workspace jj already knows never lies above the main one: jj refuses a
\* destination that is not empty.
ASSUME ForeignAssumption ==
    \A n \in DOMAIN Foreign : ~IsPathWithin(Foreign[n], MainRoot)

VARIABLES
    workspaces,  \* jj's registry: [name -> [root, on]]; on is the workspace
                 \* whose working-copy commit is the parent of this one's
    bookmarks,   \* [branch -> the workspace whose working-copy commit has it]
    remoteMarks, \* remote bookmarks, <<branch, remote>>
    dirs,        \* directories that exist
    content,     \* the directories among them that hold a checkout
    dirty,       \* checkouts with edits that no jj command has recorded
    proc         \* the running commands

vars == <<workspaces, bookmarks, remoteMarks, dirs, content, dirty, proc>>
repoVars == <<workspaces, bookmarks, remoteMarks>>
diskVars == <<dirs, content, dirty>>

-----------------------------------------------------------------------------
(* What jj shows of the repository.                                        *)

First(S) == CHOOSE x \in S : \A y \in S : Rank[x] <= Rank[y]

\* jj.DisplayName: the first bookmark on the working-copy commit, else the name.
DisplayName(name) ==
    LET at == {b \in DOMAIN bookmarks : bookmarks[b] = name}
    IN  IF at = {} THEN name ELSE First(at)

\* mainWorkspaceName.
MainName ==
    IF DefaultName \in DOMAIN workspaces THEN DefaultName
                                         ELSE First(DOMAIN workspaces)

Root(name) == workspaces[name].root

\* The workspaces a name given to jtp remove stands for: by branch, by
\* directory name, by worktree name; never the main one, never an unmanaged one.
MatchesMain(name) ==
    {n \in DOMAIN workspaces :
        /\ IsManaged(Root(n), Root(MainName))
        /\ name \in {DisplayName(n), PathBase(Root(n)),
                     WorktreeName(Root(n), Root(MainName))}}
MatchesUnmanaged(name) ==
    {n \in DOMAIN workspaces \ {MainName} :
        name \in {DisplayName(n), PathBase(Root(n))}}
MatchesBranchFirst(name) ==
    LET managed == {n \in DOMAIN workspaces \ {MainName} :
                       IsManaged(Root(n), Root(MainName))}
        named == {n \in managed : DisplayName(n) = name}
    IN  IF named # {} THEN named
        ELSE {n \in managed : name \in {PathBase(Root(n)),
                                        WorktreeName(Root(n), Root(MainName))}}
Matches(name) ==
    {n \in DOMAIN workspaces \ {MainName} :
        /\ IsManaged(Root(n), Root(MainName))
        /\ \/ DisplayName(n) = name
           \/ PathBase(Root(n)) = name
           \/ WorktreeName(Root(n), Root(MainName)) = name}

\* The workspaces whose root RemoveWorktree accepts for a path.
NamesAt(path) == {n \in DOMAIN workspaces : Root(n) = path}

\* The part of the disk os.RemoveAll(path) works on.
Under(S, path) == {d \in S : IsPathWithin(path, d)}

\* isJjRepository: jj answers in a directory that lies in a checkout.
InRepo(path) == path \in dirs /\ \E d \in content : IsPathWithin(d, path)

\* jj workspace add takes a destination that does not exist or is empty.
IsFree(path) ==
    /\ Under(content, path) = {}
    /\ Under(dirs, path) \subseteq {path}

\* A revision is a branch and the remotes named behind it: "b", "b@origin".  What
\* buildWorktreeCommand asks for is the remote branch it tracks, the revision after
\* -b <branch>, or the branch itself.
Asked(c) ==
    CASE c.track # NoRemote -> [branch |-> c.arg, at |-> <<c.track>>]
      [] c.track = NoRemote /\ c.flag -> [branch |-> c.rev, at |-> <<>>]
      [] OTHER -> [branch |-> c.arg, at |-> <<>>]

\* NormalizeRevision: "origin/b" becomes "b@origin" when there is a remote origin,
\* whatever local branches there are and whatever follows.
NormalizeRevision(r) ==
    IF Len(r.branch) > 1 /\ Head(r.branch) \in Remotes
      THEN [branch |-> Tail(r.branch), at |-> Append(r.at, Head(r.branch))]
      ELSE r

\* normalizeCommitish.
Revision(c) == IF c.repo \in dirs THEN NormalizeRevision(Asked(c)) ELSE Asked(c)

\* The revision named in the jj workspace add still resolves; "b@r@s" never does.
RevisionResolves(c) ==
    \/ Revision(c).at = <<>> /\ Revision(c).branch \in DOMAIN bookmarks \cup {<<>>}
    \/ \E m \in remoteMarks : Revision(c) = [branch |-> m[1], at |-> <<m[2]>>]

\* Whose working-copy commit the new workspace is put on: the revision's, or,
\* without a revision, the one the current workspace is on.
Parents(c) ==
    LET r == Revision(c)
    IN  CASE r.at # <<>> -> {Elsewhere}
          [] r.at = <<>> /\ r.branch = <<>> -> {workspaces[n].on : n \in DOMAIN workspaces}
          [] r.at = <<>> /\ r.branch # <<>> -> {bookmarks[r.branch]}

\* The working-copy commit of a workspace is no longer one.
Left(loc, name) == IF loc = name THEN Elsewhere ELSE loc
BookmarksWithout(name) == [b \in DOMAIN bookmarks |-> Left(bookmarks[b], name)]
WorkspacesLeaving(name, S) ==
    [n \in S |-> [workspaces[n] EXCEPT !.on = Left(@, name)]]

-----------------------------------------------------------------------------
(* A command: its place, its arguments and its local variables.            *)

Idle == [pc |-> "idle", arg |-> <<>>, flag |-> FALSE, rev |-> <<>>,
         repo |-> <<>>, track |-> NoRemote, path |-> <<>>, name |-> <<>>,
         mark |-> <<>>, cwd |-> <<>>]

\* The two commands as they begin.
NewAdd(b, new, rev, repo, dir) ==
    [Idle EXCEPT !.pc = "mkdir", !.arg = b, !.flag = new, !.rev = rev, !.repo = repo,
                 !.path = ResolveWorktreePath(repo, b), !.cwd = dir]
NewRemove(name, withBranch, target, dir) ==
    [Idle EXCEPT !.pc = "relist", !.arg = name, !.flag = withBranch,
                 !.mark = DisplayName(target), !.path = Root(target), !.cwd = dir]

At(p, pc) == proc[p].pc = pc
Goto(p, pc) == proc' = [proc EXCEPT ![p].pc = pc]
Return(p) == proc' = [proc EXCEPT ![p] = Idle]

Init ==
    /\ workspaces = [n \in DOMAIN Foreign \cup {DefaultName} |->
                        [root |-> IF n = DefaultName THEN MainRoot ELSE Foreign[n],
                         on |-> Elsewhere]]
    /\ bookmarks = [b \in InitBookmarks |-> Elsewhere]
    /\ remoteMarks = InitRemote
    /\ content = {MainRoot} \cup Range(Foreign)
    /\ dirs = UNION {Prefixes(d) : d \in content}
    /\ dirty = {}
    /\ proc = [p \in Procs |-> Idle]

-----------------------------------------------------------------------------
(* jtp add                                                                 *)

\* setupRepoAndConfig and resolveWorktreePath.  When the main workspace cannot
\* be looked up, the current directory stands in for it.
AddStart(p) ==
    /\ At(p, "idle")
    /\ \E b \in Branches, new \in BOOLEAN, cwd \in Cwds :
       \E rev \in (IF new THEN Revisions ELSE {<<>>}),
          repo \in {Root(MainName)} \cup (IF RootLookupFails THEN {cwd.path} ELSE {}) :
         /\ InRepo(cwd.path)
         /\ proc' = [proc EXCEPT ![p] = NewAdd(b, new, rev, repo, cwd.path)]
    /\ UNCHANGED <<repoVars, diskVars>>

\* ensureWorktreeParentDir; the parent is not made when the repository is gone.
AddMkdir(p) ==
    /\ At(p, "mkdir")
    /\ dirs' = IF proc[p].repo \in dirs
                 THEN dirs \cup Prefixes(Front(proc[p].path))
                 ELSE dirs
    /\ Goto(p, IF proc[p].flag THEN "workspace" ELSE "local")
    /\ UNCHANGED <<repoVars, content, dirty>>

\* ResolveBranch, run in the main worktree; first call: a local bookmark is
\* used as it is.
AddResolveLocal(p) ==
    /\ At(p, "local")
    /\ IF InRepo(proc[p].repo)
         THEN Goto(p, IF proc[p].arg \in DOMAIN bookmarks THEN "workspace" ELSE "remote")
         ELSE Return(p)
    /\ UNCHANGED <<repoVars, diskVars>>

RemotesWith(branch) == {r \in Remotes : <<branch, r>> \in remoteMarks}

AddResolveRemoteRetry(p) ==
    /\ At(p, "remote")
    /\ Cardinality(RemotesWith(proc[p].arg)) = 1
    /\ proc' = [proc EXCEPT ![p].pc = "workspace",
                            ![p].track = CHOOSE r \in RemotesWith(proc[p].arg) : TRUE]
    /\ UNCHANGED <<repoVars, diskVars>>

\* ResolveBranch, second call: exactly one remote must have the branch.
AddResolveRemote(p) ==
    /\ At(p, "remote")
    /\ LET found == RemotesWith(proc[p].arg)
       IN  IF InRepo(proc[p].repo) /\ Cardinality(found) = 1
             THEN proc' = [proc EXCEPT ![p].pc = "workspace",
                                       ![p].track = CHOOSE r \in found : TRUE]
             ELSE Return(p)
    /\ UNCHANGED <<repoVars, diskVars>>

\* bookmarkNameForCreatedWorkspace: none when a local branch is checked out.
MakesBookmarkIfNew(c) == c.flag
MakesBookmark(c) == c.flag \/ c.track # NoRemote

\* The name GitWorktreeAdd gives to the workspace: the branch that is made, else the
\* last segment of the revision.
NewName(c) ==
    IF ~MakesBookmark(c) /\ Revision(c).at # <<>>
      THEN MarkedName(c.arg, Head(Revision(c).at))
      ELSE WorkspaceName(c.arg, MakesBookmark(c))

\* jj workspace add --name ..., run in the current directory: refused when the
\* name is taken, when the destination is not empty or has no parent, when the
\* revision is unknown.
AddWorkspace(p) ==
    /\ At(p, "workspace")
    /\ LET c == proc[p]
           name == NewName(c)
       IN  IF /\ InRepo(c.cwd)
              /\ name \notin DOMAIN workspaces
              /\ IsFree(c.path)
              /\ Front(c.path) \in dirs
              /\ RevisionResolves(c)
             THEN /\ \E on \in Parents(c) :
                       workspaces' = [n \in DOMAIN workspaces \cup {name} |->
                            IF n = name THEN [root |-> c.path, on |-> on]
                                        ELSE workspaces[n]]
                  /\ dirs' = dirs \cup {c.path}
                  /\ content' = content \cup {c.path}
                  /\ proc' = [proc EXCEPT ![p].name = name,
                        ![p].pc = IF MakesBookmark(c) THEN "bookmark" ELSE "hooks"]
             ELSE /\ Return(p)
                  /\ UNCHANGED <<workspaces, dirs, content>>
    /\ UNCHANGED <<bookmarks, remoteMarks, dirty>>

\* createBookmarkForNewWorkspace: jj bookmark create -r @- in the new
\* workspace; on a failure the command ends and the workspace stays.
AddBookmark(p) ==
    /\ At(p, "bookmark")
    /\ LET c == proc[p]
       IN  CASE c.repo \notin dirs ->
                  /\ Goto(p, "hooks")
                  /\ UNCHANGED bookmarks
             [] /\ c.repo \in dirs
                /\ c.path \in content /\ c.name \in DOMAIN workspaces
                /\ c.arg \notin DOMAIN bookmarks ->
                  /\ bookmarks' = [b \in DOMAIN bookmarks \cup {c.arg} |->
                        IF b = c.arg THEN workspaces[c.name].on ELSE bookmarks[b]]
                  /\ Goto(p, "hooks")
             [] OTHER -> Return(p) /\ UNCHANGED bookmarks
    /\ UNCHANGED <<workspaces, remoteMarks, diskVars>>

\* executePostCreateHooks: hooks write into the new worktree, and make its
\* directory again when it has been removed; a failing hook is only a warning.
AddHooksNoMkdir(p) ==
    /\ At(p, "hooks")
    /\ dirty' \in {dirty, dirty \cup {proc[p].path}}
    /\ Goto(p, "exec")
    /\ UNCHANGED <<repoVars, dirs, content>>
AddHooks(p) ==
    /\ At(p, "hooks")
    /\ \/ UNCHANGED diskVars
       \/ /\ dirs' = dirs \cup Prefixes(proc[p].path)
          /\ content' = content \cup {proc[p].path}
          /\ dirty' = dirty \cup {proc[p].path}
    /\ Goto(p, "exec")
    /\ UNCHANGED repoVars

\* executePostCreateCommand and the success message, the last thing it does.
AddExec(p) ==
    /\ At(p, "exec")
    /\ dirty' \in {dirty, dirty \cup ({proc[p].path} \cap content)}
    /\ Return(p)
    /\ UNCHANGED <<repoVars, dirs, content>>

-----------------------------------------------------------------------------
(* jtp remove; --force and --force-branch change nothing in the code.      *)

\* The caller's directory, as it is spelled, lies in the target.
StandsInSwapped(cwd, target) == cwd.real /\ IsPathWithin(cwd.path, target)
StandsIn(cwd, target) == cwd.real /\ IsPathWithin(target, cwd.path)

\* GetWorktrees, findTargetWorktreeFromList and the check that the caller does
\* not stand in the target, on the spelling of the caller's directory.
RemFind(p) ==
    /\ At(p, "idle")
    /\ \E name \in Typed, withBranch \in BOOLEAN, cwd \in Cwds :
         /\ InRepo(cwd.path)
         /\ Matches(name) # {}
         /\ LET target == First(Matches(name))
            IN  /\ ~StandsIn(cwd, Root(target))
                /\ proc' = [proc EXCEPT ![p] =
                              NewRemove(name, withBranch, target, cwd.path)]
    /\ UNCHANGED <<repoVars, diskVars>>

RemRelistThenClear(p) ==
    /\ At(p, "relist")
    /\ NamesAt(proc[p].path) # {}
    /\ proc' = [proc EXCEPT ![p].pc = "clear",
                            ![p].name = First(NamesAt(proc[p].path))]
    /\ UNCHANGED <<repoVars, diskVars>>

\* RemoveWorktree lists again and takes the first workspace at the path.
RemRelist(p) ==
    /\ At(p, "relist")
    /\ IF InRepo(proc[p].cwd) /\ NamesAt(proc[p].path) # {}
         THEN proc' = [proc EXCEPT ![p].pc = "forget",
                                   ![p].name = First(NamesAt(proc[p].path))]
         ELSE Return(p)
    /\ UNCHANGED <<repoVars, diskVars>>

\* jj workspace forget: by name.
RemForget(p) ==
    /\ At(p, "forget")
    /\ LET name == proc[p].name
       IN  IF InRepo(proc[p].cwd) /\ name \in DOMAIN workspaces
             THEN /\ workspaces' = WorkspacesLeaving(name, DOMAIN workspaces \ {name})
                  /\ bookmarks' = BookmarksWithout(name)
                  /\ Goto(p, "clear")
             ELSE /\ Return(p)
                  /\ UNCHANGED <<workspaces, bookmarks>>
    /\ UNCHANGED <<remoteMarks, diskVars>>

\* os.RemoveAll at work: some of what lies under the path is gone.
RemSweep(p) ==
    /\ At(p, "clear")
    /\ \E d \in Under(content, proc[p].path) : content' = content \ {d}
    /\ dirty' = dirty \cap content'
    /\ UNCHANGED <<repoVars, dirs, proc>>

\* os.RemoveAll is done; with --with-branch the bookmark is next.
RemRmdir(p) ==
    /\ At(p, "clear")
    /\ Under(content, proc[p].path) = {}
    /\ dirs' = dirs \ Under(dirs, proc[p].path)
    /\ IF proc[p].flag THEN Goto(p, "unmark") ELSE Return(p)
    /\ UNCHANGED <<repoVars, content, dirty>>

\* removeBranchWithCommandExecutor: the bookmark that RemFind displayed.
RemUnmark(p) ==
    /\ At(p, "unmark")
    /\ bookmarks' = IF InRepo(proc[p].cwd)
         THEN [b \in DOMAIN bookmarks \ {proc[p].mark} |-> bookmarks[b]]
         ELSE bookmarks
    /\ Return(p)
    /\ UNCHANGED <<workspaces, remoteMarks, diskVars>>

-----------------------------------------------------------------------------
(* What happens around the commands.                                       *)

\* A command ends early: a jj subprocess or a file system call fails and the
\* error is returned, or the command is killed.
Stop(p) ==
    /\ "stop" \in Events
    /\ ~At(p, "idle")
    /\ Return(p)
    /\ UNCHANGED <<repoVars, diskVars>>

\* The user edits files in a worktree.
UserEdit ==
    /\ "edit" \in Events
    /\ \E d \in content \ {MainRoot} : dirty' = dirty \cup {d}
    /\ UNCHANGED <<repoVars, dirs, content, proc>>

\* Any jj command run inside a worktree records its edits.
UserRecord ==
    /\ \E d \in dirty : dirty' = dirty \ {d}
    /\ UNCHANGED <<repoVars, dirs, content, proc>>

\* jj bookmark set <b> in a workspace puts a bookmark on its working copy.
UserMark ==
    /\ "mark" \in Events
    /\ \E n \in DOMAIN workspaces, b \in DOMAIN bookmarks :
         bookmarks' = [bookmarks EXCEPT ![b] = n]
    /\ UNCHANGED <<workspaces, remoteMarks, diskVars, proc>>

\* jj new in a workspace leaves the commit and the bookmarks on it behind.
UserNew ==
    /\ "mark" \in Events
    /\ \E n \in DOMAIN workspaces :
         /\ bookmarks' = BookmarksWithout(n)
         /\ workspaces' = [WorkspacesLeaving(n, DOMAIN workspaces)
                             EXCEPT ![n].on = Elsewhere]
    /\ UNCHANGED <<remoteMarks, diskVars, proc>>

\* jj git fetch.
UserFetch ==
    /\ remoteMarks' \in Fetches
    /\ UNCHANGED <<workspaces, bookmarks, diskVars, proc>>

-----------------------------------------------------------------------------
AddStep(p) ==
    \/ AddStart(p) \/ AddMkdir(p) \/ AddResolveLocal(p) \/ AddResolveRemote(p)
    \/ AddWorkspace(p) \/ AddBookmark(p) \/ AddHooks(p) \/ AddExec(p)

RemoveStep(p) ==
    \/ RemFind(p) \/ RemRelist(p) \/ RemForget(p)
    \/ RemSweep(p) \/ RemRmdir(p) \/ RemUnmark(p)

User == UserEdit \/ UserRecord \/ UserMark \/ UserNew \/ UserFetch

Next == (\E p \in Procs : AddStep(p) \/ RemoveStep(p) \/ Stop(p)) \/ User

Spec == Init /\ [][Next]_vars

-----------------------------------------------------------------------------
(* Properties.                                                             *)

AddPCs == {"mkdir", "local", "remote", "workspace", "bookmark", "hooks", "exec"}
RemovePCs == {"relist", "forget", "clear", "unmark"}
PCs == {"idle"} \cup AddPCs \cup RemovePCs

Paths == Seq(Segments)

Commands ==
    [pc : PCs, arg : Paths, flag : BOOLEAN, rev : Paths, repo : Paths,
     track : Remotes \cup {NoRemote}, path : Paths, name : Paths,
     mark : Paths, cwd : Paths]

RepoOK ==
    /\ DOMAIN workspaces \subseteq Names
    /\ workspaces \in [DOMAIN workspaces ->
                          [root : Paths, on : DOMAIN workspaces \cup {Elsewhere}]]
    /\ DOMAIN bookmarks \subseteq Branches
    /\ bookmarks \in [DOMAIN bookmarks -> DOMAIN workspaces \cup {Elsewhere}]
    /\ remoteMarks \subseteq Branches \X Remotes

DiskOK ==
    /\ dirs \subseteq Paths
    /\ content \subseteq Paths
    /\ dirty \subseteq content

ProcOK ==
    /\ proc \in [Procs -> Commands]
    /\ \A p \in Procs : proc[p].pc \in AddPCs => proc[p].arg \in Branches

\* The state is well formed; a bookmark or a workspace sits on the working copy
\* of a registered workspace or of none.
TypeOK == RepoOK /\ DiskOK /\ ProcOK

\* However adds, removes, failures and the user's own jj commands interleave,
\* the main worktree stays registered where it is and stays on the disk
\* (findTargetWorktreeFromList skips it, os.RemoveAll never reaches it).
MainSafe ==
    /\ DefaultName \in DOMAIN workspaces
    /\ Root(DefaultName) = MainRoot
    /\ MainRoot \in content

\* A worktree made with jj itself outside base_dir is never forgotten and never
\* deleted by jtp: "unmanaged worktrees cannot be removed by wtp".
Unmanaged == {n \in DOMAIN Foreign : ~IsManaged(Foreign[n], MainRoot)}

UnmanagedSafe ==
    \A n \in Unmanaged :
        /\ n \in DOMAIN workspaces
        /\ Root(n) = Foreign[n]
        /\ Foreign[n] \in content

\* What a removal has found is managed and does not hold the main worktree.
Aimed(c) ==
    /\ c.pc \in {"relist", "forget", "clear"} =>
          IsManaged(c.path, MainRoot) /\ ~IsPathWithin(c.path, MainRoot)
    /\ c.pc = "forget" => c.name \notin Unmanaged \cup {DefaultName}

\* The inductive invariant behind MainSafe and UnmanagedSafe: jj's refusal of a
\* destination that is not empty keeps every worktree off the path to the main
\* one, and a running removal has a target that passed both of jtp's filters.
Protected ==
    /\ MainSafe
    /\ UnmanagedSafe
    /\ \A n \in DOMAIN workspaces \ {DefaultName} : ~IsPathWithin(Root(n), MainRoot)
    /\ \A p \in Procs : Aimed(proc[p])

\* jj never lists a worktree whose directory jtp has begun to delete, and no two
\* workspaces share a directory: RemoveWorktree forgets before it deletes, so
\* that a failure in between leaves a directory and not a dangling workspace.
RegisteredOnDisk ==
    /\ \A n \in DOMAIN workspaces : Root(n) \in content
    /\ \A m, n \in DOMAIN workspaces : Root(m) = Root(n) => m = n

\* The workspace that jj workspace forget is about to drop by name is the one at the
\* path that will be deleted, even when another command has meanwhile removed the
\* target and made it or other worktrees again.
ForgetIsAimed ==
    \A p \in Procs :
        At(p, "forget") /\ proc[p].name \in DOMAIN workspaces
            => Root(proc[p].name) = proc[p].path

\* Once jtp add has come to the hooks, a local branch of the name it was given
\* exists, whether it was there, was asked for or is on one remote.
BranchAfterAdd ==
    \A p \in Procs :
        proc[p].pc \in {"hooks", "exec"} => proc[p].arg \in DOMAIN bookmarks

\* A local branch that ResolveBranch has found, and that is still there, is what jj is
\* asked for: "Use local branch if it exists".  This is not true of a branch that
\* begins with the name of a remote, which NormalizeRevision turns around.
LocalBranchUsed ==
    \A p \in Procs :
        LET c == proc[p]
        IN  /\ At(p, "workspace") /\ ~c.flag /\ c.track = NoRemote
            /\ c.arg \in DOMAIN bookmarks
            => Revision(c) = [branch |-> c.arg, at |-> <<>>]

\* jtp remove --with-branch deletes the branch the worktree was made for, the
\* one its directory under base_dir is named after.
BranchOfRemoved ==
    [][\A b \in DOMAIN bookmarks \ DOMAIN bookmarks' :
         \A p \in Procs : At(p, "unmark") =>
            b = WorktreeName(proc[p].path, MainRoot)]_vars

\* jtp remove deletes the files of the worktree it removes and of no other.
OnlyOwnDirectory ==
    [][\A p \in Procs : At(p, "clear") => content \ content' \subseteq {proc[p].path}]_vars

\* Without --force, jtp remove does not remove a worktree with unrecorded edits:
\* it is refused at the latest when the workspace would be forgotten.  This is not
\* true: RemoveWorktree ignores force and looks at no file.
DirtyKept ==
    [][\A p \in Procs :
         At(p, "forget") /\ proc'[p].pc = "clear" => proc[p].path \notin dirty]_vars

-----------------------------------------------------------------------------
(* What the commands promise of each place a worktree may be at.           *)

Life(path) ==
    CASE \E n \in DOMAIN workspaces : Root(n) = path ->
            IF path \in content THEN "live" ELSE "dangling"
      [] \A n \in DOMAIN workspaces : Root(n) # path ->
            IF Under(content, path) = {} THEN "free" ELSE "leftover"

Places == {ResolveWorktreePath(MainRoot, b) : b \in Branches}

Lives == INSTANCE WorktreeLife WITH life <- [d \in Places |-> Life(d)]

\* Every step of the commands is a step in the life of one place, or none.
LivesSpec == Lives!Spec
=============================================================================
