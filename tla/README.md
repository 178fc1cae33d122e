# A verification project for jtp

jtp (`cmd/wtp`, module `github.com/satococoa/wtp/v2`) manages the worktrees of a
jj repository: it makes a workspace per branch under a base directory, runs
hooks in it, finds it again by name and removes it with its branch. This
directory holds TLA+ modules of that program, TLC configurations that check
them on small instances, and proofs that TLAPS checks for every value of the
constants.

    tlc -workers 2 -config seq.cfg MCLookup.tla
    tlc -workers 2 -config race.cfg MCLookup.tla
    tlc -workers 2 -config shell.cfg MCShellHook.tla
    tlapm WorkspacesProofs.tla

## 1. The system

| component | state | operations | interacts through |
|---|---|---|---|
| jtp add (`cmd/wtp/add.go`) | the local variables of one command | validate, resolve path, mkdir, resolve branch, `jj workspace add`, `jj bookmark create`, hooks, exec, message | jj registry, file system, `.jtp.yaml`, stdout |
| jtp remove (`cmd/wtp/remove.go`) | the worktree found, read once | list, find, check the caller's directory, list again, `jj workspace forget`, `os.RemoveAll`, `jj bookmark delete` | jj registry, file system |
| jj access (`internal/git/repository.go`) | none of its own: every call asks jj | GetWorktrees, RemoveWorktree, ResolveBranch, NormalizeRevision | subprocesses |
| names and paths (`config.go`, `worktree_managed.go`, `builders.go`) | none | branch to path, path to name, managed or not, branch to workspace name | pure functions |
| lookup (`worktree_resolver.go`, `cd.go`, `exec.go`) | none | name to worktree for cd and exec, the hint of add | one listing |
| jtp list (`list.go`) | none | widths of four columns, cuts | terminal width, flag, environment |
| command hooks (`hooks/executor.go`, `io/flusher.go`) | goroutines, a mutex, a channel, two pipes, a buffered writer | run a shell, drain two streams into one writer, wait | subprocess, stdout |
| copy and symlink hooks (`hooks/executor.go`) | files | checks, mkdir, recursive copy, symlink | file system |
| configuration (`config/config.go`) | `.jtp.yaml` or three older names | look for the file, read, apply defaults, validate | file system, every other command |
| jtp init (`init.go`) | the same file | check that none exists, write | file system |
| shell function (`hook.go`, `shell_init.go`) | the directory of the shell, the output it kept | run jtp, move where it says, return its status | jtp, the terminal |
| command executor (`internal/command`) | none | run one command | subprocess |
| completion scripts, errors, entry point | none | fixed text, wiring | - |

What is hard here:

* **No locks.** A command is a sequence of jj subprocesses and system calls, and
  several may run at once, beside the user's own jj commands. What a removal
  read first (path, branch, name) it uses three or four steps later.
* **Half-done commands.** Every step may fail, and nothing is undone.
* **Names.** One worktree has a display name (its first bookmark, else its
  workspace name), a directory name, a path under base_dir and a workspace name
  that is sometimes only the last segment of its branch. Each command resolves
  names over them in listing order.
* **Nesting.** Branch `a` and branch `a/b` have directories one in the other.
* **Streams.** Two goroutines and the main one share a writer that is not safe
  for concurrent use; pipes fill up; a background job holds them open.
* **Paths through links.** Hooks check paths as strings and open them as files.
* **Configuration by name.** A load asks for four file names one after the other
  while an editor renames and writes them, and the callers differ in what they
  do when it fails.
* **A directory that outlives commands.** The shell stands somewhere while
  commands it runs, and ones they run, make and delete directories.
* **Widths.** The room for branch and path reaches zero on narrow terminals.

What makes each component right: add and remove keep the jj registry, the disk
and the bookmarks in step (`RegisteredOnDisk`, `BranchAfterAdd`, `LivesSpec`),
never touch the main worktree or one that jtp does not manage (`MainSafe`,
`UnmanagedSafe`), delete what was found and not what has taken its place
(`ForgetIsAimed`). Lookups agree with each other (`RemoveAgreesWithCd`) and with
what add prints (`HintLeadsThere`). The shell never stands in a directory that jtp has deleted
and arrives where an add has made a worktree (`ShellStands`, `AddLandsThere`). A
command works with a configuration that was in effect (`AddsWhereConfigured`,
`FallbackHasCause`), and `jtp init` takes no file away (`InitTakesNothing`).
Hooks end, keep their output in order, and do all of their work before they are
confirmed. A row of `jtp list` fits the terminal (`RowFits`), its cells are cut
within their columns and keep their ends (`CutsAreSound`), and nothing is cut while
the terminal has more room left than the layout's unused spacing (`CutsAreNeeded`).

## 2. Modules

    Naming ── Workspaces ── Lookup ── ShellHook ── MCShellHook
       │          ├ MCWorkspaces ── MCLookup, MCShellHook
       │          └ WorktreeLife (abstract specification, INSTANCE)
       └─ HookFiles ── MCHookFiles
    ConfigFiles ── MCConfigFiles
    Hooks ── MCHooks
    ListColumns ── MCListColumns

    proofs:  WorkspacesProofs ── LookupProofs ── ShellProofs
             WorkspacesProofs ── LifeProofs
             HookFilesProofs, ConfigProofs, HooksProofs, ListColumnsProofs

**Naming** is the pure part: paths, branches and workspace names are sequences
of segments, `base_dir` is a number of `..` and a rest. `ResolveWorktreePath`
and `WorktreeName` are inverse to each other under base_dir, `IsPathWithin` is
the test on `filepath.Rel`, `WorkspaceName` is what `GitWorktreeAdd` passes to
`jj workspace add --name`. A segment `.` is left out: `jtp add -b .` passes
`validateBranchLikeName` and asks for base_dir itself.

**Workspaces** is the core. The repository is `workspaces` (jj's registry: name
to root and to the workspace whose working-copy commit is the parent),
`bookmarks` (branch to the workspace whose working-copy commit carries it, or
`Elsewhere`) and `remoteMarks`. The disk is `dirs`, `content` (directories that
hold a checkout) and `dirty` (checkouts with edits no jj command has recorded).
`proc` holds the running commands: a place `pc` and the local variables.

| action | code |
|---|---|
| `AddStart` | argument checks, `setupRepoAndConfig`, `resolveWorktreePath` (`NewAdd`) |
| `AddMkdir` | `ensureWorktreeParentDir` |
| `AddResolveLocal`, `AddResolveRemote` | the two jj calls of `ResolveBranch` |
| `AddWorkspace` | `buildWorktreeCommand`, `normalizeCommitish`, `jj workspace add` |
| `AddBookmark` | `createBookmarkForNewWorkspace` |
| `AddHooks`, `AddExec` | the hooks, the command of `--exec`, the message |
| `RemFind` | `GetWorktrees`, `findTargetWorktreeFromList`, the check of the caller's directory |
| `RemRelist`, `RemForget` | `RemoveWorktree` up to `jj workspace forget` |
| `RemSweep`, `RemRmdir` | `os.RemoveAll`, one checkout at a time, then the directories |
| `RemUnmark` | `jj bookmark delete` |
| `Stop` | a failed call or a killed process |
| `UserEdit`, `UserRecord`, `UserMark`, `UserNew`, `UserFetch` | the user and his jj commands |

One `GetWorktrees` is one read: the code runs `jj workspace list` and one `jj
workspace root` per workspace and acts only on the complete result. jj itself
is modelled from how jtp calls it (marked external in `PROJECT.json`): a
workspace is added at a destination that does not exist or is empty and under a
name that is free; forgetting a workspace abandons its working-copy commit, so
the bookmarks and children on it move to its parent.

Every jj call runs in a directory, the caller's or the main worktree, and fails
when that is gone (`InRepo`). A revision is a branch with the remotes named
behind it: `Asked` is what `buildWorktreeCommand` asks for, `NormalizeRevision`
turns `origin/b` into `b@origin` when there is a remote `origin`, and `NewName` is
the workspace name that comes of it (a name with an `@` is the segment
`AtRemote` gives).

For branches that begin with a remote's name the two functions do not fit:
`ResolveBranch` prefers a local branch (`repository.go:357-363`), but a local branch
`origin/x` is then asked for as `x@origin`, and one tracked on `upstream`
as `x@upstream@origin`, which never resolves.

Abstractions: paths are canonical and absolute, except that the caller's
directory may be *spelled* through a link (`real = FALSE`); base_dir is a constant
here (what happens when it changes is in ConfigFiles); what follows `-b <branch>`
is a branch or nothing; listing order is the rank of the names.

**WorktreeLife** is what add and remove promise of one place: free, live,
leftover (jj has forgotten it, files are left), and never dangling (jj knows it,
files are gone). `Workspaces` implements it under the refinement mapping
`life <- [d \in Places |-> Life(d)]` (`LivesSpec`).

**Lookup** adds the reads: what a name means to cd and exec
(`resolveWorktreePathByName`) and to remove, and what add prints at its end. They
are expressions over the states of Workspaces. The `*` of the current worktree is
left out: cd and exec trim it from a name, remove does not.

**ShellHook** is the function that `jtp hook` and `jtp shell-init` print, the same
for bash, zsh and fish, with one terminal and the jtp process it waits for. The
variable `shell` is the place in the function, the command typed, whether stdout
is a terminal, the directory and where to go. `TypeAdd`, `TypeRemove`, `TypeCd`
and `TypeExec` are what the user types, `JtpRuns` and `JtpStops` are steps of
Workspaces, `Chdir` is the function's `cd`, `CdAgain` its second run of `jtp cd`
and `RunExec` the command of `jtp exec`. `TypeRefused` is any command that ends in
an error before it does anything; `Statuses` is how a jtp that has done its last
step may end: a message that cannot be written fails it, for remove even when the
worktree is gone.

**ConfigFiles** is the search for the configuration: `Begin` is a command of a
kind (`add`, `complete`, `init`, `list`, or `lookup` for cd, exec and remove), `Stat` one `os.Stat`
of `ResolveConfigPath` or of `initCommand`, `Read` the `os.ReadFile` and what
`LoadConfig` makes of it, `Decide` what each caller does with the result (add
and completion give up, cd, exec and remove go on with the default `Config`, list with
none: `Fallback`), `InitWrite` the template. Between any two of them the user writes, renames or deletes a file.
`seen`, `changes`, `failed` and `had` record what the properties speak of.

**Hooks** is the concurrent part of one `jtp add`: the main goroutine over the
configured hooks, a goroutine per stream (`CopyRead`, `CopyLock`, `CopyWrite`),
the mutex of `synchronizedWriter`, the channel `done`, the pipes, the shell and
its background jobs, and the writer, which fails for good once it fails.
Output is numbered chunks. Each read, lock and write is a step.

**HookFiles** is the file system part: `LoadConfig` with `ApplyDefaults` and
`Validate`, the checks of a hook, `os.MkdirAll`, `os.Symlink`, and the recursive
copy as a list `todo` of what is left: `CopyDir` puts the entries it lists in
front of the list, `CopyOpen` is `os.Create` (which empties an existing
destination, through any link) and `CopyFill` is `io.Copy` and `os.Chmod`. The
file system maps paths to files, directories and links; `Real` resolves links.
Any step may fail (`IOError`) and the user may remove files in between. What a
failing call has done stays: the directories that `os.MkdirAll` made on its way
(`ParentFails`), the directory whose source cannot be listed (`CopyDir`), the emptied
file whose copy stops (`CopyOpen`). A link
of the repository is given by where it leads, which may be missing, but not the
directory it would be in (`LeadsToDir`): otherwise the directories a hook makes on
the way to its destination could close a circle, and no path on it would lead
anywhere. `Listing` takes the names of a directory in the order of `Order`.

**ListColumns** computes the widths of `jtp list` for one choice of terminal,
names, limits and mode, and the cuts in a row. It counts bytes, as the code does.
`AvailableForPath` is the code's: it reserves three columns after each of three cells
(`list.go:466`) where a row prints one space (`list.go:357`), so that six columns of a
full row stay unused. `CutsAreNeeded` is stated against the printed row and names
those six (`Unprinted`).

## 3. Runs

Every run finishes within two minutes on two workers. `PROJECT.json` names
for every property of a passing run a mutant of a modelled definition (a dropped
guard, a missing floor, a swapped test) under which TLC finds it violated.

| run | instance | shows |
|---|---|---|
| `seq` | one command at a time; branches `a`, `c/a`; `-b a` and `-b origin/a`; remotes origin and upstream with a fetch at any time; the main worktree and `a` as working directory; moved bookmarks; a stop after any step | `RegisteredOnDisk`, `BranchAfterAdd`, `RemoveAgreesWithCd`, `LivesSpec` |
| `race` | two commands at once; branches `c/a` and `c/b`, in one directory and told apart by their last segment; a shell in the main worktree or in `c/a`; stops | `ForgetIsAimed` |
| `shell` | one terminal; nested branches `a`, `a/b`, the second on one remote; the shell in the main worktree, in `a` or in `a/b`; with and without a terminal; failures after any step | `HintLeadsThere`, `ShellStands`, `AddLandsThere`, `CommandsEnd` |
| `pair` | two commands at once; base_dir `..`, so the main worktree lies under base_dir; branches `a` and one called like the main directory; a workspace `/ext` made without jtp that is asked to be removed; working directories in the main worktree, in `a` and in `/ext`; edits, moved bookmarks, stops | `TypeOK`, `MainSafe`, `UnmanagedSafe`, `RemoveAgreesWithCd` |
| `config` | four names, two values of base_dir; the root of the main worktree and a directory below it; commands of every kind; calls that fail; a user who writes, renames and deletes | `TypeOK`, `AddsWhereConfigured`, `FallbackHasCause`, `InitTakesNothing` |
| `list` | ten terminal widths on both sides of every threshold, five limits by flag, three by environment | `TypeOK`, `RowFits`, `CutsAreSound`, `CutsAreNeeded` |
| `hooks` | three hooks, two of them commands; three chunks on a stream whose pipe holds two; a background job; the writer may fail, processes may be killed | `TypeOK`, `OneWriter`, `InOrder`, `ConfirmedIsComplete`, `HooksEnd` |
| `hookfiles` | every list of at most two of fourteen hooks, some refused by `Validate` or leading outside; a link to a directory, an unreadable file, a read-only directory, a directory copied into itself; failures and removals anywhere | `TypeOK`, `CopyIsComplete`, `LinkSharesSource`, `OnlyWorktreeWritten`, `HooksEnd` |
| `v_branch` | branches `a` and `c/a` exist | violates `BranchOfRemoved` |
| `v_name` | branches `b/c` and `c` | violates `MoreSpecificFirst` |
| `v_nested` | branches `a` and `a/b` | violates `OnlyOwnDirectory` |
| `v_hooks` | symlink `d/k`, then copy `d` | violates `OnlyWorktreeWritten` |

**Bounds.** Two branches are enough for every clash of names the code can
produce: equal last segments, one a prefix of the other, one equal to the
directory name of another or of the main worktree; the runs take one such pair
each. Two processes are enough for a check and its use to be separated by a
whole other command, and a process that returns to `idle` starts again, so
sequences of commands are unbounded. `race` has two worktrees that both can be added
and removed, so that between the two listings of a removal and its forget the other
process takes the target away, makes it again or makes the other one. `Fetches`
leaves the remotes of a branch at one or two, the two outcomes `ResolveBranch`
tells apart from none. In `shell` one terminal is all there is to see: the function waits for jtp, and what other
processes do to a directory is in `pair`; nesting is what makes a removal reach
the shell from above, and the branch on a remote takes the add through both
resolutions. (With moved bookmarks as well the graph exceeds the time of a run;
they change none of the three directories the properties speak of.) In `config`
two values suffice, for a load returns one of what it saw, the default or
nothing; `MaxChanges` = 2 is the number beyond which the properties do not speak,
and a rename counts as two. In `hooks`, `PipeSize` = 2
with three chunks is the least at which a writer blocks. In `hookfiles`,
`MaxLength` = 7 is the length of the longest path that a legal hook of the
instance makes, and copying a directory into itself runs into it. `list` takes
each threshold of `list.go` from both sides.

**What fails and is claimed by a doc** is in `PROJECT.json` under findings:

1. `remove --with-branch` deletes the bookmark of the workspace's *display name*.
   `jtp add c/a` of an existing branch names the workspace `a`, so removing it
   deletes the branch `a` and leaves `c/a` (`v_branch`).
2. The first listed worktree that matches a name in *any* way is found: with
   `b/c` and `c`, `jtp cd c` goes to `b/c`, and `jtp remove c`, by the same loop,
   removes it (`v_name`).
3. Removing `a` deletes the files of the nested worktree `a/b`, which stays
   registered (`v_nested`).
4. A copy hook over a directory in which an earlier symlink hook has made a link
   opens the link for writing and empties the file of the main worktree that it
   is about to copy (`v_hooks`).

The preconditions of the passing runs follow from these: `seq` has branches that
are no prefix of each other, because `RegisteredOnDisk` is false for nested ones
(3); `race` has `c/a` and `c/b` and not `c/a` and `a`, because those two may come to
share a workspace name over time, and `ForgetIsAimed` is false for two commands at once
that remove and make them again (the hypothesis `OnePlaceEach` of its theorem);
`hookfiles` has no hook that writes below a link
of an earlier one (4); `config` speaks of at most one change during a load, for
a rename from a later name to an earlier one, behind the back of the scan, makes
jtp add work with the defaults. `RootLookupFails` is FALSE in the runs: when jj
cannot answer where the main worktree is, add takes the current directory for
it and makes worktrees elsewhere. `WorkspacesProofs` and `LookupsAgree` hold either
way.

Seen while modelling, and not kept as runs: `DirtyKept` is false, for `remove` never
looks at uncommitted changes, with or without `--force`, although the repository's
README shows it refusing them; `LocalBranchUsed` is false for local branches `a` and
`origin/a` (`Branches <- AOrOA`, `InitRemote <- OneRemote`), although
`docs/architecture.md` promises that a local branch is used if it exists;
`ShellStands` is false when `$PWD` spells the shell's directory through a link (`Cwds <- CwdLink`); the second run
of `jtp cd`, meant for its message, ends with status 0 and no move when the
worktree has appeared in between; `StreamsEndFirst` is false as soon as the
writer may fail, for the first error ends the hook and leaves the other
goroutine and the command behind; `jtp init` writes into the current directory,
below the repository root too, where no command looks for it; a removal
that stops after the forget leaves branch and files and cannot be repeated, for
the name is no longer found; a worktree that is added while a removal of the same
place still deletes files loses its own, and the hooks of an add whose worktree is
removed meanwhile make its directory again (only the main and the unmanaged worktrees
are claimed to be out of reach of both).

**Fairness.** The safety runs need none. `Hooks` assumes weak fairness of the
main goroutine, of each copying goroutine (the Go scheduler is preemptive and
runs every goroutine that can run) and of each process's writes and exit (the
kernel runs processes, and hook commands are assumed to end: jtp has no
timeout). The mutex needs no strong fairness there: each stream has a finite
output. A blocked write to the terminal is not assumed away by more than that: a
write that neither returns nor fails would keep the hook, in code and model.
`HookFiles` assumes that jtp's own next step is taken. `ShellHook` assumes weak
fairness of `Runs`, what the function and jtp do by themselves: they run
whenever they can, and the jj subprocesses, hooks and commands they wait for are
assumed to end. Nothing is assumed of the user.

## 4. Proofs

Listed under theorems in `PROJECT.json`; `tlapm` checks each from nothing.

**WorkspacesProofs.** For every set of processes, branches, remotes, foreign
workspaces, working directories and any base_dir, under the named assumptions
`NamingAssumption`, `WorkspacesAssumption` and `ForeignAssumption`:

* `TypeCorrect`: `Spec => []TypeOK`. Its content is `RepoOK`: no bookmark and no
  parent points to a working copy that is gone.
* `ProtectedInvariant`: `Spec => [](TypeOK /\ Protected)`.
* `MainIsSafe`, `UnmanagedIsSafe`: `MainSafe` and `UnmanagedSafe` follow.

Neither `MainSafe` nor `UnmanagedSafe` is inductive. A running removal holds a
path and a name read
earlier, so the invariant must say what they may be: `Aimed` states that a
removal's path is managed and is not a prefix of the main worktree, and that the
name it will forget is neither `default` nor an unmanaged workspace. That the
path is no prefix of the main worktree holds because no registered workspace
lies above it, the third part of `Protected`, and that in turn because jj
refuses a destination that is not empty, which every directory above the main
worktree is. For `RemRelist` the proof needs that an unmanaged workspace's root
cannot equal a managed path; for `RemSweep`, that what lies under a managed path
is managed; for `RemRmdir` and `RemSweep`, that the main worktree does not lie
under the path.

**LookupProofs.** `LookupsAgree`: `Spec => []RemoveAgreesWithCd`. The first
worktree that cd finds, when it is not the main one, is managed and matches for
remove; and whatever remove matches, cd matches, so neither finds an earlier
one. It needs that the main worktree is `default` (`MainIsSafe`).

The other two theorems of the module are about names held over several steps, for
any number of commands at once, nested branches or not. Their invariant
`AimInv` (`AimInvHolds`, needing no more than a main worktree that can be looked
up) says that every workspace is at a place of its name (`Settled`: the names jtp
may give for a branch are `NamesOf`, the branch, its last segment, that segment at
a remote), and that a running add goes by the place of its branch and a removal,
between its second listing and its forget, by a name and a place that belong
together. `ForgetAimed`: if, besides, no name stands for two places
(`OnePlaceEach`), the name forgotten is that of the directory deleted, whatever
other commands have removed and made again. `HintLeads`: `HintLeadsThere`, if no
branch is shown under a name of the main worktree or the directory name of another
workspace (`HintsAreOwn`). The hypothesis is what finding 2 is about: it holds for the
branches of `shell`, `pair` and `v_nested` and fails for `b/c` and `c`; a branch
called `root` breaks it too, for `root` is an alias of the main worktree. That two
managed worktrees shown under one name are one worktree is a lemma
(`NameGivesPath`), not a hypothesis.

**LifeProofs.** Under the hypothesis `Solo` (one command at a time; no two of the
main worktree, foreign ones and places of branches inside each other; a main
worktree that can be looked up), for any branches, base_dir, stops, fetches and
steps of the user: `RegisteredSolo`, `BranchSolo`, and
`ImplementsLife`, the refinement `Solo => (Spec => LivesSpec)`. The invariant
`SoloInv` says that every workspace has a checkout of its own at one of the known
spots (`Kept`) and, for each place of a command, what it has read that is still
so (`Held`). Each step of add and remove is then a step in the life of one place
(`OnePlaceStep`) or of none. The parts of `Solo` exclude
the situations of findings 1 and 3 and of the note on `RootLookupFails`.

**ShellProofs.** `ShellStandsAlways`: with `$PWD` spelled as it is (`NoLinks`),
`ShellSpec => []ShellStands`. The invariant adds that a removal the function
waits for has a target that the shell does not stand under (`Standing`) and that
function and process are at corresponding places (`InStep`).
`AddLandsAlways`: `~RootLookupFails => (ShellSpec => AddLandsThere)`, for nested
branches too; `Landing` says how far an add has come and `LandInv` that it stays
so until the function's `cd`. The state of the repository stays well formed and
protected, because the shell's steps are steps of Workspaces or, for `jtp exec`,
edits; for the same reason `HintLeads` carries over to the shell
(`HintLeadsInShell`), the specification that the run `shell` checks it for.

**HooksProofs.** `HooksInv` for any hooks, streams, amounts of output and pipes of
any size: the mutex is held by exactly the goroutine inside the writer
(`MutexHeld`), the main goroutine writes only while the others are off or done
(`QuietOutside`), each result in `done` stands for one goroutine that has ended
(`ResultsCounted`), and what is written, in hand and in the pipe of a stream
follow one another (`Ordered`). The first three hold after a failed write too, so that
`OneWriter` says what is left of the protection then: the streams still exclude each
other, and the main goroutine meets one of them only in its warning. `OneWriter`, `InOrder`, `ConfirmedIsComplete` and
type correctness follow.

**HookFilesProofs.** For any file system, configurations, order of names, limit on
paths and files the user may remove, under `HookFilesAssumption`:

* `FilesTypeCorrect`: `Spec => []TypeOK`, the files stay a tree.
* `LinkShares`: `Spec => []LinkSharesSource`.
* `OnlyWorktree`: `Spec /\ []DestinationClear => OnlyWorktreeWritten`.
* `CopyComplete`: `Spec /\ []CopyApart => []CopyIsComplete`.
* `PlainCopies`: both properties, with no hypothesis on the states, for a project
  without links whose worktrees are beside the main one (`PlainProject`).

The argument has three layers. *Where paths lead.* `Real` follows links from path to
path, and its equation has one solution only where no links form a circle. `Leads`
is the least relation closed under its two steps; it gives a path at most one end
(`LeadsOnce`), and where it gives every path one (`Resolves`), `Real` is it
(`RealLeads`). The file system is `Sound` when it is a tree, every path leads
somewhere, and every link leads to a directory or into one (`LinksLead`). *What a
system call keeps.* Made directories, a written file, a removed file and a new link
keep `Sound` (`MadeSound`, `WrittenSound`, `RemovedSound`, `NewLink`). The new link is
the hard case: it is where a circle could close, and the check of `os.Lstat` and
that of distinct ends (`ensureDistinctPaths`) are what prevents it. *What a hook has
in hand.* `FilesInv` adds to `Sound` that the directories of the beginning are still
there, that every loaded hook is valid, that a link about to be made fits
(`CanLink`) and that a file about to be filled is a file (`Opened`). The case of a
removal by the user showed that a file he may remove can meanwhile be something
else: `UserRemoves` takes files only.

`OnlyWorktree` and `CopyComplete` add `TodoInv`, by which an entry of `todo` is the
same way below source and destination, and `CopyInv`: whatever the source has is
copied already, or is an entry of `todo`, or lies below a directory there. Their two
hypotheses speak of states. `DestinationClear`: no link of the worktree is on the
way to the destination of the hook that works, nor in a destination that a copy
fills. `CopyApart`: no path below the source of a copy leads into its destination,
which holds no link and nothing the user removes. Neither can be dropped: without
the first, finding 4 breaks `OnlyWorktreeWritten`; without the second, a symlink hook
from `d/f` to `d/g` of the new worktree and a copy hook `d` after it leave `d/f`
leading to the content of `g`, and `CopyIsComplete` is false. In the instance
of `hookfiles` `DestinationClear` holds in every state, and `CopyApart` in all but
those of a directory copied into itself, which the run shows never to be
confirmed.

**ConfigProofs.** `ConfigInv` for any values and directories: while at most one
change has been made, the names the scan has passed are what they were, so that
what is in effect from here on was in effect since the command began
(`Scanning`), and a file about to be read gives what was in effect or has changed
(`Reading`). The three properties follow; a load that failed is the only cause for a
fallback, of each kind its own.

**ListColumnsProofs.** Type correctness and the three properties of the layout
for every width, length and limit, by linear arithmetic over the cases of the
code. On a narrow terminal the room left for the branch and for the path is negative;
that the widths are natural numbers is the work of the floors.

**Only model-checked:** the liveness properties (`HooksEnd` of Hooks and
HookFiles, `CommandsEnd`), for liveness under fairness is beyond the prover; that a
directory copied into itself is never confirmed; the violations.

## 5. Not modelled

| part | why |
|---|---|
| completion scripts, candidates and flags | patches of generated text, and a listing of the names that the lookups accept; completion's load of the configuration is in ConfigFiles |
| `jtp add -b .`, the `*` typed after a name | see Naming and Lookup |
| error messages, version, entry point | wording and wiring |
| output and terminal of the command executor | each of its calls is one action where it is made |
| cuts inside a character that is not ASCII | the model counts bytes, as the code does |
| `CreateWorktree`, `ExecuteGitCommand`, the porcelain parsers, `removeCommandWithCommandExecutor`, `SaveConfig` | no caller outside tests |
| test framework | not part of the program |

What could follow: `RegisteredOnDisk` for several commands over places apart,
whose invariant has to follow a removal past the re-creation of its target;
`OnlyWorktree` from a hypothesis on the configuration instead of the states, for
projects in which hooks make links that no later hook goes through.
