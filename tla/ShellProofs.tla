---------------------------- MODULE ShellProofs ----------------------------
(* Theorems about ShellHook: one terminal, any branches (nested ones too), *)
(* any base_dir, commands that fail or are killed anywhere.                *)
EXTENDS ShellHook, LookupProofs

-----------------------------------------------------------------------------
(* The inductive invariants.                                               *)

\* The function and the process it waits for are at corresponding places.
InStep ==
    /\ shell = [at |-> shell.at, line |-> shell.line, arg |-> shell.arg,
                tty |-> shell.tty, cwd |-> shell.cwd, target |-> shell.target]
    /\ shell.at = "jtp" <=> proc[Shell].pc # "idle"
    /\ shell.at = "jtp" =>
          shell.line = (IF proc[Shell].pc \in AddPCs THEN "add" ELSE "remove")
    /\ AtPrompt => shell.line = "none"
    /\ shell.at = "again" => shell.line = "cd"
    /\ shell.at = "exec" => shell.line = "exec"

\* A removal that has a directory to delete has none above d.
Spares(c, d) ==
    c.pc \in {"relist", "forget", "clear"} => ~IsPathWithin(c.path, d)

Standing == shell.cwd \in dirs /\ Spares(proc[Shell], shell.cwd)

\* jtp add has done its work: checkout, workspace and branch.
Registered(path) == \E n \in DOMAIN workspaces : Root(n) = path
Landed(path, b) == path \in content /\ Registered(path) /\ b \in DOMAIN bookmarks

\* How far jtp add has come, by its place.
Landing(c) ==
    /\ c.pc \in AddPCs =>
          c.repo = MainRoot /\ c.path = ResolveWorktreePath(MainRoot, c.arg)
    /\ c.pc = "workspace" /\ ~MakesBookmark(c) => c.arg \in DOMAIN bookmarks
    /\ c.pc = "bookmark" => c.path \in content /\ Registered(c.path)
    /\ c.pc \in {"hooks", "exec"} => Landed(c.path, c.arg)

LandInv ==
    /\ MainRoot \in dirs
    /\ Landing(proc[Shell])
    /\ shell.at = "jtp" /\ shell.line = "add" => shell.arg = proc[Shell].arg
    /\ shell.at = "chdir" /\ shell.line = "add" =>
          /\ shell.target = ResolveWorktreePath(MainRoot, shell.arg)
          /\ Landed(shell.target, shell.arg)

-----------------------------------------------------------------------------
(* What the steps of a command and of the user do.                         *)

LEMMA ShellIsProc == Shell \in Procs
  BY ShellAssumption

\* A command that only goes on keeps all it has read.
LEMMA GoesFields ==
    ASSUME proc \in [Procs -> Commands], NEW p \in Procs, NEW pc, Goto(p, pc)
    PROVE  /\ proc'[p].pc = pc
           /\ proc'[p].arg = proc[p].arg /\ proc'[p].repo = proc[p].repo
           /\ proc'[p].path = proc[p].path /\ proc'[p].name = proc[p].name
           /\ MakesBookmark(proc'[p]) = MakesBookmark(proc[p])
  BY DEF Goto, Commands, MakesBookmark

\* jtp add makes directories, goes on as an add or ends, and keeps its argument.
LEMMA AddGoes ==
    ASSUME TypeOK, NEW p \in Procs, AddStep(p)
    PROVE  /\ dirs \subseteq dirs'
           /\ proc'[p].pc \in AddPCs \cup {"idle"}
           /\ proc[p].pc \in {"idle"} \cup AddPCs
           /\ proc[p].pc = "idle" => proc'[p].pc = "mkdir"
           /\ proc[p].pc # "idle" /\ proc'[p].pc # "idle" => proc'[p].arg = proc[p].arg
           /\ proc[p].pc # "idle" /\ proc'[p].pc = "idle"
                 => proc[p].pc = "exec" \/ Statuses(proc[p].pc) = {"failed"}
  <1> USE DEF diskVars, At, AddPCs
  <1>0. proc \in [Procs -> Commands]
    BY DEF TypeOK, ProcOK
  <1>a. ASSUME Return(p) PROVE proc'[p].pc = "idle"
    BY <1>0, <1>a, IdleType DEF Return
  <1>1. CASE AddStart(p)
    <2>1. PICK b \in Branches, new \in BOOLEAN, cwd \in Cwds :
           \E rev \in (IF new THEN Revisions ELSE {<<>>}),
              repo \in {Root(MainName)} \cup (IF RootLookupFails THEN {cwd.path} ELSE {}) :
             proc' = [proc EXCEPT ![p] = NewAdd(b, new, rev, repo, cwd.path)]
      BY <1>1 DEF AddStart
    <2>2. \A b1, new1, rev1, repo1, dir1 : NewAdd(b1, new1, rev1, repo1, dir1).pc = "mkdir"
      BY DEF NewAdd, Idle
    <2>3. proc'[p].pc = "mkdir"
      BY <1>0, <2>1, <2>2
    <2> QED
      BY <1>1, <2>3 DEF AddStart
  <1>2. CASE AddMkdir(p)
    BY <1>0, <1>2, GoesFields DEF AddMkdir
  <1>3. CASE AddResolveLocal(p)
    BY <1>0, <1>3, <1>a, GoesFields DEF AddResolveLocal, Statuses
  <1>4. CASE AddResolveRemote(p)
    <2> DEFINE r == CHOOSE r \in RemotesWith(proc[p].arg) : TRUE
    <2>1. \/ Return(p)
          \/ proc' = [proc EXCEPT ![p].pc = "workspace", ![p].track = r]
      BY <1>4 DEF AddResolveRemote
    <2> HIDE DEF r
    <2>2. \/ proc'[p].pc = "idle"
          \/ proc'[p].pc = "workspace" /\ proc'[p].arg = proc[p].arg
      BY <1>0, <1>a, <2>1 DEF Commands
    <2> QED
      BY <1>4, <2>2 DEF AddResolveRemote, Statuses
  <1>5. CASE AddWorkspace(p)
    <2> DEFINE name == NewName(proc[p])
    <2>1. \/ Return(p) /\ UNCHANGED dirs
          \/ /\ dirs' = dirs \cup {proc[p].path}
             /\ proc' = [proc EXCEPT ![p].name = name,
                    ![p].pc = IF MakesBookmark(proc[p]) THEN "bookmark" ELSE "hooks"]
      BY <1>5 DEF AddWorkspace
    <2> HIDE DEF name
    <2>2. \/ proc'[p].pc = "idle"
          \/ proc'[p].pc \in {"bookmark", "hooks"} /\ proc'[p].arg = proc[p].arg
      BY <1>0, <1>a, <2>1 DEF Commands
    <2> QED
      BY <1>5, <2>1, <2>2 DEF AddWorkspace, Statuses
  <1>6. CASE AddBookmark(p)
    <2>1. Return(p) \/ Goto(p, "hooks")
      BY <1>6 DEF AddBookmark
    <2> QED
      BY <1>0, <1>6, <1>a, <2>1, GoesFields DEF AddBookmark, Statuses
  <1>7. CASE AddHooks(p)
    BY <1>0, <1>7, GoesFields DEF AddHooks
  <1>8. CASE AddExec(p)
    BY <1>0, <1>8, <1>a DEF AddExec
  <1> QED
    BY <1>1, <1>2, <1>3, <1>4, <1>5, <1>6, <1>7, <1>8 DEF AddStep

\* A removal on its way deletes no directory that is not in its target.
LEMMA RemoveGoes ==
    ASSUME TypeOK, NEW p \in Procs, RemoveStep(p), ~At(p, "idle")
    PROVE  /\ proc'[p].pc \in RemovePCs \cup {"idle"}
           /\ proc[p].pc \in RemovePCs
           /\ \A d \in dirs : Spares(proc[p], d) => d \in dirs' /\ Spares(proc'[p], d)
  <1> USE DEF diskVars, At, RemovePCs
  <1>0. proc \in [Procs -> Commands]
    BY DEF TypeOK, ProcOK
  <1>a. ASSUME Return(p) PROVE proc'[p].pc = "idle"
    BY <1>0, <1>a, IdleType DEF Return
  <1>1. CASE RemRelist(p)
    <2> DEFINE name == First(NamesAt(proc[p].path))
    <2>1. \/ Return(p)
          \/ proc' = [proc EXCEPT ![p].pc = "forget", ![p].name = name]
      BY <1>1 DEF RemRelist
    <2> HIDE DEF name
    <2>2. \/ proc'[p].pc = "idle"
          \/ proc'[p].pc = "forget" /\ proc'[p].path = proc[p].path
      BY <1>0, <1>a, <2>1 DEF Commands
    <2> QED
      BY <1>1, <2>2 DEF RemRelist, Spares
  <1>2. CASE RemForget(p)
    <2>1. Return(p) \/ Goto(p, "clear")
      BY <1>2 DEF RemForget
    <2>2. \/ proc'[p].pc = "idle"
          \/ proc'[p].pc = "clear" /\ proc'[p].path = proc[p].path
      BY <1>0, <1>a, <2>1, GoesFields
    <2> QED
      BY <1>2, <2>2 DEF RemForget, Spares
  <1>3. CASE RemSweep(p)
    BY <1>3 DEF RemSweep, Spares
  <1>4. CASE RemRmdir(p)
    <2>1. proc'[p].pc \in {"idle", "unmark"}
      BY <1>0, <1>4, <1>a, GoesFields DEF RemRmdir
    <2>2. dirs' = {d \in dirs : ~IsPathWithin(proc[p].path, d)}
      BY <1>4 DEF RemRmdir, Under
    <2> QED
      BY <1>4, <2>1, <2>2 DEF RemRmdir, Spares
  <1>5. CASE RemUnmark(p)
    BY <1>5, <1>a DEF RemUnmark, Spares
  <1>6. ~RemFind(p)
    BY DEF RemFind
  <1> QED
    BY <1>1, <1>2, <1>3, <1>4, <1>5, <1>6 DEF RemoveStep

\* The user moves bookmarks and records edits, and leaves all else alone.
LEMMA UserLeaves ==
    ASSUME TypeOK, User
    PROVE  /\ UNCHANGED <<dirs, content, proc>>
           /\ DOMAIN workspaces' = DOMAIN workspaces
           /\ \A n \in DOMAIN workspaces : workspaces'[n].root = Root(n)
           /\ DOMAIN bookmarks' = DOMAIN bookmarks
  <1> USE DEF diskVars
  <1>1. CASE UserEdit \/ UserRecord \/ UserFetch
    BY <1>1 DEF UserEdit, UserRecord, UserFetch, repoVars, Root
  <1>2. CASE UserMark
    BY <1>2 DEF UserMark, Root
  <1>3. CASE UserNew
    <2>1. PICK n \in DOMAIN workspaces :
            /\ bookmarks' = BookmarksWithout(n)
            /\ workspaces' = [WorkspacesLeaving(n, DOMAIN workspaces)
                                EXCEPT ![n].on = Elsewhere]
      BY <1>3 DEF UserNew
    <2> DEFINE W == WorkspacesLeaving(n, DOMAIN workspaces)
    <2>2. /\ W \in [DOMAIN workspaces ->
               [root : Paths, on : (DOMAIN workspaces \ {n}) \cup {Elsewhere}]]
          /\ \A m \in DOMAIN workspaces : W[m].root = Root(m)
      BY LeavingType DEF TypeOK
    <2>3. /\ DOMAIN workspaces' = DOMAIN workspaces
          /\ \A m \in DOMAIN workspaces : workspaces'[m].root = Root(m)
      <3> HIDE DEF W
      <3> QED
        BY <2>1, <2>2 DEF W
    <2>4. DOMAIN bookmarks' = DOMAIN bookmarks
      BY <2>1 DEF BookmarksWithout
    <2> QED
      BY <1>3, <2>3, <2>4 DEF UserNew
  <1> QED
    BY <1>1, <1>2, <1>3 DEF User

-----------------------------------------------------------------------------
(* The shell's steps are steps of Workspaces.                              *)

\* The repository stays well formed and protected under the shell's commands.
LEMMA ShellBasis ==
    ASSUME TypeOK, Protected, [ShellNext]_allVars
    PROVE  TypeOK' /\ Protected'
  <1>1. ASSUME NEW p \in Procs, AddStep(p) PROVE TypeOK' /\ Protected'
    BY <1>1, AddTypeOK, AddProtected DEF Protected, MainSafe
  <1>2. ASSUME NEW p \in Procs, RemoveStep(p) PROVE TypeOK' /\ Protected'
    BY <1>2, RemoveTypeOK, RemoveProtected
  <1>3. ASSUME User \/ \E p \in Procs : Stop(p) PROVE TypeOK' /\ Protected'
    BY <1>3, AroundTypeOK, AroundProtected
  <1>4. ASSUME UNCHANGED vars PROVE TypeOK' /\ Protected'
    BY <1>4, StutterTypeOK, StutterProtected
  <1>5. CASE Types
    <2>1. CASE TypeRefused \/ \E name \in Typed \cup {MainMark} : TypeCd(name) \/ TypeExec(name)
      BY <1>4, <2>1 DEF TypeRefused, TypeCd, TypeExec
    <2>2. CASE TypeRemove
      <3>1. RemoveStep(Shell)
        BY <2>2 DEF TypeRemove, RemoveStep
      <3> QED
        BY <1>2, <3>1, ShellIsProc
    <2>3. CASE \E tty \in BOOLEAN : TypeAdd(tty)
      <3>1. AddStep(Shell)
        BY <2>3 DEF TypeAdd, AddStep
      <3> QED
        BY <1>1, <3>1, ShellIsProc
    <2> QED
      BY <1>5, <2>1, <2>2, <2>3 DEF Types
  <1>6. CASE JtpRuns
    BY <1>1, <1>2, <1>6, ShellIsProc DEF JtpRuns
  <1>7. CASE CdAgain \/ Chdir
    BY <1>4, <1>7 DEF CdAgain, Chdir
  <1>8. CASE RunExec
    <2>1. UNCHANGED <<workspaces, bookmarks, remoteMarks, dirs, content, proc>>
      BY <1>8 DEF RunExec, repoVars
    <2>2. dirty' \subseteq content
      BY <1>8 DEF RunExec, TypeOK, DiskOK
    <2>3. TypeOK'
      BY <2>1, <2>2 DEF TypeOK, RepoOK, DiskOK, ProcOK
    <2>4. Protected'
      BY <2>1 DEF Protected, MainSafe, UnmanagedSafe, Aimed, Root
    <2> QED
      BY <2>3, <2>4
  <1>9. CASE JtpStops
    BY <1>3, <1>9, ShellIsProc DEF JtpStops
  <1>10. CASE Others
    BY <1>3, <1>10 DEF Others
  <1>11. CASE UNCHANGED allVars
    BY <1>4, <1>11 DEF allVars
  <1> QED
    BY <1>5, <1>6, <1>7, <1>8, <1>9, <1>10, <1>11 DEF ShellNext, Runs

\* What jtp's own steps mean for the function that waits for it.
LEMMA JtpInStep ==
    ASSUME TypeOK, InStep, JtpRuns
    PROVE  /\ shell'.cwd = shell.cwd
           /\ InStep'
           /\ shell'.at = "chdir" =>
                 /\ proc[Shell].pc = "exec" /\ AddStep(Shell)
                 /\ shell'.target = proc[Shell].path
                 /\ shell'.line = "add" /\ shell'.arg = shell.arg
           /\ shell'.at = "jtp" => UNCHANGED shell
           /\ shell.line = "add" /\ shell.tty => shell'.at # "done"
  <1> DEFINE c == proc[Shell]
  <1>1. shell.at = "jtp" /\ c.pc # "idle" /\ (AddStep(Shell) \/ RemoveStep(Shell))
    BY DEF JtpRuns, InStep
  <1>2. CASE proc'[Shell].pc # "idle"
    <2>1. UNCHANGED shell
      BY <1>2 DEF JtpRuns
    <2>2. proc'[Shell].pc \in AddPCs <=> c.pc \in AddPCs
      BY <1>1, <1>2, AddGoes, RemoveGoes, ShellIsProc DEF At, AddPCs, RemovePCs
    <2>3. InStep'
      BY <1>1, <1>2, <2>1, <2>2 DEF InStep, AtPrompt
    <2> QED
      BY <1>1, <2>1, <2>3
  <1>3. CASE proc'[Shell].pc = "idle"
    <2>1. PICK status \in Statuses(c.pc) :
            IF status = "done" /\ shell.line = "add" /\ shell.tty
              THEN shell' = [shell EXCEPT !.at = "chdir", !.target = Printed(c)]
              ELSE Ends(status)
      BY <1>3 DEF JtpRuns
    <2>2. status \in {"done", "failed"}
      BY <2>1 DEF Statuses
    <2>3. CASE ~(status = "done" /\ shell.line = "add" /\ shell.tty)
      <3>1. shell' = Prompt(status, shell.cwd)
        BY <2>1, <2>3 DEF Ends
      <3>2. shell'.at = status /\ shell'.cwd = shell.cwd /\ InStep'
        BY <1>3, <2>2, <3>1 DEF Prompt, InStep, AtPrompt
      <3> QED
        BY <2>2, <2>3, <3>2
    <2>4. CASE status = "done" /\ shell.line = "add" /\ shell.tty
      <3>1. shell' = [shell EXCEPT !.at = "chdir", !.target = c.path]
        BY <2>1, <2>4 DEF Printed
      <3>2. /\ shell'.at = "chdir" /\ shell'.target = c.path /\ shell'.line = "add"
            /\ shell'.arg = shell.arg /\ shell'.cwd = shell.cwd
            /\ shell' = [at |-> shell'.at, line |-> shell'.line, arg |-> shell'.arg,
                         tty |-> shell'.tty, cwd |-> shell'.cwd, target |-> shell'.target]
        BY <2>4, <3>1 DEF InStep
      <3>3. InStep'
        BY <1>3, <3>2 DEF InStep, AtPrompt
      <3>4. c.pc \in AddPCs
        BY <1>1, <2>4 DEF InStep
      <3>5. AddStep(Shell)
        BY <1>1, <3>4, RemoveGoes, ShellIsProc DEF At, AddPCs, RemovePCs
      <3>6. c.pc = "exec"
        BY <1>1, <1>3, <2>1, <2>4, <3>5, AddGoes, ShellIsProc
      <3> QED
        BY <3>2, <3>3, <3>5, <3>6
    <2> QED
      BY <2>3, <2>4
  <1> QED
    BY <1>2, <1>3

-----------------------------------------------------------------------------
(* The shell keeps its ground.                                             *)

\* Every directory the user types commands in is spelled as it is.
NoLinks == \A cwd \in Cwds : cwd.real

\* The function's record, field by field.
LEMMA NextInStep ==
    ASSUME NEW at, NEW line, NEW arg, NEW tty, NEW cwd, NEW target,
           shell' = [at |-> at, line |-> line, arg |-> arg, tty |-> tty, cwd |-> cwd,
                     target |-> target],
           at = "jtp" <=> proc'[Shell].pc # "idle",
           at = "jtp" => line = (IF proc'[Shell].pc \in AddPCs THEN "add" ELSE "remove"),
           at \in {"done", "failed"} => line = "none",
           at = "again" => line = "cd",
           at = "exec" => line = "exec"
    PROVE  InStep' /\ shell'.cwd = cwd /\ shell'.at = at
  BY DEF InStep, AtPrompt

LEMMA QuietInStep ==
    ASSUME InStep, UNCHANGED <<proc, shell>>
    PROVE  InStep'
  <1>1. proc' = proc /\ shell' = shell
    OBVIOUS
  <1> QED
    BY <1>1, Zenon DEF InStep, AtPrompt

LEMMA Prompted ==
    ASSUME NEW status \in {"done", "failed"}, NEW dir, shell' = Prompt(status, dir),
           proc'[Shell].pc = "idle"
    PROVE  InStep' /\ shell'.cwd = dir
  BY NextInStep DEF Prompt

\* What the commands typed, and the steps that are not jtp's, do.
LEMMA OtherInStep ==
    ASSUME TypeOK, InStep, [ShellNext]_allVars, ~JtpRuns
    PROVE  /\ InStep'
           /\ dirs \subseteq dirs'
           /\ shell'.cwd = shell.cwd \/ (Chdir /\ shell'.cwd \in dirs)
           /\ proc'[Shell].pc \in {"relist", "forget", "clear"} =>
                 UNCHANGED proc \/ TypeRemove
  <1> USE DEF diskVars, At
  <1>0. proc \in [Procs -> Commands] /\ Shell \in Procs
    BY ShellIsProc DEF TypeOK, ProcOK
  <1>1. CASE UNCHANGED vars /\ TypeRefused
    <2>1. shell' = Prompt("failed", shell.cwd) /\ shell.at # "jtp"
      BY <1>1 DEF TypeRefused, Ends, AtPrompt
    <2>2. UNCHANGED <<dirs, proc>>
      BY <1>1 DEF vars
    <2>3. proc'[Shell].pc = "idle"
      BY <2>1, <2>2 DEF InStep
    <2> QED
      BY <2>1, <2>2, <2>3, Prompted
  <1>2. ASSUME NEW name, TypeCd(name) \/ TypeExec(name)
        PROVE  /\ InStep' /\ UNCHANGED <<dirs, proc>> /\ shell'.cwd = shell.cwd
    <2>0. PICK target :
            \E at \in {"chdir", "again", "exec"}, line \in {"cd", "exec"} :
              /\ shell' = [shell EXCEPT !.line = line, !.arg = name, !.at = at,
                                        !.target = target]
              /\ at = "again" => line = "cd"
              /\ at = "exec" => line = "exec"
      BY <1>2 DEF TypeCd, TypeExec
    <2>1. PICK at \in {"chdir", "again", "exec"}, line \in {"cd", "exec"} :
            /\ shell' = [shell EXCEPT !.line = line, !.arg = name, !.at = at,
                                      !.target = target]
            /\ at = "again" => line = "cd"
            /\ at = "exec" => line = "exec"
      BY <2>0
    <2>2. shell.at # "jtp" /\ UNCHANGED <<dirs, proc>>
      BY <1>2 DEF TypeCd, TypeExec, AtPrompt, vars
    <2>3. shell' = [at |-> at, line |-> line, arg |-> name, tty |-> shell.tty,
                    cwd |-> shell.cwd, target |-> target]
      BY <2>1 DEF InStep
    <2>4. proc'[Shell].pc = "idle"
      BY <2>2 DEF InStep
    <2> QED
      BY <2>1, <2>2, <2>3, <2>4, NextInStep
  <1>3. CASE TypeRemove
    <2>1. PICK name \in Typed, withBranch \in BOOLEAN, cwd \in Cwds :
            proc' = [proc EXCEPT ![Shell] =
                  NewRemove(name, withBranch, First(Matches(name)), cwd.path)]
      BY <1>3 DEF TypeRemove, RemFind
    <2>2. \A target : NewRemove(name, withBranch, target, cwd.path).pc = "relist"
      BY DEF NewRemove, Idle
    <2>3. proc'[Shell].pc = "relist"
      BY <1>0, <2>1, <2>2
    <2>4. shell' = [at |-> "jtp", line |-> "remove", arg |-> proc'[Shell].arg,
                    tty |-> shell.tty, cwd |-> shell.cwd, target |-> shell.target]
      BY <1>3 DEF TypeRemove, InStep
    <2>5. InStep' /\ shell'.cwd = shell.cwd
      BY <2>3, <2>4, NextInStep DEF AddPCs
    <2> QED
      BY <1>3, <2>5 DEF TypeRemove, RemFind
  <1>4. ASSUME NEW tty, TypeAdd(tty)
        PROVE  InStep' /\ dirs \subseteq dirs' /\ shell'.cwd = shell.cwd
               /\ proc'[Shell].pc = "mkdir"
    <2>1. AddStep(Shell) /\ proc[Shell].pc = "idle"
      BY <1>4 DEF TypeAdd, AddStep, AddStart
    <2>2. proc'[Shell].pc = "mkdir" /\ dirs \subseteq dirs'
      BY <1>0, <2>1, AddGoes
    <2>3. shell' = [shell EXCEPT !.at = "jtp", !.line = "add", !.tty = tty,
                                 !.arg = proc'[Shell].arg]
      BY <1>4 DEF TypeAdd
    <2>4. shell' = [at |-> "jtp", line |-> "add", arg |-> proc'[Shell].arg,
                    tty |-> tty, cwd |-> shell.cwd, target |-> shell.target]
      BY <2>3 DEF InStep
    <2>5. InStep' /\ shell'.cwd = shell.cwd
      BY <2>2, <2>4, NextInStep DEF AddPCs
    <2> QED
      BY <2>2, <2>5
  <1>5. CASE CdAgain
    <2>1. PICK status \in {"done", "failed"} : shell' = Prompt(status, shell.cwd)
      BY <1>5 DEF CdAgain, Ends
    <2>2. UNCHANGED <<dirs, proc>> /\ shell.at # "jtp"
      BY <1>5 DEF CdAgain, vars
    <2>3. proc'[Shell].pc = "idle"
      BY <2>2 DEF InStep
    <2> QED
      BY <2>1, <2>2, <2>3, Prompted
  <1>6. CASE RunExec
    <2>1. PICK status \in {"done", "failed"} : shell' = Prompt(status, shell.cwd)
      BY <1>6 DEF RunExec, Ends
    <2>2. UNCHANGED <<dirs, proc>> /\ shell.at # "jtp"
      BY <1>6 DEF RunExec
    <2>3. proc'[Shell].pc = "idle"
      BY <2>2 DEF InStep
    <2> QED
      BY <2>1, <2>2, <2>3, Prompted
  <1>7. CASE Chdir
    <2>1. PICK status \in {"done", "failed"}, dir \in {shell.cwd, shell.target} :
            /\ shell' = Prompt(status, dir)
            /\ dir = shell.cwd \/ dir \in dirs
      BY <1>7 DEF Chdir
    <2>2. UNCHANGED <<dirs, proc>> /\ shell.at # "jtp"
      BY <1>7 DEF Chdir, vars
    <2>3. proc'[Shell].pc = "idle"
      BY <2>2 DEF InStep
    <2>4. InStep' /\ shell'.cwd = dir
      BY <2>1, <2>3, Prompted
    <2> QED
      BY <1>7, <2>1, <2>2, <2>3, <2>4
  <1>8. CASE JtpStops
    <2>1. shell' = Prompt("failed", shell.cwd) /\ proc'[Shell].pc = "idle"
      BY <1>0, <1>8, IdleType DEF JtpStops, Ends, Stop, Return
    <2> QED
      BY <1>8, <2>1, Prompted DEF JtpStops, Stop
  <1>9. CASE Others
    <2>1. UNCHANGED <<dirs, proc, shell>>
      BY <1>9, UserLeaves DEF Others
    <2> QED
      BY <2>1, QuietInStep
  <1>10. CASE UNCHANGED allVars
    BY <1>10, QuietInStep DEF allVars, vars
  <1>11. TypeRefused => UNCHANGED vars
    BY DEF TypeRefused
  <1> QED
    BY <1>1, <1>2, <1>3, <1>4, <1>5, <1>6, <1>7, <1>8, <1>9, <1>10, <1>11
       DEF ShellNext, Types, Runs, vars

\* A removal typed where the shell stands is refused when it would take the ground.
LEMMA TypedSpares ==
    ASSUME NoLinks, TypeOK, InStep, Standing, TypeRemove
    PROVE  Spares(proc'[Shell], shell.cwd)
  <1>0. proc \in [Procs -> Commands] /\ Shell \in Procs
    BY ShellIsProc DEF TypeOK, ProcOK
  <1>1. PICK name \in Typed, withBranch \in BOOLEAN, cwd \in Cwds :
          /\ ~StandsIn(cwd, Root(First(Matches(name))))
          /\ proc' = [proc EXCEPT ![Shell] =
                NewRemove(name, withBranch, First(Matches(name)), cwd.path)]
    BY DEF TypeRemove, RemFind
  <1> DEFINE target == First(Matches(name))
  <1>2. /\ NewRemove(name, withBranch, target, cwd.path).path = Root(target)
        /\ NewRemove(name, withBranch, target, cwd.path).cwd = cwd.path
    BY DEF NewRemove, Idle
  <1> HIDE DEF target
  <1>3. proc'[Shell].path = Root(target) /\ proc'[Shell].cwd = cwd.path
    BY <1>0, <1>1, <1>2 DEF target
  <1>4. cwd.path = shell.cwd
    BY <1>3 DEF TypeRemove, Here
  <1>5. ~IsPathWithin(Root(target), cwd.path)
    BY <1>1 DEF target, StandsIn, NoLinks
  <1> QED
    BY <1>3, <1>4, <1>5 DEF Spares

\* The invariant that keeps a shell on the disk: a removal it waits for has its
\* target elsewhere.
THEOREM StandingHolds == NoLinks =>
                          (ShellSpec => [](TypeOK /\ Protected /\ InStep /\ Standing))
  <1> SUFFICES ASSUME NoLinks
               PROVE  ShellSpec => [](TypeOK /\ Protected /\ InStep /\ Standing)
    OBVIOUS
  <1> DEFINE Inv == TypeOK /\ Protected /\ InStep /\ Standing
  <1>1. ShellInit => Inv
    <2> SUFFICES ASSUME ShellInit PROVE Inv
      OBVIOUS
    <2>1. TypeOK /\ Protected
      BY InitTypeOK, InitProtected DEF ShellInit
    <2>2. proc[Shell] = Idle /\ Idle.pc = "idle"
      BY ShellIsProc, IdleType DEF ShellInit, Init
    <2>3. InStep /\ shell.cwd = MainRoot
      BY <2>2 DEF ShellInit, Prompt, InStep, AtPrompt
    <2>4. MainRoot \in dirs
      <3>1. MainRoot \in Prefixes(MainRoot)
        BY NamingAssumption, SubSeqProperties DEF Prefixes
      <3> QED
        BY <3>1 DEF ShellInit, Init
    <2> QED
      BY <2>1, <2>2, <2>3, <2>4 DEF Standing, Spares
  <1>2. Inv /\ [ShellNext]_allVars => Inv'
    <2> SUFFICES ASSUME Inv, [ShellNext]_allVars PROVE Inv'
      OBVIOUS
    <2>1. TypeOK' /\ Protected'
      BY ShellBasis
    <2>2. CASE JtpRuns
      <3>1. InStep' /\ shell'.cwd = shell.cwd
        BY <2>2, JtpInStep
      <3>2. proc[Shell].pc # "idle"
        BY <2>2 DEF JtpRuns, InStep
      <3>3. shell.cwd \in dirs' /\ Spares(proc'[Shell], shell.cwd)
        <4>1. CASE AddStep(Shell)
          BY <4>1, AddGoes, ShellIsProc DEF Standing, Spares, AddPCs
        <4>2. CASE RemoveStep(Shell)
          BY <3>2, <4>2, RemoveGoes, ShellIsProc DEF Standing, At
        <4> QED
          BY <2>2, <4>1, <4>2 DEF JtpRuns
      <3> QED
        BY <2>1, <3>1, <3>3 DEF Standing, Spares
    <2>3. CASE ~JtpRuns
      <3>1. /\ InStep' /\ dirs \subseteq dirs'
            /\ shell'.cwd = shell.cwd \/ (Chdir /\ shell'.cwd \in dirs)
            /\ proc'[Shell].pc \in {"relist", "forget", "clear"} =>
                  UNCHANGED proc \/ TypeRemove
        BY <2>3, OtherInStep
      <3>2. shell'.cwd \in dirs'
        BY <3>1 DEF Standing
      <3>3. CASE Chdir
        <4>1. proc'[Shell].pc = "idle"
          BY <3>3 DEF Chdir, vars, InStep
        <4> QED
          BY <2>1, <3>1, <3>2, <4>1 DEF Standing, Spares
      <3>4. CASE shell'.cwd = shell.cwd
        <4>1. Spares(proc'[Shell], shell.cwd)
          BY <3>1, TypedSpares DEF Standing, Spares
        <4> QED
          BY <2>1, <3>1, <3>2, <3>4, <4>1 DEF Standing, Spares
      <3> QED
        BY <3>1, <3>3, <3>4
    <2> QED
      BY <2>2, <2>3
  <1> QED
    BY <1>1, <1>2, PTL DEF ShellSpec

\* A terminal in which jtp adds, removes, moves and runs commands never stands in a
\* directory that is gone, provided $PWD spells it without links.
THEOREM ShellStandsAlways == NoLinks => (ShellSpec => []ShellStands)
  <1> SUFFICES ASSUME NoLinks PROVE ShellSpec => []ShellStands
    OBVIOUS
  <1>1. Standing => ShellStands
    BY DEF Standing, ShellStands
  <1> QED
    BY <1>1, StandingHolds, PTL

-----------------------------------------------------------------------------
(* The shell arrives.                                                      *)

\* One step of jtp add.
LEMMA AddLands ==
    ASSUME ~RootLookupFails, TypeOK, Protected, MainRoot \in dirs, NEW p \in Procs,
           AddStep(p), Landing(proc[p])
    PROVE  Landing(proc[p])'
  <1> USE DEF repoVars, diskVars, At
  <1> DEFINE c == proc[p]
  <1>0. /\ proc \in [Procs -> Commands]
        /\ Root(MainName) = MainRoot
    BY DEF TypeOK, ProcOK, Protected, MainSafe, MainName
  <1>c. ASSUME Return(p) PROVE Landing(proc[p])'
    BY <1>0, <1>c, IdleType DEF Return, Landing, AddPCs
  <1>1. CASE AddStart(p)
    <2>1. \A dir : {Root(MainName)} \cup (IF RootLookupFails THEN {dir} ELSE {}) = {MainRoot}
      BY <1>0
    <2>2. PICK b \in Branches, new \in BOOLEAN, cwd \in Cwds :
           \E rev \in (IF new THEN Revisions ELSE {<<>>}),
              repo \in {Root(MainName)} \cup (IF RootLookupFails THEN {cwd.path} ELSE {}) :
             proc' = [proc EXCEPT ![p] = NewAdd(b, new, rev, repo, cwd.path)]
      BY <1>1 DEF AddStart
    <2>3. PICK rev :
             proc' = [proc EXCEPT ![p] = NewAdd(b, new, rev, MainRoot, cwd.path)]
      BY <2>1, <2>2, Zenon
    <2>4. LET d == NewAdd(b, new, rev, MainRoot, cwd.path)
          IN  /\ d.pc = "mkdir" /\ d.repo = MainRoot /\ d.arg = b
              /\ d.path = ResolveWorktreePath(MainRoot, b)
      BY DEF NewAdd, Idle
    <2>5. /\ proc'[p].pc = "mkdir" /\ proc'[p].repo = MainRoot /\ proc'[p].arg = b
          /\ proc'[p].path = ResolveWorktreePath(MainRoot, b)
      BY <1>0, <2>3, <2>4
    <2> QED
      BY <2>5 DEF Landing
  <1>2. CASE AddMkdir(p)
    <2>1. /\ proc'[p].pc \in {"workspace", "local"}
          /\ proc'[p].pc = "workspace" => c.flag
          /\ proc'[p].arg = c.arg /\ proc'[p].repo = c.repo /\ proc'[p].path = c.path
          /\ MakesBookmark(proc'[p]) = MakesBookmark(c)
      BY <1>0, <1>2, GoesFields DEF AddMkdir
    <2> QED
      BY <1>2, <2>1 DEF AddMkdir, Landing, AddPCs, MakesBookmark
  <1>3. CASE AddResolveLocal(p)
    <2>1. CASE Goto(p, IF c.arg \in DOMAIN bookmarks THEN "workspace" ELSE "remote")
      <3>1. /\ proc'[p].pc \in {"workspace", "remote"}
            /\ proc'[p].pc = "workspace" => c.arg \in DOMAIN bookmarks
            /\ proc'[p].arg = c.arg /\ proc'[p].repo = c.repo /\ proc'[p].path = c.path
        BY <1>0, <2>1, GoesFields
      <3> QED
        BY <1>3, <3>1 DEF AddResolveLocal, Landing, AddPCs
    <2> QED
      BY <1>3, <1>c, <2>1 DEF AddResolveLocal
  <1>4. CASE AddResolveRemote(p)
    <2> DEFINE r == CHOOSE r \in RemotesWith(c.arg) : TRUE
    <2>1. CASE /\ Cardinality(RemotesWith(c.arg)) = 1
               /\ proc' = [proc EXCEPT ![p].pc = "workspace", ![p].track = r]
      <3>1. r \in Remotes
        <4>1. RemotesWith(c.arg) # {}
          BY <2>1, FS_EmptySet
        <4> QED
          BY <4>1 DEF RemotesWith
      <3> HIDE DEF r
      <3>2. /\ proc'[p].pc = "workspace" /\ proc'[p].track # NoRemote
            /\ proc'[p].arg = c.arg /\ proc'[p].repo = c.repo /\ proc'[p].path = c.path
        BY <1>0, <2>1, <3>1, WorkspacesAssumption DEF Commands
      <3> QED
        BY <1>4, <3>2 DEF AddResolveRemote, Landing, AddPCs, MakesBookmark
    <2> QED
      BY <1>4, <1>c, <2>1 DEF AddResolveRemote
  <1>5. CASE AddWorkspace(p)
    <2> DEFINE name == NewName(c)
    <2>1. CASE /\ \E on \in Parents(c) :
                    workspaces' = [n \in DOMAIN workspaces \cup {name} |->
                       IF n = name THEN [root |-> c.path, on |-> on] ELSE workspaces[n]]
               /\ content' = content \cup {c.path}
               /\ proc' = [proc EXCEPT ![p].name = name,
                    ![p].pc = IF MakesBookmark(c) THEN "bookmark" ELSE "hooks"]
      <3> HIDE DEF name
      <3>1. PICK on \in Parents(c) :
              workspaces' = [n \in DOMAIN workspaces \cup {name} |->
                 IF n = name THEN [root |-> c.path, on |-> on] ELSE workspaces[n]]
        BY <2>1
      <3>2. name \in DOMAIN workspaces' /\ workspaces'[name].root = c.path
        BY <3>1
      <3>3. \E n \in DOMAIN workspaces' : workspaces'[n].root = c.path
        BY <3>2
      <3>4. /\ proc'[p].pc = IF MakesBookmark(c) THEN "bookmark" ELSE "hooks"
            /\ proc'[p].arg = c.arg
            /\ proc'[p].repo = c.repo /\ proc'[p].path = c.path
        BY <1>0, <2>1 DEF Commands
      <3>5. ~MakesBookmark(c) => c.arg \in DOMAIN bookmarks'
        BY <1>5 DEF AddWorkspace, Landing
      <3>6. c.repo = MainRoot /\ c.path = ResolveWorktreePath(MainRoot, c.arg)
        BY <1>5 DEF AddWorkspace, Landing, AddPCs
      <3>7. proc'[p].path \in content' /\ Registered(proc[p].path)'
        <4>1. proc'[p].path \in content'
          BY <2>1, <3>4
        <4>2. \E n \in DOMAIN workspaces' : workspaces'[n].root = proc'[p].path
          BY <3>3, <3>4
        <4> QED
          BY <4>1, <4>2 DEF Registered, Root
      <3>8. /\ proc'[p].path \in content' /\ Registered(proc[p].path)'
            /\ proc'[p].pc \in {"bookmark", "hooks"}
            /\ proc'[p].pc = "hooks" => proc'[p].arg \in DOMAIN bookmarks'
            /\ proc'[p].repo = MainRoot
            /\ proc'[p].path = ResolveWorktreePath(MainRoot, proc'[p].arg)
        BY <3>4, <3>5, <3>6, <3>7 DEF Registered
      <3> QED
        BY <3>8 DEF Landing, Landed
    <2> QED
      BY <1>5, <1>c, <2>1 DEF AddWorkspace
  <1>6. CASE AddBookmark(p)
    <2>0. c.repo \in dirs
      BY <1>6 DEF AddBookmark, Landing, AddPCs
    <2>1. CASE /\ bookmarks' = [b \in DOMAIN bookmarks \cup {c.arg} |->
                     IF b = c.arg THEN workspaces[c.name].on ELSE bookmarks[b]]
               /\ Goto(p, "hooks")
      <3>1. /\ proc'[p].pc = "hooks" /\ proc'[p].arg = c.arg /\ proc'[p].repo = c.repo
            /\ proc'[p].path = c.path
        BY <1>0, <2>1, GoesFields
      <3>2. c.arg \in DOMAIN bookmarks'
        BY <2>1
      <3> QED
        BY <1>6, <3>1, <3>2 DEF AddBookmark, Landing, Landed, Registered, AddPCs, Root
    <2> QED
      BY <1>6, <1>c, <2>0, <2>1 DEF AddBookmark
  <1>7. CASE AddHooks(p)
    <2>1. /\ proc'[p].pc = "exec" /\ proc'[p].arg = c.arg /\ proc'[p].repo = c.repo
          /\ proc'[p].path = c.path
      BY <1>0, <1>7, GoesFields DEF AddHooks
    <2>2. content \subseteq content'
      BY <1>7 DEF AddHooks
    <2> QED
      BY <1>7, <2>1, <2>2 DEF AddHooks, Landing, Landed, Registered, AddPCs, Root
  <1>8. CASE AddExec(p)
    BY <1>8, <1>c DEF AddExec
  <1> QED
    BY <1>1, <1>2, <1>3, <1>4, <1>5, <1>6, <1>7, <1>8 DEF AddStep

\* The last step of jtp add takes nothing away.
LEMMA ExecLeaves ==
    ASSUME TypeOK, NEW p \in Procs, AddStep(p), At(p, "exec")
    PROVE  UNCHANGED <<workspaces, bookmarks, content>>
  BY DEF AddStep, AddStart, AddMkdir, AddResolveLocal, AddResolveRemote, AddWorkspace,
         AddBookmark, AddHooks, AddExec, At, repoVars

\* What the commands typed, and the steps that are not jtp's, do to a landing.
LEMMA OtherLands ==
    ASSUME ~RootLookupFails, TypeOK, Protected, InStep, LandInv, [ShellNext]_allVars,
           ~JtpRuns
    PROVE  LandInv'
  <1> USE DEF diskVars, At
  <1>0. proc \in [Procs -> Commands] /\ Shell \in Procs
    BY ShellIsProc DEF TypeOK, ProcOK
  <1>1. MainRoot \in dirs'
    BY OtherInStep DEF LandInv
  <1>2. ASSUME proc'[Shell].pc \notin AddPCs,
               shell'.at \notin {"jtp", "chdir"} \/ shell'.line # "add"
        PROVE  LandInv'
    BY <1>1, <1>2 DEF LandInv, Landing, AddPCs
  <1>3. CASE TypeRefused \/ CdAgain \/ RunExec \/ Chdir \/ JtpStops
    <2>1. \E status, dir : status \in {"done", "failed"} /\ shell' = Prompt(status, dir)
      BY <1>3 DEF TypeRefused, CdAgain, RunExec, Chdir, JtpStops, Ends
    <2>2. shell'.at \in {"done", "failed"}
      BY <2>1 DEF Prompt
    <2>3. proc'[Shell].pc = "idle"
      BY <2>2, OtherInStep DEF InStep
    <2> QED
      BY <1>2, <2>2, <2>3 DEF AddPCs
  <1>4. ASSUME NEW name, TypeCd(name) \/ TypeExec(name) PROVE LandInv'
    <2>0. PICK target :
            \E at \in {"chdir", "again", "exec"}, line \in {"cd", "exec"} :
              shell' = [shell EXCEPT !.line = line, !.arg = name, !.at = at,
                                     !.target = target]
      BY <1>4 DEF TypeCd, TypeExec
    <2>1. PICK at \in {"chdir", "again", "exec"}, line \in {"cd", "exec"} :
            shell' = [shell EXCEPT !.line = line, !.arg = name, !.at = at,
                                   !.target = target]
      BY <2>0
    <2>2. shell' = [at |-> at, line |-> line, arg |-> name, tty |-> shell.tty,
                    cwd |-> shell.cwd, target |-> target]
      BY <2>1 DEF InStep
    <2>3. proc'[Shell].pc = "idle"
      BY <1>4 DEF TypeCd, TypeExec, vars, InStep, AtPrompt
    <2> QED
      BY <1>2, <2>2, <2>3 DEF AddPCs
  <1>5. CASE TypeRemove
    <2>1. PICK name \in Typed, withBranch \in BOOLEAN, cwd \in Cwds :
            proc' = [proc EXCEPT ![Shell] =
                  NewRemove(name, withBranch, First(Matches(name)), cwd.path)]
      BY <1>5 DEF TypeRemove, RemFind
    <2>2. \A target : NewRemove(name, withBranch, target, cwd.path).pc = "relist"
      BY DEF NewRemove, Idle
    <2>3. proc'[Shell].pc = "relist"
      BY <1>0, <2>1, <2>2
    <2>4. shell'.line = "remove"
      BY <1>5 DEF TypeRemove, InStep
    <2> QED
      BY <1>2, <2>3, <2>4 DEF AddPCs
  <1>6. ASSUME NEW tty, TypeAdd(tty) PROVE LandInv'
    <2>1. AddStep(Shell)
      BY <1>6 DEF TypeAdd, AddStep
    <2>2. Landing(proc[Shell])'
      BY <1>0, <2>1, AddLands DEF LandInv
    <2>3. shell' = [shell EXCEPT !.at = "jtp", !.line = "add", !.tty = tty,
                                 !.arg = proc'[Shell].arg]
      BY <1>6 DEF TypeAdd
    <2>4. shell' = [at |-> "jtp", line |-> "add", arg |-> proc'[Shell].arg,
                    tty |-> tty, cwd |-> shell.cwd, target |-> shell.target]
      BY <2>3 DEF InStep
    <2>5. shell'.at = "jtp" /\ shell'.arg = proc'[Shell].arg
      BY <2>4
    <2> QED
      BY <1>1, <2>2, <2>5 DEF LandInv
  <1>7. ASSUME UNCHANGED <<content, proc, shell>>,
               DOMAIN workspaces' = DOMAIN workspaces,
               \A n \in DOMAIN workspaces : workspaces'[n].root = Root(n),
               DOMAIN bookmarks' = DOMAIN bookmarks
        PROVE  LandInv'
    BY <1>1, <1>7 DEF LandInv, Landing, Landed, Registered, Root, MakesBookmark
  <1>8. CASE Others
    BY <1>7, <1>8, UserLeaves DEF Others
  <1>9. CASE UNCHANGED allVars
    BY <1>7, <1>9 DEF allVars, vars, Root
  <1> QED
    BY <1>3, <1>4, <1>5, <1>6, <1>8, <1>9 DEF ShellNext, Types, Runs

\* One step of jtp, and the function when it has ended.
LEMMA JtpLands ==
    ASSUME ~RootLookupFails, TypeOK, Protected, InStep, LandInv, JtpRuns
    PROVE  LandInv'
  <1> DEFINE c == proc[Shell]
  <1>0. proc \in [Procs -> Commands] /\ Shell \in Procs
    BY ShellIsProc DEF TypeOK, ProcOK
  <1>1. c.pc # "idle" /\ shell.at = "jtp" /\ InStep'
    BY JtpInStep DEF JtpRuns, InStep
  <1>2. MainRoot \in dirs' /\ Landing(proc[Shell])'
    <2>1. CASE AddStep(Shell)
      BY <1>0, <2>1, AddLands, AddGoes DEF LandInv
    <2>2. CASE RemoveStep(Shell)
      <3>1. Spares(c, MainRoot)
        BY <1>0 DEF Protected, Aimed, Spares
      <3>2. proc'[Shell].pc \notin AddPCs /\ MainRoot \in dirs'
        BY <1>0, <1>1, <2>2, <3>1, RemoveGoes DEF LandInv, At, AddPCs, RemovePCs
      <3> QED
        BY <3>2 DEF Landing, AddPCs
    <2> QED
      BY <2>1, <2>2 DEF JtpRuns
  <1>3. shell'.at = "jtp" /\ shell'.line = "add" => shell'.arg = proc'[Shell].arg
    <2> SUFFICES ASSUME shell'.at = "jtp", shell'.line = "add"
                 PROVE  shell'.arg = proc'[Shell].arg
      OBVIOUS
    <2>1. UNCHANGED shell
      BY JtpInStep
    <2>2. c.pc \in AddPCs /\ proc'[Shell].pc # "idle"
      BY <1>1, <2>1 DEF InStep
    <2>3. AddStep(Shell)
      BY <1>0, <1>1, <2>2, RemoveGoes DEF JtpRuns, At, AddPCs, RemovePCs
    <2>4. proc'[Shell].arg = c.arg
      BY <1>0, <1>1, <2>2, <2>3, AddGoes
    <2> QED
      BY <1>1, <2>1, <2>4 DEF LandInv
  <1>4. shell'.at = "chdir" => /\ shell'.target = ResolveWorktreePath(MainRoot, shell'.arg)
                               /\ Landed(shell.target, shell.arg)'
    <2> SUFFICES ASSUME shell'.at = "chdir"
                 PROVE  /\ shell'.target = ResolveWorktreePath(MainRoot, shell'.arg)
                        /\ Landed(shell.target, shell.arg)'
      OBVIOUS
    <2>1. /\ c.pc = "exec" /\ AddStep(Shell) /\ shell'.target = c.path
          /\ shell'.arg = shell.arg
      BY JtpInStep
    <2>2. shell.line = "add" /\ shell.arg = c.arg
      BY <1>1, <2>1 DEF InStep, LandInv, AddPCs
    <2>3. c.path = ResolveWorktreePath(MainRoot, c.arg) /\ Landed(c.path, c.arg)
      BY <2>1 DEF LandInv, Landing, AddPCs
    <2>4. UNCHANGED <<workspaces, bookmarks, content>>
      BY <1>0, <2>1, ExecLeaves DEF At
    <2> QED
      BY <2>1, <2>2, <2>3, <2>4 DEF Landed, Registered, Root
  <1> QED
    BY <1>2, <1>3, <1>4 DEF LandInv

\* While the main worktree can be looked up, an interactive jtp add that ends well
\* puts the shell into the worktree of the branch it was given, and the worktree
\* is all there, also when branches are nested.
THEOREM AddLandsAlways == ~RootLookupFails => (ShellSpec => AddLandsThere)
  <1> SUFFICES ASSUME ~RootLookupFails PROVE ShellSpec => AddLandsThere
    OBVIOUS
  <1> DEFINE Inv == TypeOK /\ Protected /\ InStep /\ LandInv
             Arrives == shell.line = "add" /\ shell.tty /\ shell'.at = "done" =>
                           /\ shell'.cwd = ResolveWorktreePath(MainRoot, shell.arg)
                           /\ shell'.cwd \in content
                           /\ \E n \in DOMAIN workspaces : Root(n) = shell'.cwd
                           /\ shell.arg \in DOMAIN bookmarks
  <1>1. ShellInit => Inv
    <2> SUFFICES ASSUME ShellInit PROVE Inv
      OBVIOUS
    <2>1. TypeOK /\ Protected
      BY InitTypeOK, InitProtected DEF ShellInit
    <2>2. proc[Shell] = Idle /\ Idle.pc = "idle"
      BY ShellIsProc, IdleType DEF ShellInit, Init
    <2>3. InStep /\ shell.at = "done"
      BY <2>2 DEF ShellInit, Prompt, InStep, AtPrompt
    <2>4. MainRoot \in dirs
      <3>1. MainRoot \in Prefixes(MainRoot)
        BY NamingAssumption, SubSeqProperties DEF Prefixes
      <3> QED
        BY <3>1 DEF ShellInit, Init
    <2> QED
      BY <2>1, <2>2, <2>3, <2>4 DEF LandInv, Landing, AddPCs
  <1>2. Inv /\ [ShellNext]_allVars => Inv'
    <2> SUFFICES ASSUME Inv, [ShellNext]_allVars PROVE Inv'
      OBVIOUS
    <2>1. TypeOK' /\ Protected'
      BY ShellBasis
    <2>2. CASE JtpRuns
      BY <2>1, <2>2, JtpInStep, JtpLands
    <2>3. CASE ~JtpRuns
      BY <2>1, <2>3, OtherInStep, OtherLands
    <2> QED
      BY <2>2, <2>3
  <1>3. Inv /\ [ShellNext]_allVars => [Arrives]_allVars
    <2> SUFFICES ASSUME Inv, ShellNext, shell.line = "add", shell.tty, shell'.at = "done"
                 PROVE  /\ shell'.cwd = ResolveWorktreePath(MainRoot, shell.arg)
                        /\ shell'.cwd \in content
                        /\ \E n \in DOMAIN workspaces : Root(n) = shell'.cwd
                        /\ shell.arg \in DOMAIN bookmarks
      OBVIOUS
    <2>1. ~AtPrompt /\ shell.at \notin {"again", "exec"}
      BY DEF InStep
    <2>2. ~JtpRuns
      BY JtpInStep
    <2>3. ~Types /\ ~CdAgain /\ ~RunExec
      BY <2>1 DEF Types, TypeRefused, TypeRemove, TypeAdd, TypeCd, TypeExec, CdAgain,
                  RunExec
    <2>4. ~JtpStops
      BY DEF JtpStops, Ends, Prompt
    <2>5. ~Others
      BY <2>1 DEF Others, AtPrompt
    <2>6. Chdir
      BY <2>2, <2>3, <2>4, <2>5 DEF ShellNext, Runs
    <2>7. shell.at = "chdir" /\ shell'.cwd = shell.target
      BY <2>6 DEF Chdir, Prompt
    <2> QED
      BY <2>7 DEF LandInv, Landed, Registered
  <1> QED
    BY <1>1, <1>2, <1>3, PTL DEF ShellSpec, AddLandsThere

-----------------------------------------------------------------------------
(* What jtp add prints.                                                    *)

\* The commands of the shell leave workspaces and commands where their names say.
LEMMA ShellAim ==
    ASSUME ~RootLookupFails, TypeOK, Protected, AimInv, [ShellNext]_allVars
    PROVE  AimInv'
  <1>1. CASE [Next]_vars
    BY <1>1, NextAim
  <1>2. CASE RunExec
    <2>1. UNCHANGED <<workspaces, proc>>
      BY <1>2 DEF RunExec, repoVars
    <2> QED
      BY <2>1, SettledKept DEF Root
  <1>3. CASE ~RunExec
    <2> SUFFICES [Next]_vars
      BY <1>1
    <2>1. CASE \E tty \in BOOLEAN : TypeAdd(tty)
      <3>1. AddStep(Shell)
        BY <2>1 DEF TypeAdd, AddStep
      <3> QED
        BY <3>1, ShellIsProc DEF Next
    <2>2. CASE TypeRemove
      <3>1. RemoveStep(Shell)
        BY <2>2 DEF TypeRemove, RemoveStep
      <3> QED
        BY <3>1, ShellIsProc DEF Next
    <2>3. CASE TypeRefused \/ \E name \in Typed \cup {MainMark} : TypeCd(name) \/ TypeExec(name)
      BY <2>3 DEF TypeRefused, TypeCd, TypeExec
    <2>4. CASE JtpRuns \/ JtpStops \/ Others
      BY <2>4, ShellIsProc DEF JtpRuns, JtpStops, Others, Next
    <2>5. CASE CdAgain \/ Chdir \/ UNCHANGED allVars
      BY <2>5 DEF CdAgain, Chdir, allVars
    <2> QED
      BY <1>3, <2>1, <2>2, <2>3, <2>4, <2>5 DEF ShellNext, Runs, Types
  <1> QED
    BY <1>2, <1>3

\* In the shell the name that jtp add prints leads to its worktree too, between
\* removals, edits in worktrees and whatever the user does outside.
THEOREM HintLeadsInShell ==
    ~RootLookupFails /\ HintsAreOwn => (ShellSpec => []HintLeadsThere)
  <1> SUFFICES ASSUME ~RootLookupFails, HintsAreOwn PROVE ShellSpec => []HintLeadsThere
    OBVIOUS
  <1> DEFINE Inv == TypeOK /\ Protected /\ AimInv
  <1>1. ShellInit => Inv
    BY InitTypeOK, InitProtected, InitAim DEF ShellInit
  <1>2. Inv /\ [ShellNext]_allVars => Inv'
    BY ShellBasis, ShellAim
  <1>3. Inv => HintLeadsThere
    BY HintOfAim
  <1> QED
    BY <1>1, <1>2, <1>3, PTL DEF ShellSpec
=============================================================================
