----------------------------- MODULE LifeProofs -----------------------------
(* Commands run one at a time, over worktrees that do not nest: the        *)
(* registry, the disk and the bookmarks stay in step, and jtp implements   *)
(* WorktreeLife, for any branches, any base_dir and commands that stop     *)
(* anywhere.                                                               *)
EXTENDS WorkspacesProofs

USE DEF Paths

\* Where worktrees are and may come to be.
Spots == {MainRoot} \cup Range(Foreign) \cup Places

OneAtATime == \A p, q \in Procs : p = q

\* No worktree lies in another, and no branch is for the place of a worktree that
\* jtp did not make.
PlacesApart ==
    /\ \A d, e \in Spots : IsPathWithin(d, e) => d = e
    /\ \A m, n \in DOMAIN Foreign : Foreign[m] = Foreign[n] => m = n
    /\ Places \cap ({MainRoot} \cup Range(Foreign)) = {}

Solo == OneAtATime /\ PlacesApart /\ ~RootLookupFails

\* Every workspace has a checkout of its own.
Kept ==
    /\ MainRoot \in dirs
    /\ \A n \in DOMAIN workspaces : Root(n) \in Spots \cap content
    /\ \A m, n \in DOMAIN workspaces : Root(m) = Root(n) => m = n

\* What a running command has read is still so.
Held(c) ==
    /\ c.pc \in AddPCs =>
          c.repo = MainRoot /\ c.path = ResolveWorktreePath(MainRoot, c.arg)
    /\ c.pc \in {"bookmark", "hooks", "exec", "forget"} =>
          c.name \in DOMAIN workspaces /\ Root(c.name) = c.path
    /\ c.pc = "workspace" /\ ~MakesBookmark(c) => c.arg \in DOMAIN bookmarks
    /\ c.pc \in {"hooks", "exec"} => c.arg \in DOMAIN bookmarks
    /\ c.pc \in RemovePCs => c.path \in Spots
    /\ c.pc = "clear" => \A n \in DOMAIN workspaces : Root(n) # c.path

SoloInv == Kept /\ \A p \in Procs : Held(proc[p])

-----------------------------------------------------------------------------
(* Paths.                                                                  *)

\* Two directories that hold a third lie one in the other.
LEMMA Comparable ==
    ASSUME NEW p \in Paths, NEW q \in Paths, NEW d \in Paths,
           IsPathWithin(p, d), IsPathWithin(q, d)
    PROVE  IsPathWithin(p, q) \/ IsPathWithin(q, p)
  <1>1. Len(p) <= Len(d) /\ Len(q) <= Len(d)
    BY DEF IsPathWithin, IsPrefix
  <1>2. \A i \in 1..Len(p) : p[i] = d[i]
    BY <1>1, SMTT(30) DEF IsPathWithin, IsPrefix
  <1>3. \A i \in 1..Len(q) : q[i] = d[i]
    BY <1>1, SMTT(30) DEF IsPathWithin, IsPrefix
  <1>4. CASE Len(p) <= Len(q)
    <2>1. \A i \in 1..Len(p) : p[i] = q[i]
      BY <1>2, <1>3, <1>4
    <2> QED
      BY <1>4, <2>1, SMTT(30) DEF IsPathWithin, IsPrefix
  <1>5. CASE Len(q) <= Len(p)
    <2>1. \A i \in 1..Len(q) : q[i] = p[i]
      BY <1>2, <1>3, <1>5
    <2> QED
      BY <1>5, <2>1, SMTT(30) DEF IsPathWithin, IsPrefix
  <1> QED
    BY <1>4, <1>5

\* Spots are paths, and a branch has its place among them.
LEMMA SpotsType ==
    /\ Spots \subseteq Paths
    /\ \A b \in Branches : ResolveWorktreePath(MainRoot, b) \in Places
    /\ Places \subseteq Spots
  <1>1. \A b \in Branches : b \in Paths /\ MainRoot \in Paths
    BY WorkspacesAssumption, NamingAssumption
  <1>2. Places \subseteq Paths
    BY <1>1, ResolveType DEF Places
  <1>3. Range(Foreign) \subseteq Paths
    BY WorkspacesAssumption DEF Range
  <1> QED
    BY <1>2, <1>3, NamingAssumption DEF Spots, Places

-----------------------------------------------------------------------------
(* The inductive invariant.                                                *)

\* The repository as jtp finds it.
LEMMA InitSolo == Solo /\ Init => SoloInv
  <1> SUFFICES ASSUME Solo, Init PROVE SoloInv
    OBVIOUS
  <1>1. \A n \in DOMAIN Foreign : n # DefaultName
    BY WorkspacesAssumption
  <1>2. Root(DefaultName) = MainRoot /\ \A n \in DOMAIN Foreign : Root(n) = Foreign[n]
    BY <1>1 DEF Init, Root
  <1>3. DOMAIN workspaces = DOMAIN Foreign \cup {DefaultName}
    BY DEF Init
  <1>4. \A n \in DOMAIN Foreign : Foreign[n] \in Range(Foreign) /\ Foreign[n] # MainRoot
    BY ForeignAssumption, NamingAssumption, WithinSelf DEF Range
  <1>5. MainRoot \in dirs
    <2>1. MainRoot \in Prefixes(MainRoot)
      BY NamingAssumption, SubSeqProperties DEF Prefixes
    <2> QED
      BY <2>1 DEF Init
  <1>6. \A n \in DOMAIN workspaces : Root(n) \in Spots \cap content
    BY <1>2, <1>3, <1>4 DEF Init, Spots
  <1>7. \A m, n \in DOMAIN workspaces : Root(m) = Root(n) => m = n
    BY <1>2, <1>3, <1>4 DEF Solo, PlacesApart
  <1>8. \A p \in Procs : Held(proc[p])
    BY IdleType DEF Init, Held, AddPCs, RemovePCs
  <1> QED
    BY <1>5, <1>6, <1>7, <1>8 DEF SoloInv, Kept

\* A command that only goes on keeps all it has read.
LEMMA GotoFields ==
    ASSUME proc \in [Procs -> Commands], NEW p \in Procs, NEW pc, Goto(p, pc)
    PROVE  /\ proc'[p].pc = pc
           /\ proc'[p].arg = proc[p].arg /\ proc'[p].repo = proc[p].repo
           /\ proc'[p].path = proc[p].path /\ proc'[p].name = proc[p].name
           /\ MakesBookmark(proc'[p]) = MakesBookmark(proc[p])
  BY DEF Goto, Commands, MakesBookmark

\* One step of jtp add.
LEMMA AddSolo ==
    ASSUME Solo, TypeOK, Protected, SoloInv, NEW p \in Procs, AddStep(p)
    PROVE  SoloInv'
  <1> USE DEF repoVars, diskVars, At
  <1> DEFINE c == proc[p]
  <1>0. /\ proc \in [Procs -> Commands] /\ RepoOK /\ Kept /\ Held(c)
        /\ c.pc \in AddPCs => c.arg \in Branches
        /\ Root(MainName) = MainRoot
    BY DEF TypeOK, ProcOK, SoloInv, Protected, MainSafe, MainName
  <1>a. ASSUME Kept', Held(proc[p])' PROVE SoloInv'
    BY <1>a DEF Solo, OneAtATime, SoloInv
  <1>b. ASSUME UNCHANGED workspaces, content \subseteq content', dirs \subseteq dirs'
        PROVE  Kept'
    BY <1>0, <1>b DEF Kept, Root
  <1>c. ASSUME Return(p) PROVE Held(proc[p])'
    BY <1>0, <1>c, IdleType DEF Return, Held, AddPCs, RemovePCs
  <1>1. CASE AddStart(p)
    <2>1. PICK b \in Branches, new \in BOOLEAN, cwd \in Cwds :
           \E rev \in (IF new THEN Revisions ELSE {<<>>}) :
             proc' = [proc EXCEPT ![p] = NewAdd(b, new, rev, MainRoot, cwd.path)]
      <3>1. \A dir : {Root(MainName)} \cup (IF RootLookupFails THEN {dir} ELSE {}) = {MainRoot}
        BY <1>0 DEF Solo
      <3>2. PICK b \in Branches, new \in BOOLEAN, cwd \in Cwds :
             \E rev \in (IF new THEN Revisions ELSE {<<>>}),
                repo \in {Root(MainName)} \cup (IF RootLookupFails THEN {cwd.path} ELSE {}) :
               proc' = [proc EXCEPT ![p] = NewAdd(b, new, rev, repo, cwd.path)]
        BY <1>1 DEF AddStart
      <3>3. \E rev \in (IF new THEN Revisions ELSE {<<>>}) :
               proc' = [proc EXCEPT ![p] = NewAdd(b, new, rev, MainRoot, cwd.path)]
        BY <3>1, <3>2, Zenon
      <3> QED
        BY <3>3
    <2>2. \A rev : LET d == NewAdd(b, new, rev, MainRoot, cwd.path)
                   IN  /\ d.pc = "mkdir" /\ d.repo = MainRoot /\ d.arg = b
                       /\ d.path = ResolveWorktreePath(MainRoot, b)
      BY DEF NewAdd, Idle
    <2>3. /\ proc'[p].pc = "mkdir" /\ proc'[p].repo = MainRoot /\ proc'[p].arg = b
          /\ proc'[p].path = ResolveWorktreePath(MainRoot, b)
      BY <1>0, <2>1, <2>2
    <2>4. Held(proc[p])'
      BY <2>3 DEF Held, AddPCs, RemovePCs
    <2> QED
      BY <1>1, <1>a, <1>b, <2>4 DEF AddStart
  <1>2. CASE AddMkdir(p)
    <2>1. /\ proc'[p].pc \in {"workspace", "local"}
          /\ proc'[p].pc = "workspace" => c.flag
          /\ proc'[p].arg = c.arg /\ proc'[p].repo = c.repo /\ proc'[p].path = c.path
          /\ MakesBookmark(proc'[p]) = MakesBookmark(c)
      BY <1>0, <1>2, GotoFields DEF AddMkdir
    <2>2. Held(proc[p])'
      BY <1>0, <1>2, <2>1 DEF AddMkdir, Held, AddPCs, RemovePCs, MakesBookmark
    <2> QED
      BY <1>2, <1>a, <1>b, <2>2 DEF AddMkdir
  <1>3. CASE AddResolveLocal(p)
    <2>1. CASE Return(p)
      BY <1>3, <1>a, <1>b, <1>c, <2>1 DEF AddResolveLocal
    <2>2. CASE Goto(p, IF c.arg \in DOMAIN bookmarks THEN "workspace" ELSE "remote")
      <3>1. /\ proc'[p].pc \in {"workspace", "remote"}
            /\ proc'[p].pc = "workspace" => c.arg \in DOMAIN bookmarks
            /\ proc'[p].arg = c.arg /\ proc'[p].repo = c.repo /\ proc'[p].path = c.path
        BY <1>0, <2>2, GotoFields
      <3>2. Held(proc[p])'
        BY <1>0, <1>3, <3>1 DEF AddResolveLocal, Held, AddPCs, RemovePCs
      <3> QED
        BY <1>3, <1>a, <1>b, <3>2 DEF AddResolveLocal
    <2> QED
      BY <1>3, <2>1, <2>2 DEF AddResolveLocal
  <1>4. CASE AddResolveRemote(p)
    <2> DEFINE r == CHOOSE r \in RemotesWith(c.arg) : TRUE
    <2>1. CASE Return(p)
      BY <1>4, <1>a, <1>b, <1>c, <2>1 DEF AddResolveRemote
    <2>2. CASE /\ Cardinality(RemotesWith(c.arg)) = 1
               /\ proc' = [proc EXCEPT ![p].pc = "workspace", ![p].track = r]
      <3>1. r \in Remotes
        <4>1. RemotesWith(c.arg) # {}
          BY <2>2, FS_EmptySet
        <4> QED
          BY <4>1 DEF RemotesWith
      <3> HIDE DEF r
      <3>2. /\ proc'[p].pc = "workspace" /\ proc'[p].track # NoRemote
            /\ proc'[p].arg = c.arg /\ proc'[p].repo = c.repo /\ proc'[p].path = c.path
        BY <1>0, <2>2, <3>1, WorkspacesAssumption DEF Commands
      <3>3. Held(proc[p])'
        BY <1>0, <1>4, <3>2 DEF AddResolveRemote, Held, AddPCs, RemovePCs, MakesBookmark
      <3> QED
        BY <1>4, <1>a, <1>b, <3>3 DEF AddResolveRemote
    <2> QED
      BY <1>4, <2>1, <2>2 DEF AddResolveRemote
  <1>5. CASE AddWorkspace(p)
    <2> DEFINE name == NewName(c)
    <2>1. CASE Return(p) /\ UNCHANGED <<workspaces, dirs, content>>
      BY <1>5, <1>a, <1>b, <1>c, <2>1
    <2>2. CASE /\ name \notin DOMAIN workspaces
               /\ IsFree(c.path)
               /\ \E on \in Parents(c) :
                    workspaces' = [n \in DOMAIN workspaces \cup {name} |->
                       IF n = name THEN [root |-> c.path, on |-> on] ELSE workspaces[n]]
               /\ dirs' = dirs \cup {c.path}
               /\ content' = content \cup {c.path}
               /\ proc' = [proc EXCEPT ![p].name = name,
                    ![p].pc = IF MakesBookmark(c) THEN "bookmark" ELSE "hooks"]
      <3> HIDE DEF name
      <3>1. /\ DOMAIN workspaces' = DOMAIN workspaces \cup {name}
            /\ workspaces'[name].root = c.path
            /\ \A n \in DOMAIN workspaces : workspaces'[n].root = Root(n)
        <4>1. PICK on \in Parents(c) :
                workspaces' = [n \in DOMAIN workspaces \cup {name} |->
                   IF n = name THEN [root |-> c.path, on |-> on] ELSE workspaces[n]]
          BY <2>2
        <4> QED
          BY <2>2, <4>1 DEF Root
      <3>2. c.path \in Places /\ c.path \in Paths
        BY <1>0, <1>5, SpotsType DEF AddWorkspace, Held, AddPCs
      <3>3. \A n \in DOMAIN workspaces : Root(n) # c.path
        BY <1>0, <2>2, <3>2, WithinSelf DEF IsFree, Under, Kept
      <3>4. Kept'
        BY <1>0, <2>2, <3>1, <3>2, <3>3, SpotsType DEF Kept, Root
      <3>5. /\ proc'[p].pc = IF MakesBookmark(c) THEN "bookmark" ELSE "hooks"
            /\ proc'[p].name = name /\ proc'[p].arg = c.arg
            /\ proc'[p].repo = c.repo /\ proc'[p].path = c.path
        BY <1>0, <2>2 DEF Commands
      <3>6. ~MakesBookmark(c) => c.arg \in DOMAIN bookmarks'
        BY <1>0, <1>5 DEF AddWorkspace, Held
      <3>7. c.repo = MainRoot /\ c.path = ResolveWorktreePath(MainRoot, c.arg)
        BY <1>0, <1>5 DEF AddWorkspace, Held, AddPCs
      <3>8. Held(proc[p])'
        BY <3>1, <3>5, <3>6, <3>7 DEF Held, RemovePCs, Root
      <3> QED
        BY <1>a, <3>4, <3>8
    <2> QED
      BY <1>5, <2>1, <2>2 DEF AddWorkspace
  <1>6. CASE AddBookmark(p)
    <2>0. c.repo \in dirs
      BY <1>0, <1>6 DEF AddBookmark, Held, AddPCs, Kept
    <2>1. CASE Return(p)
      BY <1>6, <1>a, <1>b, <1>c, <2>1 DEF AddBookmark
    <2>2. CASE /\ bookmarks' = [b \in DOMAIN bookmarks \cup {c.arg} |->
                     IF b = c.arg THEN workspaces[c.name].on ELSE bookmarks[b]]
               /\ Goto(p, "hooks")
      <3>1. /\ proc'[p].pc = "hooks" /\ proc'[p].arg = c.arg /\ proc'[p].repo = c.repo
            /\ proc'[p].path = c.path /\ proc'[p].name = c.name
        BY <1>0, <2>2, GotoFields
      <3>2. c.arg \in DOMAIN bookmarks'
        BY <2>2
      <3>3. Held(proc[p])'
        BY <1>0, <1>6, <3>1, <3>2 DEF AddBookmark, Held, AddPCs, RemovePCs, Root
      <3> QED
        BY <1>6, <1>a, <1>b, <3>3 DEF AddBookmark
    <2> QED
      BY <1>6, <2>0, <2>1, <2>2 DEF AddBookmark
  <1>7. CASE AddHooks(p)
    <2>1. /\ proc'[p].pc = "exec" /\ proc'[p].arg = c.arg /\ proc'[p].repo = c.repo
          /\ proc'[p].path = c.path /\ proc'[p].name = c.name
      BY <1>0, <1>7, GotoFields DEF AddHooks
    <2>2. Held(proc[p])'
      BY <1>0, <1>7, <2>1 DEF AddHooks, Held, AddPCs, RemovePCs, Root
    <2> QED
      BY <1>7, <1>a, <1>b, <2>2 DEF AddHooks
  <1>8. CASE AddExec(p)
    BY <1>8, <1>a, <1>b, <1>c DEF AddExec
  <1> QED
    BY <1>1, <1>2, <1>3, <1>4, <1>5, <1>6, <1>7, <1>8 DEF AddStep

\* One step of jtp remove.
LEMMA RemoveSolo ==
    ASSUME Solo, TypeOK, Protected, SoloInv, NEW p \in Procs, RemoveStep(p)
    PROVE  SoloInv'
  <1> USE DEF repoVars, diskVars, At
  <1> DEFINE c == proc[p]
  <1>0. /\ proc \in [Procs -> Commands] /\ RepoOK /\ Kept /\ Held(c) /\ Aimed(c)
        /\ content \subseteq Paths
    BY DEF TypeOK, ProcOK, DiskOK, SoloInv, Protected
  <1>a. ASSUME Kept', Held(proc[p])' PROVE SoloInv'
    BY <1>a DEF Solo, OneAtATime, SoloInv
  <1>b. ASSUME UNCHANGED <<workspaces, content, dirs>> PROVE Kept'
    BY <1>0, <1>b DEF Kept, Root
  <1>c. ASSUME Return(p) PROVE Held(proc[p])'
    BY <1>0, <1>c, IdleType DEF Return, Held, AddPCs, RemovePCs
  <1>1. CASE RemFind(p)
    <2>1. PICK name \in Typed, withBranch \in BOOLEAN, cwd \in Cwds :
            /\ Matches(name) # {}
            /\ proc' = [proc EXCEPT ![p] =
                  NewRemove(name, withBranch, First(Matches(name)), cwd.path)]
      BY <1>1 DEF RemFind
    <2> DEFINE target == First(Matches(name))
    <2>2. target \in DOMAIN workspaces
      BY <1>0, <2>1, FirstIsMember DEF Matches, RepoOK
    <2>3. NewRemove(name, withBranch, target, cwd.path).pc = "relist"
          /\ NewRemove(name, withBranch, target, cwd.path).path = Root(target)
      BY DEF NewRemove, Idle
    <2> HIDE DEF target
    <2>4. proc'[p].pc = "relist" /\ proc'[p].path = Root(target)
      BY <1>0, <2>1, <2>3 DEF target
    <2>5. Held(proc[p])'
      BY <1>0, <2>2, <2>4 DEF Held, Kept, AddPCs, RemovePCs
    <2> QED
      BY <1>1, <1>a, <1>b, <2>5 DEF RemFind
  <1>2. CASE RemRelist(p)
    <2>1. CASE Return(p)
      BY <1>2, <1>a, <1>b, <1>c, <2>1 DEF RemRelist
    <2>2. CASE /\ NamesAt(c.path) # {}
               /\ proc' = [proc EXCEPT ![p].pc = "forget", ![p].name = First(NamesAt(c.path))]
      <3> DEFINE name == First(NamesAt(c.path))
      <3>1. name \in DOMAIN workspaces /\ Root(name) = c.path
        BY <1>0, <2>2, FirstIsMember DEF NamesAt, RepoOK
      <3> HIDE DEF name
      <3>2. proc'[p].pc = "forget" /\ proc'[p].name = name /\ proc'[p].path = c.path
        BY <1>0, <2>2 DEF name, Commands
      <3>3. Held(proc[p])'
        BY <1>0, <1>2, <3>1, <3>2 DEF RemRelist, Held, AddPCs, RemovePCs, Root
      <3> QED
        BY <1>2, <1>a, <1>b, <3>3 DEF RemRelist
    <2> QED
      BY <1>2, <2>1, <2>2 DEF RemRelist
  <1>3. CASE RemForget(p)
    <2>1. CASE Return(p) /\ UNCHANGED <<workspaces, bookmarks>>
      BY <1>3, <1>a, <1>b, <1>c, <2>1 DEF RemForget
    <2>2. CASE /\ c.name \in DOMAIN workspaces
               /\ workspaces' = WorkspacesLeaving(c.name, DOMAIN workspaces \ {c.name})
               /\ Goto(p, "clear")
      <3>1. /\ DOMAIN workspaces' = DOMAIN workspaces \ {c.name}
            /\ \A n \in DOMAIN workspaces' : workspaces'[n].root = Root(n)
        BY <1>0, <2>2, LeavingType
      <3>2. Root(c.name) = c.path /\ c.path \in Spots
        BY <1>0, <1>3 DEF RemForget, Held, RemovePCs
      <3>3. Kept'
        BY <1>0, <1>3, <3>1 DEF RemForget, Kept, Root
      <3>4. \A n \in DOMAIN workspaces' : workspaces'[n].root # c.path
        BY <1>0, <2>2, <3>1, <3>2 DEF Kept
      <3>5. proc'[p].pc = "clear" /\ proc'[p].path = c.path
        BY <1>0, <2>2, GotoFields
      <3>6. Held(proc[p])'
        BY <3>2, <3>4, <3>5 DEF Held, AddPCs, RemovePCs, Root
      <3> QED
        BY <1>a, <3>3, <3>6
    <2> QED
      BY <1>3, <2>1, <2>2 DEF RemForget
  <1>4. CASE RemSweep(p)
    <2>1. PICK d \in Under(content, c.path) : content' = content \ {d}
      BY <1>4 DEF RemSweep
    <2>2. c.path \in Spots /\ \A n \in DOMAIN workspaces : Root(n) # c.path
      BY <1>0, <1>4 DEF RemSweep, Held, RemovePCs
    <2>3. \A n \in DOMAIN workspaces : Root(n) # d
      BY <1>0, <2>1, <2>2 DEF Under, Solo, PlacesApart, Kept
    <2>4. Kept'
      BY <1>0, <1>4, <2>1, <2>3 DEF RemSweep, Kept, Root
    <2>5. Held(proc[p])'
      BY <1>0, <1>4 DEF RemSweep, Held, Root
    <2> QED
      BY <1>a, <2>4, <2>5
  <1>5. CASE RemRmdir(p)
    <2>1. ~IsPathWithin(c.path, MainRoot)
      BY <1>0, <1>5 DEF RemRmdir, Aimed
    <2>2. Kept'
      BY <1>0, <1>5, <2>1 DEF RemRmdir, Kept, Root, Under
    <2>3. CASE Return(p)
      BY <1>a, <1>c, <2>2, <2>3
    <2>4. CASE Goto(p, "unmark")
      <3>1. proc'[p].pc = "unmark" /\ proc'[p].path = c.path
        BY <1>0, <2>4, GotoFields
      <3>2. Held(proc[p])'
        BY <1>0, <1>5, <3>1 DEF RemRmdir, Held, AddPCs, RemovePCs
      <3> QED
        BY <1>a, <2>2, <3>2
    <2> QED
      BY <1>5, <2>3, <2>4 DEF RemRmdir
  <1>6. CASE RemUnmark(p)
    BY <1>6, <1>a, <1>b, <1>c DEF RemUnmark
  <1> QED
    BY <1>1, <1>2, <1>3, <1>4, <1>5, <1>6 DEF RemoveStep

\* A command that stops, and the user, who moves bookmarks and not worktrees.
LEMMA AroundSolo ==
    ASSUME Solo, TypeOK, Protected, SoloInv, User \/ \E p \in Procs : Stop(p)
    PROVE  SoloInv'
  <1> USE DEF repoVars, diskVars
  <1>0. proc \in [Procs -> Commands] /\ Kept
    BY DEF TypeOK, ProcOK, SoloInv
  <1>1. CASE \E p \in Procs : Stop(p)
    <2>1. PICK p \in Procs : Stop(p)
      BY <1>1
    <2>2. proc'[p] = Idle
      BY <1>0, <2>1 DEF Stop, Return
    <2>3. Held(proc[p])'
      BY <2>2, IdleType DEF Held, AddPCs, RemovePCs
    <2>4. Kept'
      BY <1>0, <2>1 DEF Stop, Kept, Root
    <2> QED
      BY <2>3, <2>4 DEF Solo, OneAtATime, SoloInv
  <1>2. ASSUME /\ DOMAIN workspaces' = DOMAIN workspaces
               /\ \A n \in DOMAIN workspaces : workspaces'[n].root = Root(n)
               /\ DOMAIN bookmarks' = DOMAIN bookmarks
               /\ UNCHANGED <<dirs, content, proc>>
        PROVE  SoloInv'
    BY <1>2 DEF SoloInv, Kept, Held, Root, MakesBookmark
  <1>3. CASE UserEdit \/ UserRecord \/ UserFetch
    BY <1>2, <1>3 DEF UserEdit, UserRecord, UserFetch, Root
  <1>4. CASE UserMark
    BY <1>2, <1>4 DEF UserMark, Root
  <1>5. CASE UserNew
    <2>1. PICK n \in DOMAIN workspaces :
            /\ bookmarks' = BookmarksWithout(n)
            /\ workspaces' = [WorkspacesLeaving(n, DOMAIN workspaces)
                                EXCEPT ![n].on = Elsewhere]
      BY <1>5 DEF UserNew
    <2> DEFINE W == WorkspacesLeaving(n, DOMAIN workspaces)
    <2>2. /\ W \in [DOMAIN workspaces ->
               [root : Paths, on : (DOMAIN workspaces \ {n}) \cup {Elsewhere}]]
          /\ \A m \in DOMAIN workspaces : W[m].root = Root(m)
      BY LeavingType DEF TypeOK
    <2>3. /\ DOMAIN workspaces' = DOMAIN workspaces
          /\ \A m \in DOMAIN workspaces : workspaces'[m].root = Root(m)
      <3> HIDE DEF W
      <3> QED
        BY <2>1, <2>2 DEF W
    <2>4. DOMAIN bookmarks' = DOMAIN bookmarks
      BY <2>1 DEF BookmarksWithout
    <2> QED
      BY <1>2, <1>5, <2>3, <2>4 DEF UserNew
  <1> QED
    BY <1>1, <1>3, <1>4, <1>5 DEF User

\* With commands one at a time, over places apart, the invariant is inductive.
THEOREM SoloInvHolds == Solo => (Spec => [](TypeOK /\ Protected /\ SoloInv))
  <1> SUFFICES ASSUME Solo PROVE Spec => [](TypeOK /\ Protected /\ SoloInv)
    OBVIOUS
  <1>1. Init => SoloInv
    BY InitSolo
  <1>2. TypeOK /\ Protected /\ SoloInv /\ [Next]_vars => SoloInv'
    <2> SUFFICES ASSUME TypeOK, Protected, SoloInv, [Next]_vars PROVE SoloInv'
      OBVIOUS
    <2>1. ASSUME NEW p \in Procs, AddStep(p) PROVE SoloInv'
      BY <2>1, AddSolo
    <2>2. ASSUME NEW p \in Procs, RemoveStep(p) PROVE SoloInv'
      BY <2>2, RemoveSolo
    <2>3. CASE User \/ \E p \in Procs : Stop(p)
      BY <2>3, AroundSolo
    <2>4. CASE UNCHANGED vars
      BY <2>4 DEF vars, SoloInv, Kept, Held, Root, MakesBookmark
    <2> QED
      BY <2>1, <2>2, <2>3, <2>4 DEF Next
  <1> QED
    BY <1>1, <1>2, ProtectedInvariant, PTL DEF Spec

\* With commands one at a time, jj never lists a worktree whose directory is gone,
\* wherever a command has stopped.
THEOREM RegisteredSolo == Solo => (Spec => []RegisteredOnDisk)
  <1>1. SoloInv => RegisteredOnDisk
    BY DEF SoloInv, Kept, RegisteredOnDisk
  <1> QED
    BY <1>1, SoloInvHolds, PTL

\* With commands one at a time, an add that has come to its hooks has its branch,
\* whatever remotes come and go under it.
THEOREM BranchSolo == Solo => (Spec => []BranchAfterAdd)
  <1>1. SoloInv => BranchAfterAdd
    BY DEF SoloInv, Held, BranchAfterAdd
  <1> QED
    BY <1>1, SoloInvHolds, PTL

-----------------------------------------------------------------------------
(* The refinement of WorktreeLife.                                         *)

lifes == [d \in Places |-> Life(d)]

Registered(d) == \E n \in DOMAIN workspaces : Root(n) = d

\* A place is live when it is registered, and else free or leftover.
LEMMA LifeIs ==
    SoloInv => \A d \in Places :
        /\ Registered(d) => Life(d) = "live"
        /\ ~Registered(d) /\ Under(content, d) = {} => Life(d) = "free"
        /\ ~Registered(d) /\ Under(content, d) # {} => Life(d) = "leftover"
  <1> SUFFICES ASSUME SoloInv, NEW d \in Places
               PROVE  /\ Registered(d) => Life(d) = "live"
                      /\ ~Registered(d) /\ Under(content, d) = {} => Life(d) = "free"
                      /\ ~Registered(d) /\ Under(content, d) # {} => Life(d) = "leftover"
    OBVIOUS
  <1>1. Registered(d) => d \in content
    BY DEF SoloInv, Kept, Registered
  <1> QED
    BY <1>1 DEF Life, Registered

\* The same of the next state.
LEMMA LifeIsNext ==
    SoloInv' => \A d \in Places :
        /\ Registered(d)' => Life(d)' = "live"
        /\ ~Registered(d)' /\ Under(content', d) = {} => Life(d)' = "free"
        /\ ~Registered(d)' /\ Under(content', d) # {} => Life(d)' = "leftover"
  <1> SUFFICES ASSUME SoloInv', NEW d \in Places
               PROVE  /\ Registered(d)' => Life(d)' = "live"
                      /\ ~Registered(d)' /\ Under(content', d) = {} => Life(d)' = "free"
                      /\ ~Registered(d)' /\ Under(content', d) # {} => Life(d)' = "leftover"
    OBVIOUS
  <1>1. Registered(d)' => d \in content'
    BY DEF SoloInv, Kept, Registered
  <1> QED
    BY <1>1 DEF Life, Registered, Under

\* A place at which nothing is registered or forgotten and no file comes or goes.
Untouched(d) == (Registered(d)' <=> Registered(d)) /\ Under(content', d) = Under(content, d)

\* A step that touches at most one place is a step in the life of that place.
LEMMA OnePlaceStep ==
    ASSUME SoloInv, SoloInv', NEW e \in Places, \A d \in Places \ {e} : Untouched(d)
    PROVE  lifes' = [lifes EXCEPT ![e] = Life(e)']
  <1>1. \A d \in Places \ {e} : Life(d)' = Life(d)
    BY LifeIs, LifeIsNext DEF Untouched
  <1> QED
    BY <1>1 DEF lifes

\* A step that touches no place does not show.
LEMMA NoPlaceStep ==
    ASSUME SoloInv, SoloInv', \A d \in Places : Untouched(d)
    PROVE  lifes' = lifes
  <1>1. \A d \in Places : Life(d)' = Life(d)
    BY LifeIs, LifeIsNext DEF Untouched
  <1> QED
    BY <1>1 DEF lifes

\* A step that moves no root and no checkout touches no place.
LEMMA QuietStep ==
    ASSUME DOMAIN workspaces' = DOMAIN workspaces,
           \A n \in DOMAIN workspaces : workspaces'[n].root = Root(n),
           content' = content
    PROVE  \A d \in Places : Untouched(d)
  BY DEF Untouched, Registered, Root

\* One step of jtp add creates at most one worktree, at a free place.
LEMMA AddLives ==
    ASSUME Solo, TypeOK, Protected, SoloInv, SoloInv', NEW p \in Procs, AddStep(p)
    PROVE  Lives!Next \/ lifes' = lifes
  <1> USE DEF repoVars, diskVars, At
  <1> DEFINE c == proc[p]
  <1>0. /\ proc \in [Procs -> Commands] /\ Kept /\ Held(c)
        /\ c.pc \in AddPCs => c.arg \in Branches
        /\ content \subseteq Paths
    BY DEF TypeOK, ProcOK, DiskOK, SoloInv
  <1>1. CASE \/ AddStart(p) \/ AddMkdir(p) \/ AddResolveLocal(p) \/ AddResolveRemote(p)
             \/ AddBookmark(p) \/ AddExec(p)
    <2>1. UNCHANGED <<workspaces, content>>
      BY <1>1 DEF AddStart, AddMkdir, AddResolveLocal, AddResolveRemote, AddBookmark, AddExec
    <2> QED
      BY <2>1, QuietStep, NoPlaceStep DEF Root
  <1>2. CASE AddHooks(p)
    <2>1. c.path \in content
      BY <1>0, <1>2 DEF AddHooks, Held, Kept
    <2>2. UNCHANGED <<workspaces, content>>
      BY <1>2, <2>1 DEF AddHooks
    <2> QED
      BY <2>2, QuietStep, NoPlaceStep DEF Root
  <1>3. CASE AddWorkspace(p)
    <2> DEFINE name == NewName(c)
    <2>1. CASE Return(p) /\ UNCHANGED <<workspaces, dirs, content>>
      BY <2>1, QuietStep, NoPlaceStep DEF Root
    <2>2. CASE /\ name \notin DOMAIN workspaces
               /\ IsFree(c.path)
               /\ \E on \in Parents(c) :
                    workspaces' = [n \in DOMAIN workspaces \cup {name} |->
                       IF n = name THEN [root |-> c.path, on |-> on] ELSE workspaces[n]]
               /\ content' = content \cup {c.path}
      <3> HIDE DEF name
      <3>1. /\ DOMAIN workspaces' = DOMAIN workspaces \cup {name}
            /\ workspaces'[name].root = c.path
            /\ \A n \in DOMAIN workspaces : workspaces'[n].root = Root(n)
        <4>1. PICK on \in Parents(c) :
                workspaces' = [n \in DOMAIN workspaces \cup {name} |->
                   IF n = name THEN [root |-> c.path, on |-> on] ELSE workspaces[n]]
          BY <2>2
        <4> QED
          BY <2>2, <4>1 DEF Root
      <3>2. PICK e \in Places : e = c.path
        BY <1>0, <1>3, SpotsType DEF AddWorkspace, Held, AddPCs
      <3>3. \A d \in Places \ {e} : Untouched(d)
        <4> SUFFICES ASSUME NEW d \in Places \ {e} PROVE Untouched(d)
          OBVIOUS
        <4>1. Registered(d)' <=> Registered(d)
          BY <3>1, <3>2 DEF Registered, Root
        <4>2. ~IsPathWithin(d, e)
          BY SpotsType DEF Solo, PlacesApart
        <4>3. Under(content', d) = Under(content, d)
          BY <2>2, <3>2, <4>2 DEF Under
        <4> QED
          BY <4>1, <4>3 DEF Untouched
      <3>4. Life(e) = "free"
        <4>1. ~Registered(e)
          BY <1>0, <2>2, <3>2, SpotsType, WithinSelf DEF Registered, Kept, IsFree, Under
        <4> QED
          BY <2>2, <3>2, <4>1, LifeIs DEF IsFree
      <3>5. Life(e)' = "live"
        <4>1. Registered(e)'
          BY <3>1, <3>2 DEF Registered, Root
        <4> QED
          BY <4>1, LifeIsNext
      <3>6. Lives!Create(e)
        BY <3>3, <3>4, <3>5, OnePlaceStep DEF Lives!Create, lifes
      <3> QED
        BY <3>6 DEF Lives!Next
    <2> QED
      BY <1>3, <2>1, <2>2 DEF AddWorkspace
  <1> QED
    BY <1>1, <1>2, <1>3 DEF AddStep

\* One step of jtp remove forgets one worktree, or deletes what is left at one place.
LEMMA RemoveLives ==
    ASSUME Solo, TypeOK, Protected, SoloInv, SoloInv', NEW p \in Procs, RemoveStep(p)
    PROVE  Lives!Next \/ lifes' = lifes
  <1> USE DEF repoVars, diskVars, At
  <1> DEFINE c == proc[p]
  <1>0. /\ proc \in [Procs -> Commands] /\ RepoOK /\ Kept /\ Held(c)
        /\ content \subseteq Paths
    BY DEF TypeOK, ProcOK, DiskOK, SoloInv
  <1>1. CASE RemFind(p) \/ RemRelist(p) \/ RemRmdir(p) \/ RemUnmark(p)
    <2>1. UNCHANGED <<workspaces, content>>
      BY <1>1 DEF RemFind, RemRelist, RemRmdir, RemUnmark
    <2> QED
      BY <2>1, QuietStep, NoPlaceStep DEF Root
  <1>2. CASE RemForget(p)
    <2>1. CASE UNCHANGED <<workspaces, bookmarks>>
      BY <1>2, <2>1, QuietStep, NoPlaceStep DEF RemForget, Root
    <2>2. CASE /\ c.name \in DOMAIN workspaces
               /\ workspaces' = WorkspacesLeaving(c.name, DOMAIN workspaces \ {c.name})
      <3>1. /\ DOMAIN workspaces' = DOMAIN workspaces \ {c.name}
            /\ \A n \in DOMAIN workspaces' : workspaces'[n].root = Root(n)
        BY <1>0, <2>2, LeavingType
      <3>2. content' = content /\ Root(c.name) = c.path /\ c.path \in content
        BY <1>0, <1>2 DEF RemForget, Held, Kept
      <3>3. \A d \in Places : d # c.path => Untouched(d)
        BY <2>2, <3>1, <3>2 DEF Untouched, Registered, Root
      <3>4. CASE c.path \notin Places
        BY <3>3, <3>4, NoPlaceStep
      <3>5. CASE c.path \in Places
        <4>1. PICK e \in Places : e = c.path
          BY <3>5
        <4>2. Life(e) = "live"
          BY <2>2, <3>2, <4>1, LifeIs DEF Registered
        <4>3. Life(e)' = "leftover"
          <5>1. ~Registered(e)'
            BY <1>0, <2>2, <3>1, <3>2, <4>1 DEF Registered, Kept, Root
          <5>2. Under(content', e) # {}
            BY <1>0, <3>2, <4>1, WithinSelf DEF Under
          <5> QED
            BY <5>1, <5>2, LifeIsNext
        <4>4. Lives!Forget(e)
          BY <3>3, <4>1, <4>2, <4>3, OnePlaceStep DEF Lives!Forget, lifes
        <4> QED
          BY <4>4 DEF Lives!Next
      <3> QED
        BY <3>4, <3>5
    <2> QED
      BY <1>2, <2>1, <2>2 DEF RemForget
  <1>3. CASE RemSweep(p)
    <2>1. PICK f \in Under(content, c.path) : content' = content \ {f}
      BY <1>3 DEF RemSweep
    <2>2. /\ workspaces' = workspaces
          /\ c.path \in Spots /\ \A n \in DOMAIN workspaces : Root(n) # c.path
      BY <1>0, <1>3 DEF RemSweep, Held, RemovePCs
    <2>3. \A d \in Places : d # c.path => Untouched(d)
      <3> SUFFICES ASSUME NEW d \in Places, d # c.path PROVE Untouched(d)
        OBVIOUS
      <3>1. d \in Spots /\ d \in Paths /\ c.path \in Paths /\ f \in Paths
        BY <1>0, <2>1, <2>2, SpotsType DEF Under
      <3>2. IsPathWithin(c.path, f)
        BY <2>1 DEF Under
      <3>3. ~IsPathWithin(d, f)
        BY <2>2, <3>1, <3>2, Comparable DEF Solo, PlacesApart
      <3>4. Under(content', d) = Under(content, d)
        BY <2>1, <3>3 DEF Under
      <3> QED
        BY <2>2, <3>4 DEF Untouched, Registered, Root
    <2>4. CASE c.path \notin Places
      BY <2>3, <2>4, NoPlaceStep
    <2>5. CASE c.path \in Places
      <3>1. PICK e \in Places : e = c.path
        BY <2>5
      <3>2. ~Registered(e) /\ ~Registered(e)'
        BY <2>2, <3>1 DEF Registered, Root
      <3>3. Life(e) = "leftover"
        BY <2>1, <3>1, <3>2, LifeIs
      <3>4. Life(e)' = "free" \/ Life(e)' = "leftover"
        BY <3>2, LifeIsNext
      <3>5. lifes' = [lifes EXCEPT ![e] = Life(e)']
        BY <2>3, <3>1, OnePlaceStep
      <3>6. lifes[e] = "leftover" /\ lifes = [lifes EXCEPT ![e] = lifes[e]]
        BY <3>3 DEF lifes
      <3>7. CASE Life(e)' = "leftover"
        BY <3>5, <3>6, <3>7
      <3>8. CASE Life(e)' = "free"
        <4>1. Lives!Delete(e)
          BY <3>5, <3>6, <3>8 DEF Lives!Delete, lifes
        <4> QED
          BY <4>1 DEF Lives!Next
      <3> QED
        BY <3>4, <3>7, <3>8
    <2> QED
      BY <2>4, <2>5
  <1> QED
    BY <1>1, <1>2, <1>3 DEF RemoveStep

\* Nothing else shows.
LEMMA AroundLives ==
    ASSUME TypeOK, SoloInv, SoloInv', User \/ \E p \in Procs : Stop(p)
    PROVE  lifes' = lifes
  <1> USE DEF repoVars, diskVars
  <1>1. CASE \/ \E p \in Procs : Stop(p)
             \/ UserEdit \/ UserRecord \/ UserMark \/ UserFetch
    <2>1. UNCHANGED <<workspaces, content>>
      BY <1>1 DEF Stop, UserEdit, UserRecord, UserMark, UserFetch
    <2> QED
      BY <2>1, QuietStep, NoPlaceStep DEF Root
  <1>2. CASE UserNew
    <2>1. PICK n \in DOMAIN workspaces :
            workspaces' = [WorkspacesLeaving(n, DOMAIN workspaces)
                             EXCEPT ![n].on = Elsewhere]
      BY <1>2 DEF UserNew
    <2> DEFINE W == WorkspacesLeaving(n, DOMAIN workspaces)
    <2>2. /\ W \in [DOMAIN workspaces ->
               [root : Paths, on : (DOMAIN workspaces \ {n}) \cup {Elsewhere}]]
          /\ \A m \in DOMAIN workspaces : W[m].root = Root(m)
      BY LeavingType DEF TypeOK
    <2>3. /\ DOMAIN workspaces' = DOMAIN workspaces
          /\ \A m \in DOMAIN workspaces : workspaces'[m].root = Root(m)
      <3> HIDE DEF W
      <3> QED
        BY <2>1, <2>2 DEF W
    <2> QED
      BY <1>2, <2>3, QuietStep, NoPlaceStep DEF UserNew
  <1> QED
    BY <1>1, <1>2 DEF User

\* In the repository jtp finds, every place is free.
LEMMA InitLives == Solo /\ Init => Lives!Init
  <1> SUFFICES ASSUME Solo, Init PROVE Lives!Init
    OBVIOUS
  <1>1. SoloInv
    BY InitSolo
  <1>2. \A n \in DOMAIN workspaces : Root(n) \in {MainRoot} \cup Range(Foreign)
    BY DEF Init, Root, Range
  <1>3. content = {MainRoot} \cup Range(Foreign)
    BY DEF Init
  <1>4. \A d \in Places : Life(d) = "free"
    <2> SUFFICES ASSUME NEW d \in Places PROVE Life(d) = "free"
      OBVIOUS
    <2>1. ~Registered(d)
      BY <1>2 DEF Registered, Solo, PlacesApart
    <2>2. Under(content, d) = {}
      <3>1. \A e \in content : e \in Spots /\ e # d
        BY <1>3 DEF Spots, Solo, PlacesApart
      <3> QED
        BY <3>1, SpotsType DEF Under, Solo, PlacesApart
    <2> QED
      BY <1>1, <2>1, <2>2, LifeIs
  <1> QED
    BY <1>4 DEF Lives!Init

\* With commands one at a time, jtp add and jtp remove implement WorktreeLife: each
\* of their steps, and each failure, is a step in the life of one place, or none.
THEOREM ImplementsLife == Solo => (Spec => LivesSpec)
  <1> SUFFICES ASSUME Solo PROVE Spec => LivesSpec
    OBVIOUS
  <1>1. Init => Lives!Init
    BY InitLives
  <1>2. /\ TypeOK /\ Protected /\ SoloInv
        /\ (TypeOK /\ Protected /\ SoloInv)'
        /\ [Next]_vars
        => [Lives!Next]_lifes
    <2> SUFFICES ASSUME TypeOK, Protected, SoloInv, SoloInv', [Next]_vars
                 PROVE  Lives!Next \/ lifes' = lifes
      OBVIOUS
    <2>1. ASSUME NEW p \in Procs, AddStep(p) PROVE Lives!Next \/ lifes' = lifes
      BY <2>1, AddLives
    <2>2. ASSUME NEW p \in Procs, RemoveStep(p) PROVE Lives!Next \/ lifes' = lifes
      BY <2>2, RemoveLives
    <2>3. CASE User \/ \E p \in Procs : Stop(p)
      BY <2>3, AroundLives
    <2>4. CASE UNCHANGED vars
      BY <2>4, QuietStep, NoPlaceStep DEF vars, Root
    <2> QED
      BY <2>1, <2>2, <2>3, <2>4 DEF Next
  <1>3. Spec => [](TypeOK /\ Protected /\ SoloInv)
    BY SoloInvHolds
  <1> QED
    BY <1>1, <1>2, <1>3, PTL DEF Spec, LivesSpec, Lives!Spec, lifes
=============================================================================
