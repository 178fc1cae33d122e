---------------------------- MODULE LookupProofs ----------------------------
(***************************************************************************)
(* What a name leads to, for any branches and any base_dir: that cd,       *)
(* remove and completion agree on it; that a removal which has read a name *)
(* and uses it a step later still means the same directory, whatever other *)
(* commands have removed and added in between; and that the name which     *)
(* jtp add prints leads to the worktree it has made.                       *)
(***************************************************************************)
EXTENDS Lookup, WorkspacesProofs

\* In a protected state the main workspace is "default", and no other workspace
\* has its root.
LEMMA MainIsDefault ==
    ASSUME TypeOK, Protected
    PROVE  /\ MainName = DefaultName
           /\ \A n \in DOMAIN workspaces \ {MainName} : Root(n) # Root(MainName)
  <1>1. MainName = DefaultName /\ Root(MainName) = MainRoot
    BY DEF Protected, MainSafe, MainName
  <1>2. MainRoot \in Paths
    BY NamingAssumption DEF Paths
  <1>3. \A n \in DOMAIN workspaces \ {DefaultName} : Root(n) # MainRoot
    <2>1. IsPathWithin(MainRoot, MainRoot)
      BY <1>2, WithinSelf
    <2>2. \A n \in DOMAIN workspaces \ {DefaultName} : ~IsPathWithin(Root(n), MainRoot)
      BY DEF Protected
    <2> QED
      BY <2>1, <2>2
  <1> QED
    BY <1>1, <1>3

\* The filter of jtp remove is the filter of jtp cd without the main worktree:
\* tryMainWorktreeMatches answers for no other one.
LEMMA SameFilter ==
    ASSUME TypeOK, Protected, NEW name,
           NEW n \in DOMAIN workspaces \ {MainName}
    PROVE  n \in FoundByCd(name) <=> n \in FoundByRemove(name)
  <1>1. ~TryMain(n, name)
    BY MainIsDefault DEF TryMain
  <1>2. TryDirect(n, name) <=> n \in Matches(name)
    BY DEF TryDirect, Matches, Managed, ShownName
  <1> QED
    BY <1>1, <1>2 DEF FoundByCd, FoundByRemove

\* Two workspaces that are each the first of a set the other is in are the same.
LEMMA FirstOfBoth ==
    ASSUME NEW S, NEW T, S \subseteq Names, T \subseteq S, First(S) \in T, S # {}
    PROVE  T # {} /\ First(T) = First(S)
  <1>1. First(T) \in T /\ Rank[First(T)] <= Rank[First(S)]
    BY FirstIsLeast
  <1>2. Rank[First(S)] <= Rank[First(T)]
    BY <1>1, FirstIsLeast
  <1>3. First(S) \in Names /\ First(T) \in Names
    BY <1>1
  <1>4. Rank[First(S)] \in Nat /\ Rank[First(T)] \in Nat
    BY <1>3, WorkspacesAssumption
  <1>5. Rank[First(S)] = Rank[First(T)]
    BY <1>1, <1>2, <1>4
  <1> QED
    BY <1>1, <1>3, <1>5, WorkspacesAssumption

\* The worktree that jtp cd goes to, when it is not the main one, is the worktree
\* that jtp remove would delete for the same name, in every reachable state.
THEOREM LookupsAgree == Spec => []RemoveAgreesWithCd
  <1>1. TypeOK /\ Protected => RemoveAgreesWithCd
    <2> SUFFICES ASSUME TypeOK, Protected, NEW name \in Typed,
                        FoundByCd(name) # {}, First(FoundByCd(name)) # MainName
                 PROVE  /\ FoundByRemove(name) # {}
                        /\ First(FoundByRemove(name)) = First(FoundByCd(name))
      BY DEF RemoveAgreesWithCd
    <2>1. FoundByCd(name) \subseteq Names
      BY DEF FoundByCd, TypeOK, RepoOK
    <2>2. First(FoundByCd(name)) \in FoundByCd(name)
      BY <2>1, FirstIsMember
    <2>3. First(FoundByCd(name)) \in DOMAIN workspaces \ {MainName}
      BY <2>2 DEF FoundByCd
    <2>4. First(FoundByCd(name)) \in FoundByRemove(name)
      BY <2>2, <2>3, SameFilter
    <2>5. FoundByRemove(name) \subseteq FoundByCd(name)
      BY SameFilter DEF FoundByRemove, Matches
    <2> QED
      BY <2>1, <2>4, <2>5, FirstOfBoth
  <1> QED
    BY <1>1, ProtectedInvariant, PTL

-----------------------------------------------------------------------------
(* Workspaces and running commands are where their names say.              *)

\* What jtp add may call the workspace of a branch.
NamesOf(b) == {b, ExtractBranchName(b)} \cup {MarkedName(b, r) : r \in Remotes}

PlaceOf(b) == ResolveWorktreePath(MainRoot, b)

\* No workspace name stands for two places; nor is it one jtp did not give.
OnePlaceEach ==
    /\ ~RootLookupFails
    /\ \A b1, b2 \in Branches :
          NamesOf(b1) \cap NamesOf(b2) # {} => PlaceOf(b1) = PlaceOf(b2)
    /\ \A b \in Branches : NamesOf(b) \cap (DOMAIN Foreign \cup {DefaultName}) = {}

\* Where the workspace called name is whenever there is one.
PlacedAt(name, path) ==
    \/ name \in DOMAIN Foreign /\ path = Foreign[name]
    \/ \E b \in Branches : name \in NamesOf(b) /\ path = PlaceOf(b)

Settled == \A n \in DOMAIN workspaces \ {DefaultName} : PlacedAt(n, Root(n))

\* What a running command goes by: an add by its branch, a removal by the pair of
\* name and path that its second listing gave it.
GoesBy(c) ==
    /\ c.pc \in AddPCs => c.repo = MainRoot /\ c.path = PlaceOf(c.arg)
    /\ c.pc = "forget" => PlacedAt(c.name, c.path)

AimInv == Settled /\ \A p \in Procs : GoesBy(proc[p])

-----------------------------------------------------------------------------

\* The assumption at work.
LEMMA OnlyPlace ==
    ASSUME OnePlaceEach, NEW name, NEW d, NEW e, PlacedAt(name, d), PlacedAt(name, e)
    PROVE  d = e
  BY DEF OnePlaceEach, PlacedAt

\* jtp add gives one of the branch's names.
LEMMA NewNameOfBranch ==
    ASSUME NEW c
    PROVE  NewName(c) \in NamesOf(c.arg)
  <1>1. CASE ~MakesBookmark(c) /\ Revision(c).at # <<>>
    <2>1. Asked(c) = [branch |-> c.arg, at |-> <<>>]
      BY <1>1 DEF Asked, MakesBookmark
    <2>2. /\ Revision(c).at = Append(<<>>, Head(c.arg))
          /\ Head(c.arg) \in Remotes
      BY <1>1, <2>1 DEF Revision, NormalizeRevision
    <2>3. NewName(c) = MarkedName(c.arg, Head(c.arg))
      BY <1>1, <2>2 DEF NewName
    <2> QED
      BY <2>2, <2>3 DEF NamesOf
  <1>2. CASE MakesBookmark(c) \/ Revision(c).at = <<>>
    BY <1>2 DEF NewName, WorkspaceName, NamesOf
  <1> QED
    BY <1>1, <1>2

\* A command that only goes on keeps all it has read.
LEMMA GoesOn ==
    ASSUME TypeOK, NEW p \in Procs, NEW pc, Goto(p, pc), GoesBy(proc[p]),
           proc[p].pc \in AddPCs \/ pc \notin AddPCs, pc # "forget"
    PROVE  \A q \in Procs : GoesBy(proc[q]) => GoesBy(proc'[q])
  <1>1. proc \in [Procs -> Commands]
    BY DEF TypeOK, ProcOK
  <1>2. /\ proc'[p].pc = pc /\ proc'[p].repo = proc[p].repo
        /\ proc'[p].arg = proc[p].arg /\ proc'[p].path = proc[p].path
        /\ \A q \in Procs \ {p} : proc'[q] = proc[q]
    BY <1>1 DEF Goto, Commands
  <1> QED
    BY <1>2 DEF GoesBy

\* A command that ends goes by nothing.
LEMMA GoesAway ==
    ASSUME TypeOK, NEW p \in Procs, Return(p)
    PROVE  \A q \in Procs : GoesBy(proc[q]) => GoesBy(proc'[q])
  <1>1. proc'[p] = Idle /\ \A q \in Procs \ {p} : proc'[q] = proc[q]
    BY DEF Return, TypeOK, ProcOK
  <1> QED
    BY <1>1, IdleType DEF GoesBy, AddPCs

\* Workspaces that are not new stay where they are.
LEMMA SettledKept ==
    ASSUME AimInv, DOMAIN workspaces' \subseteq DOMAIN workspaces,
           \A n \in DOMAIN workspaces' : workspaces'[n].root = Root(n),
           \A q \in Procs : GoesBy(proc[q]) => GoesBy(proc'[q])
    PROVE  AimInv'
  BY DEF AimInv, Settled, Root, GoesBy, PlacedAt

\* One step of jtp add.
LEMMA AddAim ==
    ASSUME ~RootLookupFails, TypeOK, Protected, AimInv, NEW p \in Procs, AddStep(p)
    PROVE  AimInv'
  <1> USE DEF repoVars, diskVars, At
  <1> DEFINE c == proc[p]
  <1>0. /\ proc \in [Procs -> Commands] /\ GoesBy(c)
        /\ c.pc \in AddPCs => c.arg \in Branches
        /\ Root(MainName) = MainRoot
    BY DEF TypeOK, ProcOK, AimInv, Protected, MainSafe, MainName
  <1>a. ASSUME UNCHANGED workspaces, \A q \in Procs : GoesBy(proc[q]) => GoesBy(proc'[q])
        PROVE  AimInv'
    BY <1>a, SettledKept DEF Root
  <1>b. ASSUME \A q \in Procs \ {p} : proc'[q] = proc[q], GoesBy(proc'[p])
        PROVE  \A q \in Procs : GoesBy(proc[q]) => GoesBy(proc'[q])
    BY <1>b
  <1>1. CASE AddStart(p)
    <2>1. \A dir : {Root(MainName)} \cup (IF RootLookupFails THEN {dir} ELSE {}) = {MainRoot}
      BY <1>0
    <2>2. PICK b \in Branches, new \in BOOLEAN, cwd \in Cwds :
           \E rev \in (IF new THEN Revisions ELSE {<<>>}),
              repo \in {Root(MainName)} \cup (IF RootLookupFails THEN {cwd.path} ELSE {}) :
             proc' = [proc EXCEPT ![p] = NewAdd(b, new, rev, repo, cwd.path)]
      BY <1>1 DEF AddStart
    <2>3. PICK rev :
             proc' = [proc EXCEPT ![p] = NewAdd(b, new, rev, MainRoot, cwd.path)]
      BY <2>1, <2>2, Zenon
    <2>4. LET d == NewAdd(b, new, rev, MainRoot, cwd.path)
          IN  d.pc = "mkdir" /\ d.repo = MainRoot /\ d.arg = b /\ d.path = PlaceOf(b)
      BY DEF NewAdd, Idle, PlaceOf
    <2>5. /\ proc'[p].pc = "mkdir" /\ proc'[p].repo = MainRoot /\ proc'[p].arg = b
          /\ proc'[p].path = PlaceOf(b)
          /\ \A q \in Procs \ {p} : proc'[q] = proc[q]
      BY <1>0, <2>3, <2>4
    <2>6. GoesBy(proc'[p])
      BY <2>5 DEF GoesBy
    <2> QED
      BY <1>1, <1>a, <1>b, <2>5, <2>6 DEF AddStart
  <1>2. CASE AddMkdir(p)
    BY <1>2, <1>0, <1>a, GoesOn DEF AddMkdir, AddPCs
  <1>3. CASE AddResolveLocal(p)
    <2>1. CASE Return(p)
      BY <1>3, <1>a, <2>1, GoesAway DEF AddResolveLocal
    <2>2. CASE Goto(p, IF c.arg \in DOMAIN bookmarks THEN "workspace" ELSE "remote")
      BY <1>3, <1>0, <1>a, <2>2, GoesOn DEF AddResolveLocal, AddPCs
    <2> QED
      BY <1>3, <2>1, <2>2 DEF AddResolveLocal
  <1>4. CASE AddResolveRemote(p)
    <2> DEFINE r == CHOOSE r \in RemotesWith(c.arg) : TRUE
    <2>1. CASE Return(p)
      BY <1>4, <1>a, <2>1, GoesAway DEF AddResolveRemote
    <2>2. CASE proc' = [proc EXCEPT ![p].pc = "workspace", ![p].track = r]
      <3> HIDE DEF r
      <3>1. /\ proc'[p].pc = "workspace" /\ proc'[p].arg = c.arg
            /\ proc'[p].repo = c.repo /\ proc'[p].path = c.path
            /\ \A q \in Procs \ {p} : proc'[q] = proc[q]
        BY <1>0, <2>2 DEF Commands
      <3>2. GoesBy(proc'[p])
        BY <1>0, <1>4, <3>1 DEF AddResolveRemote, GoesBy, AddPCs
      <3> QED
        BY <1>4, <1>a, <1>b, <3>1, <3>2 DEF AddResolveRemote
    <2> QED
      BY <1>4, <2>1, <2>2 DEF AddResolveRemote
  <1>5. CASE AddWorkspace(p)
    <2> DEFINE name == NewName(c)
    <2>1. CASE Return(p) /\ UNCHANGED <<workspaces, dirs, content>>
      BY <1>a, <2>1, GoesAway
    <2>2. CASE /\ \E on \in Parents(c) :
                    workspaces' = [n \in DOMAIN workspaces \cup {name} |->
                       IF n = name THEN [root |-> c.path, on |-> on] ELSE workspaces[n]]
               /\ proc' = [proc EXCEPT ![p].name = name,
                    ![p].pc = IF MakesBookmark(c) THEN "bookmark" ELSE "hooks"]
      <3>1. c.repo = MainRoot /\ c.path = PlaceOf(c.arg) /\ c.arg \in Branches
        BY <1>0, <1>5 DEF AddWorkspace, GoesBy, AddPCs
      <3>2. PlacedAt(name, c.path)
        BY <3>1, NewNameOfBranch DEF PlacedAt
      <3> HIDE DEF name
      <3>3. PICK on \in Parents(c) :
              workspaces' = [n \in DOMAIN workspaces \cup {name} |->
                 IF n = name THEN [root |-> c.path, on |-> on] ELSE workspaces[n]]
        BY <2>2
      <3>4. /\ DOMAIN workspaces' = DOMAIN workspaces \cup {name}
            /\ workspaces'[name].root = c.path
            /\ \A n \in DOMAIN workspaces \ {name} : workspaces'[n].root = Root(n)
        BY <3>3 DEF Root
      <3>5. \A n \in DOMAIN workspaces' \ {DefaultName} : PlacedAt(n, workspaces'[n].root)
        BY <3>2, <3>4 DEF AimInv, Settled
      <3>6. /\ proc'[p].pc \in {"bookmark", "hooks"} /\ proc'[p].arg = c.arg
            /\ proc'[p].repo = c.repo /\ proc'[p].path = c.path
            /\ \A q \in Procs \ {p} : proc'[q] = proc[q]
        BY <1>0, <2>2 DEF Commands
      <3>7. GoesBy(proc'[p])
        BY <3>1, <3>6 DEF GoesBy
      <3>8. \A q \in Procs : GoesBy(proc'[q])
        BY <3>6, <3>7 DEF AimInv
      <3> QED
        BY <3>5, <3>8 DEF AimInv, Settled, Root, GoesBy, PlacedAt
    <2> QED
      BY <1>5, <2>1, <2>2 DEF AddWorkspace
  <1>6. CASE AddBookmark(p)
    <2>1. CASE Return(p)
      BY <1>6, <1>a, <2>1, GoesAway DEF AddBookmark
    <2>2. CASE Goto(p, "hooks")
      BY <1>6, <1>0, <1>a, <2>2, GoesOn DEF AddBookmark, AddPCs
    <2> QED
      BY <1>6, <2>1, <2>2 DEF AddBookmark
  <1>7. CASE AddHooks(p)
    BY <1>7, <1>0, <1>a, GoesOn DEF AddHooks, AddPCs
  <1>8. CASE AddExec(p)
    BY <1>8, <1>a, GoesAway DEF AddExec
  <1> QED
    BY <1>1, <1>2, <1>3, <1>4, <1>5, <1>6, <1>7, <1>8 DEF AddStep

\* One step of jtp remove.
LEMMA RemoveAim ==
    ASSUME TypeOK, Protected, AimInv, NEW p \in Procs, RemoveStep(p)
    PROVE  AimInv'
  <1> USE DEF repoVars, diskVars, At
  <1> DEFINE c == proc[p]
  <1>0. proc \in [Procs -> Commands] /\ RepoOK /\ GoesBy(c) /\ Aimed(c)
    BY DEF TypeOK, ProcOK, AimInv, Protected
  <1>a. ASSUME UNCHANGED workspaces, \A q \in Procs : GoesBy(proc[q]) => GoesBy(proc'[q])
        PROVE  AimInv'
    BY <1>a, SettledKept DEF Root
  <1>b. ASSUME \A q \in Procs \ {p} : proc'[q] = proc[q], GoesBy(proc'[p])
        PROVE  \A q \in Procs : GoesBy(proc[q]) => GoesBy(proc'[q])
    BY <1>b
  <1>1. CASE RemFind(p)
    <2>1. PICK name \in Typed, withBranch \in BOOLEAN, cwd \in Cwds :
            proc' = [proc EXCEPT ![p] =
                  NewRemove(name, withBranch, First(Matches(name)), cwd.path)]
      BY <1>1 DEF RemFind
    <2>2. \A target : NewRemove(name, withBranch, target, cwd.path).pc = "relist"
      BY DEF NewRemove, Idle
    <2>3. proc'[p].pc = "relist" /\ \A q \in Procs \ {p} : proc'[q] = proc[q]
      BY <1>0, <2>1, <2>2
    <2>4. GoesBy(proc'[p])
      BY <2>3 DEF GoesBy, AddPCs
    <2> QED
      BY <1>1, <1>a, <1>b, <2>3, <2>4 DEF RemFind
  <1>2. CASE RemRelist(p)
    <2>1. CASE Return(p)
      BY <1>2, <1>a, <2>1, GoesAway DEF RemRelist
    <2>2. CASE /\ NamesAt(c.path) # {}
               /\ proc' = [proc EXCEPT ![p].pc = "forget", ![p].name = First(NamesAt(c.path))]
      <3> DEFINE name == First(NamesAt(c.path))
      <3>1. name \in DOMAIN workspaces /\ Root(name) = c.path
        BY <1>0, <2>2, FirstIsMember DEF NamesAt, RepoOK
      <3>2. ~IsPathWithin(c.path, MainRoot)
        BY <1>0, <1>2 DEF RemRelist, Aimed
      <3>3. name # DefaultName
        BY <3>1, <3>2, WithinSelf, NamingAssumption DEF Protected, MainSafe, Paths
      <3>4. PlacedAt(name, c.path)
        BY <3>1, <3>3 DEF AimInv, Settled
      <3> HIDE DEF name
      <3>5. /\ proc'[p].pc = "forget" /\ proc'[p].name = name /\ proc'[p].path = c.path
            /\ \A q \in Procs \ {p} : proc'[q] = proc[q]
        BY <1>0, <2>2 DEF name, Commands
      <3>6. GoesBy(proc'[p])
        BY <3>4, <3>5 DEF GoesBy, AddPCs
      <3> QED
        BY <1>2, <1>a, <1>b, <3>5, <3>6 DEF RemRelist
    <2> QED
      BY <1>2, <2>1, <2>2 DEF RemRelist
  <1>3. CASE RemForget(p)
    <2>1. CASE Return(p) /\ UNCHANGED <<workspaces, bookmarks>>
      BY <1>a, <2>1, GoesAway
    <2>2. CASE /\ c.name \in DOMAIN workspaces
               /\ workspaces' = WorkspacesLeaving(c.name, DOMAIN workspaces \ {c.name})
               /\ Goto(p, "clear")
      <3>1. /\ DOMAIN workspaces' = DOMAIN workspaces \ {c.name}
            /\ \A n \in DOMAIN workspaces' : workspaces'[n].root = Root(n)
        BY <1>0, <2>2, LeavingType
      <3>2. \A q \in Procs : GoesBy(proc[q]) => GoesBy(proc'[q])
        BY <1>0, <2>2, GoesOn DEF AddPCs
      <3> QED
        BY <3>1, <3>2, SettledKept
    <2> QED
      BY <1>3, <2>1, <2>2 DEF RemForget
  <1>4. CASE RemSweep(p)
    BY <1>4, <1>a DEF RemSweep
  <1>5. CASE RemRmdir(p)
    <2>1. CASE Return(p)
      BY <1>5, <1>a, <2>1, GoesAway DEF RemRmdir
    <2>2. CASE Goto(p, "unmark")
      BY <1>5, <1>0, <1>a, <2>2, GoesOn DEF RemRmdir, AddPCs
    <2> QED
      BY <1>5, <2>1, <2>2 DEF RemRmdir
  <1>6. CASE RemUnmark(p)
    BY <1>6, <1>a, GoesAway DEF RemUnmark
  <1> QED
    BY <1>1, <1>2, <1>3, <1>4, <1>5, <1>6 DEF RemoveStep

\* A command that stops, and the user.
LEMMA AroundAim ==
    ASSUME TypeOK, AimInv, User \/ \E p \in Procs : Stop(p)
    PROVE  AimInv'
  <1> USE DEF repoVars, diskVars
  <1>1. CASE \E p \in Procs : Stop(p)
    <2>1. PICK p \in Procs : Stop(p)
      BY <1>1
    <2>2. \A q \in Procs : GoesBy(proc[q]) => GoesBy(proc'[q])
      BY <2>1, GoesAway DEF Stop
    <2> QED
      BY <2>1, <2>2, SettledKept DEF Stop, Root
  <1>2. CASE UserEdit \/ UserRecord \/ UserMark \/ UserFetch
    BY <1>2, SettledKept DEF UserEdit, UserRecord, UserMark, UserFetch, Root
  <1>3. CASE UserNew
    <2>1. PICK n \in DOMAIN workspaces :
            workspaces' = [WorkspacesLeaving(n, DOMAIN workspaces)
                             EXCEPT ![n].on = Elsewhere]
      BY <1>3 DEF UserNew
    <2> DEFINE W == WorkspacesLeaving(n, DOMAIN workspaces)
    <2>2. /\ W \in [DOMAIN workspaces ->
               [root : Paths, on : (DOMAIN workspaces \ {n}) \cup {Elsewhere}]]
          /\ \A m \in DOMAIN workspaces : W[m].root = Root(m)
      BY LeavingType DEF TypeOK
    <2>3. /\ DOMAIN workspaces' = DOMAIN workspaces
          /\ \A m \in DOMAIN workspaces : workspaces'[m].root = Root(m)
      <3> HIDE DEF W
      <3> QED
        BY <2>1, <2>2 DEF W
    <2> QED
      BY <1>3, <2>3, SettledKept DEF UserNew
  <1> QED
    BY <1>1, <1>2, <1>3 DEF User

\* In the repository that jtp finds, every workspace is at a place of its name.
LEMMA InitAim == Init => AimInv
  <1> SUFFICES ASSUME Init PROVE AimInv
    OBVIOUS
  <1>1. /\ DOMAIN workspaces = DOMAIN Foreign \cup {DefaultName}
        /\ \A n \in DOMAIN workspaces \ {DefaultName} : Root(n) = Foreign[n]
    BY DEF Init, Root
  <1>2. \A p \in Procs : GoesBy(proc[p])
    BY IdleType DEF Init, GoesBy, AddPCs
  <1> QED
    BY <1>1, <1>2 DEF AimInv, Settled, PlacedAt

\* Every step keeps them there.
LEMMA NextAim ==
    ASSUME ~RootLookupFails, TypeOK, Protected, AimInv, [Next]_vars
    PROVE  AimInv'
  <1>1. ASSUME NEW p \in Procs, AddStep(p) PROVE AimInv'
    BY <1>1, AddAim
  <1>2. ASSUME NEW p \in Procs, RemoveStep(p) PROVE AimInv'
    BY <1>2, RemoveAim
  <1>3. CASE User \/ \E p \in Procs : Stop(p)
    BY <1>3, AroundAim
  <1>4. CASE UNCHANGED vars
    BY <1>4, SettledKept DEF vars, Root
  <1> QED
    BY <1>1, <1>2, <1>3, <1>4 DEF Next

\* While the main worktree can be looked up, any number of commands leave every
\* workspace at a place of its name.
THEOREM AimInvHolds == ~RootLookupFails => (Spec => [](TypeOK /\ Protected /\ AimInv))
  <1> SUFFICES ASSUME ~RootLookupFails PROVE Spec => [](TypeOK /\ Protected /\ AimInv)
    OBVIOUS
  <1>1. Init => AimInv
    BY InitAim
  <1>2. TypeOK /\ Protected /\ AimInv /\ [Next]_vars => AimInv'
    BY NextAim
  <1> QED
    BY <1>1, <1>2, ProtectedInvariant, PTL DEF Spec

\* However many adds and removals run at once, the name a removal hands to
\* jj workspace forget is, if there still is such a workspace, that of the directory
\* the removal goes on to delete.
THEOREM ForgetAimed == OnePlaceEach => (Spec => []ForgetIsAimed)
  <1> SUFFICES ASSUME OnePlaceEach PROVE Spec => []ForgetIsAimed
    OBVIOUS
  <1>1. TypeOK /\ Protected /\ AimInv => ForgetIsAimed
    <2> SUFFICES ASSUME Protected, AimInv, NEW p \in Procs, At(p, "forget"),
                        proc[p].name \in DOMAIN workspaces
                 PROVE  Root(proc[p].name) = proc[p].path
      BY DEF ForgetIsAimed
    <2>1. proc[p].name # DefaultName
      BY DEF Protected, Aimed, At
    <2>2. PlacedAt(proc[p].name, Root(proc[p].name))
      BY <2>1 DEF AimInv, Settled
    <2>3. PlacedAt(proc[p].name, proc[p].path)
      BY DEF AimInv, GoesBy, At
    <2> QED
      BY <2>2, <2>3, OnlyPlace
  <1> QED
    BY <1>1, AimInvHolds, PTL DEF OnePlaceEach

-----------------------------------------------------------------------------
(* The name that jtp add prints.                                           *)

\* The directories a workspace can have.
Spots == {MainRoot} \cup {PlaceOf(b) : b \in Branches} \cup Range(Foreign)

\* What jtp add prints for a worktree at a path.
HintFor(path) == IF path = MainRoot THEN MainMark ELSE WorktreeName(path, MainRoot)

\* The name shown for the worktree of a branch is no name of the main worktree, and no
\* other workspace has a directory of that name.  The branches "b/c" and "c" break it,
\* and so does a branch "root".
HintsAreOwn ==
    \A b \in Branches :
        /\ PlaceOf(b) # MainRoot => HintFor(PlaceOf(b)) \notin MainAliases
        /\ \A path \in Spots \ {PlaceOf(b)} : PathBase(path) # HintFor(PlaceOf(b))

\* A managed path is base_dir followed by the name jtp shows for it.
LEMMA NameGivesPath ==
    ASSUME NEW path \in Paths, IsManaged(path, MainRoot)
    PROVE  path = ResolveBase(MainRoot) \o WorktreeName(path, MainRoot)
  <1> USE DEF Paths
  <1>1. PICK base : base = ResolveBase(MainRoot)
    OBVIOUS
  <1>2. base \in Paths
    BY <1>1, ResolveType, NamingAssumption
  <1>3. PICK n, k : n = Len(base) /\ k = Len(path)
    OBVIOUS
  <1>4. n \in Nat /\ k \in Nat /\ n <= k
    BY <1>1, <1>2, <1>3 DEF IsManaged, IsPathWithin, IsPrefix
  <1>5. PICK name : name = SubSeq(path, n + 1, k)
    OBVIOUS
  <1>6. /\ name \in Paths /\ Len(name) = k - n
        /\ \A i \in 1..(k - n) : name[i] = path[i + n]
    BY <1>3, <1>4, <1>5, SubSeqProperties
  <1>7. \A i \in 1..n : path[i] = base[i]
    BY <1>1, <1>2, <1>3, <1>4, SMTT(30) DEF IsManaged, IsPathWithin, IsPrefix
  <1>8. path = base \o name
    <2>1. PICK whole : whole = base \o name
      OBVIOUS
    <2>2. /\ whole \in Paths /\ Len(whole) = k
          /\ \A i \in 1..k : whole[i] = path[i]
      <3>1. /\ whole \in Seq(Segments) /\ Len(whole) = n + (k - n)
            /\ \A i \in 1..(n + (k - n)) :
                  whole[i] = IF i <= n THEN base[i] ELSE name[i - n]
        BY <1>2, <1>3, <1>6, <2>1, ConcatProperties
      <3>2. \A i \in 1..k : whole[i] = path[i]
        <4>1. ASSUME NEW i \in 1..n PROVE whole[i] = path[i]
          BY <1>4, <1>7, <3>1, <4>1
        <4>2. ASSUME NEW i \in (n + 1)..k PROVE whole[i] = path[i]
          <5>1. i \in 1..(n + (k - n)) /\ ~(i <= n) /\ i - n \in 1..(k - n)
            BY <1>4, <4>2
          <5>2. whole[i] = name[i - n] /\ name[i - n] = path[(i - n) + n]
            BY <1>6, <3>1, <5>1
          <5> QED
            BY <1>4, <5>1, <5>2
        <4> QED
          BY <1>4, <4>1, <4>2
      <3> QED
        BY <1>4, <3>1, <3>2
    <2> QED
      BY <1>3, <2>1, <2>2, SeqEqual
  <1> QED
    BY <1>1, <1>3, <1>5, <1>8 DEF WorktreeName

\* The place of a branch is a path below base_dir.
LEMMA PlaceType ==
    ASSUME NEW b \in Branches
    PROVE  PlaceOf(b) \in Paths /\ IsManaged(PlaceOf(b), MainRoot)
  <1> USE DEF Paths
  <1>1. MainRoot \in Paths /\ b \in Paths
    BY NamingAssumption, WorkspacesAssumption
  <1>2. PICK base : base = ResolveBase(MainRoot)
    OBVIOUS
  <1>3. base \in Paths /\ PlaceOf(b) = base \o b /\ PlaceOf(b) \in Paths
    BY <1>1, <1>2, ResolveType DEF PlaceOf, ResolveWorktreePath
  <1>4. IsPathWithin(base, base \o b)
    BY <1>1, <1>3 DEF IsPathWithin, IsPrefix
  <1> QED
    BY <1>2, <1>3, <1>4 DEF IsManaged

\* The last segment of the shown name of a path is the last segment of the path.
LEMMA NameEndsLikePath ==
    ASSUME NEW path \in Paths, IsManaged(path, MainRoot), NEW s,
           WorktreeName(path, MainRoot) = <<s>>
    PROVE  PathBase(path) = <<s>>
  <1> USE DEF Paths
  <1>1. PICK base : base = ResolveBase(MainRoot)
    OBVIOUS
  <1>2. base \in Paths
    BY <1>1, ResolveType, NamingAssumption
  <1>3. path = base \o <<s>>
    BY <1>1, NameGivesPath
  <1>4. Len(path) = Len(base) + 1 /\ path[Len(path)] = s
    BY <1>2, <1>3
  <1> QED
    BY <1>4 DEF PathBase, Last

\* Every workspace has its root in one of the places.
LEMMA RootsArePlaces ==
    ASSUME TypeOK, Protected, AimInv, NEW n \in DOMAIN workspaces
    PROVE  Root(n) \in Spots
  <1>1. CASE n = DefaultName
    BY <1>1 DEF Protected, MainSafe, Spots
  <1>2. CASE n # DefaultName
    <2>1. PlacedAt(n, Root(n))
      BY <1>2 DEF AimInv, Settled
    <2>2. CASE n \in DOMAIN Foreign /\ Root(n) = Foreign[n]
      BY <2>2 DEF Spots, Range
    <2>3. CASE \E b \in Branches : n \in NamesOf(b) /\ Root(n) = PlaceOf(b)
      BY <2>3 DEF Spots
    <2> QED
      BY <2>1, <2>2, <2>3 DEF PlacedAt
  <1> QED
    BY <1>1, <1>2

\* A worktree other than the one at a place, that cd finds by the hint for the place,
\* shows the hint as its branch.
LEMMA HintIsOwn ==
    ASSUME HintsAreOwn, TypeOK, Protected, AimInv, NEW b \in Branches,
           NEW n \in FoundByCd(HintFor(PlaceOf(b))),
           DisplayName(n) # HintFor(PlaceOf(b))
    PROVE  Root(n) = PlaceOf(b)
  <1>1. PICK path, hint : path = PlaceOf(b) /\ hint = HintFor(path)
    OBVIOUS
  <1>2. n \in DOMAIN workspaces /\ (TryDirect(n, hint) \/ TryMain(n, hint))
    BY <1>1 DEF FoundByCd
  <1>3. Root(n) \in Spots
    BY <1>2, RootsArePlaces
  <1>4. Root(n) \in Paths
    BY <1>2 DEF TypeOK, RepoOK, Root
  <1>5. PathBase(Root(n)) = hint => Root(n) = path
    BY <1>1, <1>3 DEF HintsAreOwn
  <1>6. MainName = DefaultName /\ Root(MainName) = MainRoot
    BY MainIsDefault DEF Protected, MainSafe
  <1>7. path \in Paths /\ IsManaged(path, MainRoot)
    BY <1>1, PlaceType
  <1>8. path # MainRoot => hint \notin MainAliases
    BY <1>1 DEF HintsAreOwn
  <1>9. CASE TryMain(n, hint)
    <2>1. Root(n) = MainRoot /\ (hint \in MainAliases \/ PathBase(Root(n)) = hint)
      BY <1>6, <1>9 DEF TryMain
    <2> QED
      BY <1>1, <1>5, <1>8, <2>1
  <1>10. CASE TryDirect(n, hint)
    <2>1. n \in Managed /\ (ShownName(n) = hint \/ PathBase(Root(n)) = hint)
      BY <1>1, <1>10 DEF TryDirect
    <2>2. CASE ShownName(n) = hint /\ n = MainName
      <3>1. hint \in MainAliases
        BY <2>2 DEF ShownName, MainAliases
      <3> QED
        BY <1>1, <1>6, <1>8, <2>2, <3>1
    <2>3. CASE ShownName(n) = hint /\ n # MainName
      <3>1. IsManaged(Root(n), MainRoot) /\ WorktreeName(Root(n), MainRoot) = hint
        BY <1>6, <2>1, <2>3 DEF ShownName, Managed
      <3>2. CASE path = MainRoot
        <4>1. hint = <<"@">>
          BY <1>1, <3>2 DEF HintFor, MainMark
        <4>2. PathBase(Root(n)) = <<"@">>
          BY <1>4, <3>1, <4>1, NameEndsLikePath
        <4> QED
          BY <1>1, <1>5, <4>1, <4>2
      <3>3. CASE path # MainRoot
        <4>1. WorktreeName(path, MainRoot) = hint
          BY <1>1, <3>3 DEF HintFor
        <4> QED
          BY <1>1, <1>7, <1>4, <3>1, <4>1, NameGivesPath
      <3> QED
        BY <3>2, <3>3
    <2> QED
      BY <1>1, <1>5, <2>1, <2>2, <2>3
  <1> QED
    BY <1>2, <1>9, <1>10

\* In a state in which workspaces and commands are where their names say, the hint of
\* an add that is about to end leads to its worktree.
LEMMA HintOfAim ==
    ASSUME HintsAreOwn, TypeOK, Protected, AimInv
    PROVE  HintLeadsThere
  <1> SUFFICES ASSUME TypeOK, Protected, AimInv, NEW p \in Procs, At(p, "exec"),
                      proc[p].name \in DOMAIN workspaces,
                      Root(proc[p].name) = proc[p].path,
                      \A n \in DOMAIN workspaces \ {proc[p].name} :
                          DisplayName(n) # Hint(proc[p])
               PROVE  /\ FoundByCd(Hint(proc[p])) # {}
                      /\ Root(First(FoundByCd(Hint(proc[p])))) = proc[p].path
    BY DEF HintLeadsThere
  <1>1. PICK c, n, b : c = proc[p] /\ n = c.name /\ b = c.arg
    OBVIOUS
  <1>2. c.pc \in AddPCs /\ GoesBy(c) /\ b \in Branches
    BY <1>1 DEF At, AddPCs, AimInv, TypeOK, ProcOK
  <1>3. c.repo = MainRoot /\ c.path = PlaceOf(b)
    BY <1>1, <1>2 DEF GoesBy
  <1>4. PICK hint : hint = HintFor(PlaceOf(b))
    OBVIOUS
  <1>5. Hint(c) = hint
    BY <1>3, <1>4 DEF Hint, HintFor
  <1>6. n \in DOMAIN workspaces /\ Root(n) = PlaceOf(b)
    BY <1>1, <1>3
  <1>7. MainName = DefaultName /\ Root(MainName) = MainRoot
    BY MainIsDefault DEF Protected, MainSafe
  <1>8. n \in FoundByCd(hint)
    <2>1. CASE PlaceOf(b) = MainRoot
      <3>1. Root(n) = Root(MainName) /\ hint = MainMark
        BY <1>4, <1>6, <1>7, <2>1 DEF HintFor
      <3> QED
        BY <1>6, <3>1 DEF FoundByCd, TryMain, MainAliases
    <2>2. CASE PlaceOf(b) # MainRoot
      <3>1. n # MainName /\ IsManaged(Root(n), Root(MainName))
        BY <1>2, <1>6, <1>7, <2>2, PlaceType
      <3>2. n \in Managed /\ ShownName(n) = hint
        BY <1>4, <1>6, <1>7, <2>2, <3>1 DEF Managed, ShownName, HintFor
      <3> QED
        BY <1>6, <3>2 DEF FoundByCd, TryDirect
    <2> QED
      BY <2>1, <2>2
  <1>9. FoundByCd(hint) \subseteq Names
    BY DEF FoundByCd, TypeOK, RepoOK
  <1>10. PICK m : m = First(FoundByCd(hint))
    OBVIOUS
  <1>11. m \in FoundByCd(hint)
    BY <1>8, <1>9, <1>10, FirstIsMember
  <1>12. Root(m) = PlaceOf(b)
    <2>1. CASE m = n
      BY <1>6, <2>1
    <2>2. CASE m # n
      <3>1. m \in DOMAIN workspaces
        BY <1>11 DEF FoundByCd
      <3>2. DisplayName(m) # hint
        BY <1>1, <1>5, <2>2, <3>1
      <3> QED
        BY <1>2, <1>4, <1>11, <3>2, HintIsOwn
    <2> QED
      BY <2>1, <2>2
  <1> QED
    BY <1>1, <1>3, <1>5, <1>8, <1>10, <1>12

\* The name that jtp add prints leads jtp cd to the worktree it has made, however many
\* commands run and whatever they do to the others, as long as none is called like it.
THEOREM HintLeads ==
    ~RootLookupFails /\ HintsAreOwn => (Spec => []HintLeadsThere)
  <1> SUFFICES ASSUME ~RootLookupFails, HintsAreOwn PROVE Spec => []HintLeadsThere
    OBVIOUS
  <1>1. TypeOK /\ Protected /\ AimInv => HintLeadsThere
    BY HintOfAim
  <1> QED
    BY <1>1, AimInvHolds, PTL
=============================================================================
