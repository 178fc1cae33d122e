-------------------------- MODULE WorkspacesProofs --------------------------
(* Theorems about Workspaces, for any set of processes, any branches and   *)
(* any base_dir.                                                           *)
EXTENDS Workspaces, WellFoundedInduction, SequenceTheorems, FiniteSetTheorems, TLAPS

USE DEF Paths

-----------------------------------------------------------------------------
(* Paths.                                                                  *)

\* isPathWithin holds of a path and itself.
LEMMA WithinSelf ==
    ASSUME NEW p \in Paths
    PROVE  IsPathWithin(p, p)
  BY DEF IsPathWithin, IsPrefix

\* What lies within a directory that lies within another lies within the other.
LEMMA WithinTransitive ==
    ASSUME NEW p \in Paths, NEW q \in Paths, NEW r \in Paths,
           IsPathWithin(p, q), IsPathWithin(q, r)
    PROVE  IsPathWithin(p, r)
  <1>1. Len(p) <= Len(q) /\ Len(q) <= Len(r)
    BY DEF IsPathWithin, IsPrefix
  <1>2. \A i \in 1..Len(p) : p[i] = q[i]
    BY <1>1, SMTT(30) DEF IsPathWithin, IsPrefix
  <1>3. \A i \in 1..Len(q) : q[i] = r[i]
    BY <1>1, SMTT(30) DEF IsPathWithin, IsPrefix
  <1>4. \A i \in 1..Len(p) : p[i] = r[i]
    BY <1>1, <1>2, <1>3
  <1> QED
    BY <1>1, <1>4, SMTT(30) DEF IsPathWithin, IsPrefix

\* Directories derived from paths and branches are paths.
LEMMA ResolveType ==
    ASSUME NEW repo \in Paths, NEW branch \in Paths
    PROVE  ResolveBase(repo) \in Paths /\ ResolveWorktreePath(repo, branch) \in Paths
  <1> DEFINE n == IF BaseDir.up < Len(repo) THEN Len(repo) - BaseDir.up ELSE 0
  <1>1. n \in 0..Len(repo)
    BY NamingAssumption
  <1>2. SubSeq(repo, 1, n) \in Paths
    BY <1>1, SubSeqProperties
  <1>3. BaseDir.rest \in Paths
    BY NamingAssumption
  <1> QED
    BY <1>2, <1>3, ConcatProperties DEF ResolveBase, ResolveWorktreePath

\* The list order has a first member in every set of names that is not empty.
LEMMA FirstIsLeast ==
    ASSUME NEW S, S \subseteq Names, S # {}
    PROVE  First(S) \in S /\ \A y \in S : Rank[First(S)] <= Rank[y]
  <1>1. \A x \in S : Rank[x] \in Nat
    BY WorkspacesAssumption
  <1> DEFINE T == {Rank[x] : x \in S}
  <1>2. T \subseteq Nat /\ T # {}
    BY <1>1
  <1>3. PICK m \in T : \A k \in T : ~(<<k, m>> \in OpToRel(<, Nat))
    BY <1>2, NatLessThanWellFounded, WFMin
  <1>4. \A k \in T : m <= k
    <2> SUFFICES ASSUME NEW k \in T, k < m PROVE FALSE
      BY <1>2
    <2>1. <<k, m>> \in Nat \X Nat /\ <<k, m>>[1] < <<k, m>>[2]
      BY <1>2
    <2>2. <<k, m>> \in OpToRel(<, Nat)
      BY <2>1 DEF OpToRel
    <2> QED
      BY <1>3, <2>2
  <1>5. \E x \in S : \A y \in S : Rank[x] <= Rank[y]
    BY <1>4
  <1> QED
    BY <1>5 DEF First

\* The list order picks a member of every set of names that is not empty.
LEMMA FirstIsMember ==
    ASSUME NEW S, S \subseteq Names, S # {}
    PROVE  First(S) \in S
  BY FirstIsLeast

-----------------------------------------------------------------------------
(* Type correctness.                                                       *)

\* The name of a new workspace is the branch, its last segment, or that segment at
\* the remote that NormalizeRevision takes the branch's first segment for.
LEMMA NewNameType ==
    ASSUME NEW c, c.arg \in Branches
    PROVE  NewName(c) \in Names
  <1>1. CASE ~MakesBookmark(c) /\ Revision(c).at # <<>>
    <2>1. ~c.flag /\ c.track = NoRemote
      BY <1>1 DEF MakesBookmark
    <2>2. Asked(c) = [branch |-> c.arg, at |-> <<>>]
      BY <2>1 DEF Asked
    <2>3. /\ Revision(c).at = Append(<<>>, Head(c.arg))
          /\ Head(c.arg) \in Remotes
      BY <1>1, <2>2 DEF Revision, NormalizeRevision
    <2>4. Head(Revision(c).at) = Head(c.arg)
      BY <2>3
    <2>5. NewName(c) = MarkedName(c.arg, Head(c.arg))
      BY <1>1, <2>4 DEF NewName
    <2> QED
      BY <2>3, <2>5 DEF Names
  <1>2. CASE MakesBookmark(c) \/ Revision(c).at = <<>>
    BY <1>2 DEF NewName, WorkspaceName, Names
  <1> QED
    BY <1>1, <1>2

\* A revision that resolves to no remote bookmark is a local one or is empty.
LEMMA ParentsType ==
    ASSUME RepoOK, NEW c, RevisionResolves(c), NEW on \in Parents(c)
    PROVE  on \in DOMAIN workspaces \cup {Elsewhere}
  <1> DEFINE r == Revision(c)
  <1>1. \A n \in DOMAIN workspaces :
          workspaces[n].on \in DOMAIN workspaces \cup {Elsewhere}
    BY DEF RepoOK
  <1>2. \A b \in DOMAIN bookmarks :
          bookmarks[b] \in DOMAIN workspaces \cup {Elsewhere}
    BY DEF RepoOK
  <1>3. CASE r.at # <<>>
    BY <1>3 DEF Parents
  <1>4. CASE r.at = <<>> /\ r.branch = <<>>
    BY <1>1, <1>4 DEF Parents
  <1>5. CASE r.at = <<>> /\ r.branch # <<>>
    <2>1. r.branch \in DOMAIN bookmarks
      <3>1. ASSUME NEW m \in remoteMarks, r = [branch |-> m[1], at |-> <<m[2]>>]
            PROVE  FALSE
        <4>1. r.at = <<m[2]>>
          BY <3>1
        <4> DEFINE remote == m[2]
        <4>2. r.at = <<remote>>
          BY <4>1
        <4> HIDE DEF r, remote
        <4>3. <<remote>> # <<>>
          OBVIOUS
        <4> QED
          BY <1>5, <4>2, <4>3
      <3> QED
        BY <1>5, <3>1 DEF RevisionResolves
    <2>2. Parents(c) = {bookmarks[r.branch]}
      BY <1>5 DEF Parents
    <2> QED
      BY <1>2, <2>1, <2>2
  <1> QED
    BY <1>3, <1>4, <1>5

\* Every name the commands can meet is a non-empty sequence of segments.
LEMMA NamesType ==
    /\ Names \subseteq Paths
    /\ Elsewhere \in Paths /\ Elsewhere \notin Names
    /\ DefaultName \in Names
  <1>1. \A b \in Branches : ExtractBranchName(b) \in Paths \ {<<>>}
    <2> SUFFICES ASSUME NEW b \in Branches PROVE ExtractBranchName(b) \in Paths \ {<<>>}
      OBVIOUS
    <2>1. b \in Seq(Segments) /\ b # <<>>
      BY WorkspacesAssumption
    <2>2. Last(b) \in Segments
      BY <2>1, EmptySeq, LenProperties DEF Last
    <2> QED
      BY <2>2 DEF ExtractBranchName
  <1>2. DefaultName \in Paths \ {<<>>}
    <2>1. Len(DefaultName) = 1 /\ Len(<<>>) = 0
      BY DEF DefaultName
    <2>2. DefaultName \in Paths
      BY WorkspacesAssumption
    <2> QED
      BY <2>1, <2>2
  <1>3. \A b \in Branches, r \in Remotes : MarkedName(b, r) \in Paths \ {<<>>}
    BY WorkspacesAssumption DEF MarkedName
  <1> QED
    BY <1>1, <1>2, <1>3, WorkspacesAssumption DEF Names, Elsewhere

\* The record of a process that runs no command is a command record.
LEMMA IdleType == Idle \in Commands /\ Idle.pc = "idle"
  BY DEF Idle, Commands, PCs

\* The steps that change no more of a command than its place.
LEMMA GotoType ==
    ASSUME ProcOK, NEW p \in Procs, NEW pc \in PCs, Goto(p, pc),
           pc \in AddPCs => proc[p].arg \in Branches
    PROVE  ProcOK'
  BY DEF Goto, Commands, ProcOK

\* A command that ends leaves every process with a well-formed record.
LEMMA ReturnType ==
    ASSUME ProcOK, NEW p \in Procs, Return(p)
    PROVE  ProcOK'
  BY IdleType DEF Return, ProcOK, AddPCs

\* filepath.Dir of a path is a path.
LEMMA FrontType == \A s \in Paths : Front(s) \in Paths
  BY SubSeqProperties DEF Front

\* Every directory os.MkdirAll makes on the way to a path is a path.
LEMMA PrefixesType == \A s \in Paths : Prefixes(s) \subseteq Paths
  BY SubSeqProperties, Z3 DEF Prefixes

\* The branch shown for a workspace is a name.
LEMMA DisplayType ==
    ASSUME RepoOK, NEW n \in Names
    PROVE  DisplayName(n) \in Paths
  <1> DEFINE at == {b \in DOMAIN bookmarks : bookmarks[b] = n}
  <1>1. at \subseteq Names
    BY DEF RepoOK, Names
  <1>2. at # {} => First(at) \in Paths
    BY <1>1, FirstIsMember, NamesType
  <1> QED
    BY <1>2, NamesType DEF DisplayName

\* mainWorkspaceName's answer, and its root, are a registered name and a path.
LEMMA MainType ==
    ASSUME RepoOK, DefaultName \in DOMAIN workspaces
    PROVE  MainName = DefaultName /\ Root(MainName) \in Paths
  BY DEF MainName, Root, RepoOK

\* The repository that jtp finds is well formed.
THEOREM InitTypeOK == Init => TypeOK
  <1> SUFFICES ASSUME Init PROVE TypeOK
    OBVIOUS
  <1>1. RepoOK
    <2>1. DOMAIN Foreign \subseteq Names /\ Foreign \in [DOMAIN Foreign -> Paths]
      BY WorkspacesAssumption DEF Names
    <2>2. MainRoot \in Paths
      BY NamingAssumption
    <2> QED
      BY <2>1, <2>2, NamesType, WorkspacesAssumption DEF Init, RepoOK
  <1>2. content \subseteq Paths
    BY WorkspacesAssumption, NamingAssumption DEF Init, Range
  <1>4. DiskOK
    BY <1>2, PrefixesType DEF Init, DiskOK
  <1>5. ProcOK
    BY IdleType DEF Init, ProcOK, AddPCs
  <1> QED
    BY <1>1, <1>4, <1>5 DEF TypeOK

\* jj workspace add leaves the state well formed.
LEMMA AddWorkspaceType ==
    ASSUME TypeOK, NEW p \in Procs, AddWorkspace(p)
    PROVE  TypeOK'
  <1> USE DEF TypeOK
  <1> DEFINE c == proc[p]
             name == NewName(c)
             taken == /\ InRepo(c.cwd)
                      /\ name \notin DOMAIN workspaces
                      /\ IsFree(c.path)
                      /\ Front(c.path) \in dirs
                      /\ RevisionResolves(c)
  <1>1. c \in Commands /\ c.arg \in Branches
    BY DEF AddWorkspace, ProcOK, At, AddPCs
  <1>2. name \in Names
    BY <1>1, NewNameType
  <1>3. CASE taken
    <2>1. PICK on \in Parents(c) :
            workspaces' = [n \in DOMAIN workspaces \cup {name} |->
                IF n = name THEN [root |-> c.path, on |-> on] ELSE workspaces[n]]
      BY <1>3 DEF AddWorkspace
    <2>2. RevisionResolves(c)
      BY <1>3
    <2>3. on \in DOMAIN workspaces \cup {Elsewhere}
      BY <2>1, <2>2, ParentsType
    <2>4. c.path \in Paths
      BY <1>1 DEF Commands
    <2>5. RepoOK'
      <3>1. DOMAIN workspaces' = DOMAIN workspaces \cup {name}
        BY <2>1
      <3>2. workspaces' \in [DOMAIN workspaces' ->
                 [root : Paths, on : DOMAIN workspaces' \cup {Elsewhere}]]
        <4>1. \A n \in DOMAIN workspaces :
                workspaces[n] \in [root : Paths, on : DOMAIN workspaces' \cup {Elsewhere}]
          BY <3>1 DEF RepoOK
        <4>2. [root |-> c.path, on |-> on]
                \in [root : Paths, on : DOMAIN workspaces' \cup {Elsewhere}]
          BY <2>3, <2>4, <3>1
        <4> HIDE DEF name
        <4> QED
          BY <2>1, <3>1, <4>1, <4>2
      <3> HIDE DEF name
      <3>3. bookmarks' = bookmarks /\ remoteMarks' = remoteMarks
        BY DEF AddWorkspace
      <3> QED
        BY <1>2, <3>1, <3>2, <3>3 DEF RepoOK
    <2>6. DiskOK'
      BY <1>3, <2>4 DEF AddWorkspace, DiskOK
    <2>7. ProcOK'
      <3>1. proc' = [proc EXCEPT ![p].name = name,
                        ![p].pc = IF MakesBookmark(c) THEN "bookmark" ELSE "hooks"]
        BY <1>3 DEF AddWorkspace
      <3>2. name \in Paths
        BY <1>2, NamesType
      <3> HIDE DEF name
      <3> QED
        BY <1>1, <3>1, <3>2 DEF ProcOK, Commands, PCs, AddPCs
    <2> QED
      BY <2>5, <2>6, <2>7
  <1>4. CASE ~taken
    <2>1. Return(p) /\ UNCHANGED <<workspaces, dirs, content, bookmarks, remoteMarks, dirty>>
      BY <1>4 DEF AddWorkspace
    <2> QED
      BY <2>1, ReturnType DEF RepoOK, DiskOK
  <1> QED
    BY <1>3, <1>4

\* Each action keeps the state well formed.  The main workspace must be there
\* for jtp to know what base_dir is relative to.
LEMMA AddTypeOK ==
    ASSUME TypeOK, DefaultName \in DOMAIN workspaces,
           NEW p \in Procs, AddStep(p)
    PROVE  TypeOK'
  <1> USE DEF TypeOK, repoVars, diskVars
  <1>0. proc[p] \in Commands /\ (proc[p].pc \in AddPCs => proc[p].arg \in Branches)
    BY DEF ProcOK
  <1>1. CASE AddStart(p)
    <2>1. PICK b \in Branches, new \in BOOLEAN, cwd \in Cwds :
           \E rev \in (IF new THEN Revisions ELSE {<<>>}),
              repo \in {Root(MainName)} \cup (IF RootLookupFails THEN {cwd.path} ELSE {}) :
             proc' = [proc EXCEPT ![p] = NewAdd(b, new, rev, repo, cwd.path)]
      BY <1>1 DEF AddStart
    <2>2. PICK rev \in (IF new THEN Revisions ELSE {<<>>}),
               repo \in {Root(MainName)} \cup (IF RootLookupFails THEN {cwd.path} ELSE {}) :
             proc' = [proc EXCEPT ![p] = NewAdd(b, new, rev, repo, cwd.path)]
      BY <2>1
    <2>3. cwd.path \in Paths /\ repo \in Paths
      BY MainType, WorkspacesAssumption
    <2>4. b \in Paths /\ rev \in Paths
      BY WorkspacesAssumption, NamesType DEF Elsewhere
    <2>5. ResolveWorktreePath(repo, b) \in Paths
      BY <2>3, <2>4, ResolveType
    <2>6. ProcOK'
      BY <2>2, <2>3, <2>4, <2>5, IdleType DEF NewAdd, Commands, PCs, ProcOK, AddPCs
    <2> QED
      BY <1>1, <2>6 DEF AddStart, RepoOK, DiskOK
  <1>2. CASE AddMkdir(p)
    <2>1. ProcOK'
      BY <1>0, <1>2, GotoType DEF AddMkdir, At, PCs, AddPCs
    <2>2. Prefixes(Front(proc[p].path)) \subseteq Paths
      <3>1. proc[p].path \in Paths
        BY <1>0 DEF Commands
      <3>2. Front(proc[p].path) \in Paths
        BY <3>1, FrontType
      <3> QED
        BY <3>2, PrefixesType
    <2> QED
      BY <1>2, <2>1, <2>2 DEF AddMkdir, RepoOK, DiskOK
  <1>3. CASE AddResolveLocal(p)
    <2>1. CASE InRepo(proc[p].repo)
      BY <1>0, <1>3, <2>1, GotoType DEF AddResolveLocal, At, PCs, AddPCs, RepoOK, DiskOK
    <2>2. CASE ~InRepo(proc[p].repo)
      BY <1>3, <2>2, ReturnType DEF AddResolveLocal, RepoOK, DiskOK
    <2> QED
      BY <2>1, <2>2
  <1>4. CASE AddResolveRemote(p)
    <2> DEFINE found == RemotesWith(proc[p].arg)
    <2>1. CASE InRepo(proc[p].repo) /\ Cardinality(found) = 1
      <3>1. found # {}
        BY <2>1, FS_EmptySet
      <3>2. (CHOOSE r \in found : TRUE) \in Remotes
        BY <3>1 DEF RemotesWith
      <3>3. PICK r \in Remotes :
              proc' = [proc EXCEPT ![p].pc = "workspace", ![p].track = r]
        BY <1>4, <2>1, <3>2 DEF AddResolveRemote
      <3>4. proc[p].arg \in Branches
        BY <1>0, <1>4 DEF AddResolveRemote, At, AddPCs
      <3>5. ProcOK'
        BY <1>0, <3>3, <3>4 DEF Commands, PCs, AddPCs, ProcOK
      <3> QED
        BY <1>4, <3>5 DEF AddResolveRemote, RepoOK, DiskOK
    <2>2. CASE ~(InRepo(proc[p].repo) /\ Cardinality(found) = 1)
      BY <1>4, <2>2, ReturnType DEF AddResolveRemote, RepoOK, DiskOK
    <2> QED
      BY <2>1, <2>2
  <1>5. CASE AddWorkspace(p)
    BY <1>5, AddWorkspaceType
  <1>6. CASE AddBookmark(p)
    <2>1. ProcOK'
      BY <1>0, <1>6, GotoType, ReturnType DEF AddBookmark, At, PCs, AddPCs
    <2>2. RepoOK'
      <3>1. CASE UNCHANGED bookmarks
        BY <1>6, <3>1 DEF AddBookmark, RepoOK
      <3>2. CASE /\ proc[p].name \in DOMAIN workspaces
                 /\ bookmarks' = [b \in DOMAIN bookmarks \cup {proc[p].arg} |->
                       IF b = proc[p].arg THEN workspaces[proc[p].name].on
                                          ELSE bookmarks[b]]
        <4>1. workspaces[proc[p].name].on \in DOMAIN workspaces \cup {Elsewhere}
          BY <3>2 DEF RepoOK
        <4>2. proc[p].arg \in Branches
          BY <1>0, <1>6 DEF AddBookmark, At, AddPCs
        <4> QED
          BY <1>6, <3>2, <4>1, <4>2 DEF AddBookmark, RepoOK
      <3> QED
        BY <1>6, <3>1, <3>2 DEF AddBookmark
    <2> QED
      BY <1>6, <2>1, <2>2 DEF AddBookmark, DiskOK
  <1>7. CASE AddHooks(p)
    <2>1. ProcOK'
      BY <1>0, <1>7, GotoType DEF AddHooks, At, PCs, AddPCs
    <2>2. proc[p].path \in Paths
      BY <1>0 DEF Commands
    <2>3. Prefixes(proc[p].path) \subseteq Paths
      BY <2>2, PrefixesType
    <2>4. RepoOK'
      BY <1>7 DEF AddHooks, repoVars, RepoOK
    <2>5. DiskOK'
      BY <1>7, <2>2, <2>3 DEF AddHooks, diskVars, DiskOK
    <2> QED
      BY <2>1, <2>4, <2>5
  <1>8. CASE AddExec(p)
    BY <1>8, ReturnType DEF AddExec, RepoOK, DiskOK
  <1> QED
    BY <1>1, <1>2, <1>3, <1>4, <1>5, <1>6, <1>7, <1>8 DEF AddStep

\* Once a workspace's working-copy commit is left behind, nothing sits on it.
LEMMA LeavingType ==
    ASSUME RepoOK, NEW name \in DOMAIN workspaces,
           NEW S \in {DOMAIN workspaces, DOMAIN workspaces \ {name}}
    PROVE  /\ WorkspacesLeaving(name, S) \in
                 [S -> [root : Paths, on : (DOMAIN workspaces \ {name}) \cup {Elsewhere}]]
           /\ \A n \in S : WorkspacesLeaving(name, S)[n].root = Root(n)
           /\ BookmarksWithout(name) \in
                 [DOMAIN bookmarks -> (DOMAIN workspaces \ {name}) \cup {Elsewhere}]
  <1>1. \A n \in S : workspaces[n] \in
            [root : Paths, on : DOMAIN workspaces \cup {Elsewhere}]
    BY DEF RepoOK
  <1>2. \A n \in S : [workspaces[n] EXCEPT !.on = Left(@, name)] \in
            [root : Paths, on : (DOMAIN workspaces \ {name}) \cup {Elsewhere}]
    BY <1>1 DEF Left
  <1>3. \A n \in S : [workspaces[n] EXCEPT !.on = Left(@, name)].root = Root(n)
    BY <1>1 DEF Root
  <1>4. \A b \in DOMAIN bookmarks : Left(bookmarks[b], name) \in
            (DOMAIN workspaces \ {name}) \cup {Elsewhere}
    BY DEF RepoOK, Left
  <1> QED
    BY <1>2, <1>3, <1>4 DEF WorkspacesLeaving, BookmarksWithout

\* Every step of a jtp remove keeps the state well formed.
LEMMA RemoveTypeOK ==
    ASSUME TypeOK, NEW p \in Procs, RemoveStep(p)
    PROVE  TypeOK'
  <1> USE DEF TypeOK, repoVars, diskVars
  <1>0. proc[p] \in Commands
    BY DEF ProcOK
  <1>1. CASE RemFind(p)
    <2>1. PICK name \in Typed, withBranch \in BOOLEAN, cwd \in Cwds :
            /\ Matches(name) # {}
            /\ proc' = [proc EXCEPT ![p] =
                  NewRemove(name, withBranch, First(Matches(name)), cwd.path)]
      BY <1>1 DEF RemFind
    <2>2. First(Matches(name)) \in DOMAIN workspaces
      BY <2>1, FirstIsMember DEF Matches, RepoOK
    <2>3. DisplayName(First(Matches(name))) \in Paths /\ Root(First(Matches(name))) \in Paths
      BY <2>2, DisplayType DEF RepoOK, Root
    <2>4. cwd.path \in Paths /\ name \in Paths
      BY WorkspacesAssumption
    <2>5. ProcOK'
      BY <2>1, <2>3, <2>4, IdleType DEF NewRemove, Commands, ProcOK, PCs, AddPCs, RemovePCs
    <2> QED
      BY <1>1, <2>5 DEF RemFind, RepoOK, DiskOK
  <1>2. CASE RemRelist(p)
    <2>1. CASE Return(p)
      BY <1>2, <2>1, ReturnType DEF RemRelist, RepoOK, DiskOK
    <2>2. CASE /\ NamesAt(proc[p].path) # {}
               /\ proc' = [proc EXCEPT ![p].pc = "forget",
                                       ![p].name = First(NamesAt(proc[p].path))]
      <3>1. First(NamesAt(proc[p].path)) \in Names
        BY <2>2, FirstIsMember DEF NamesAt, RepoOK
      <3>2. First(NamesAt(proc[p].path)) \in Paths
        BY <3>1, NamesType
      <3>3. ProcOK'
        BY <1>0, <2>2, <3>2 DEF ProcOK, Commands, PCs, AddPCs, RemovePCs
      <3> QED
        BY <1>2, <3>3 DEF RemRelist, RepoOK, DiskOK
    <2> QED
      BY <1>2, <2>1, <2>2 DEF RemRelist
  <1>3. CASE RemForget(p)
    <2>1. CASE Return(p) /\ UNCHANGED <<workspaces, bookmarks>>
      BY <1>3, <2>1, ReturnType DEF RemForget, RepoOK, DiskOK
    <2>2. CASE /\ proc[p].name \in DOMAIN workspaces
               /\ workspaces' = WorkspacesLeaving(proc[p].name,
                                      DOMAIN workspaces \ {proc[p].name})
               /\ bookmarks' = BookmarksWithout(proc[p].name)
               /\ Goto(p, "clear")
      <3>1. ProcOK'
        BY <2>2, GotoType DEF PCs, AddPCs, RemovePCs
      <3>2. RepoOK'
        BY <1>3, <2>2, LeavingType DEF RemForget, RepoOK
      <3> QED
        BY <1>3, <3>1, <3>2 DEF RemForget, DiskOK
    <2> QED
      BY <1>3, <2>1, <2>2 DEF RemForget
  <1>4. CASE RemSweep(p)
    BY <1>4 DEF RemSweep, RepoOK, DiskOK, ProcOK
  <1>5. CASE RemRmdir(p)
    <2>1. ProcOK'
      BY <1>5, GotoType, ReturnType DEF RemRmdir, PCs, AddPCs, RemovePCs
    <2> QED
      BY <1>5, <2>1 DEF RemRmdir, RepoOK, DiskOK
  <1>6. CASE RemUnmark(p)
    <2>1. ProcOK'
      BY <1>6, ReturnType DEF RemUnmark
    <2>2. RepoOK'
      BY <1>6 DEF RemUnmark, RepoOK
    <2> QED
      BY <1>6, <2>1, <2>2 DEF RemUnmark, DiskOK
  <1> QED
    BY <1>1, <1>2, <1>3, <1>4, <1>5, <1>6 DEF RemoveStep

\* A command that stops early and the user's own steps keep the state well formed.
LEMMA AroundTypeOK ==
    ASSUME TypeOK, User \/ \E p \in Procs : Stop(p)
    PROVE  TypeOK'
  <1> USE DEF TypeOK, repoVars, diskVars
  <1>1. CASE UserEdit \/ UserRecord
    BY <1>1 DEF UserEdit, UserRecord, RepoOK, DiskOK, ProcOK
  <1>2. CASE UserMark
    BY <1>2 DEF UserMark, RepoOK, DiskOK, ProcOK
  <1>3. CASE UserNew
    <2>1. PICK n \in DOMAIN workspaces :
            /\ bookmarks' = BookmarksWithout(n)
            /\ workspaces' = [WorkspacesLeaving(n, DOMAIN workspaces)
                                EXCEPT ![n].on = Elsewhere]
      BY <1>3 DEF UserNew
    <2> DEFINE W == WorkspacesLeaving(n, DOMAIN workspaces)
    <2>3. W \in [DOMAIN workspaces ->
                    [root : Paths, on : DOMAIN workspaces \cup {Elsewhere}]]
      BY LeavingType
    <2>4. workspaces' \in [DOMAIN workspaces ->
                    [root : Paths, on : DOMAIN workspaces \cup {Elsewhere}]]
      <3> HIDE DEF W
      <3> QED
        BY <2>1, <2>3 DEF W
    <2>2. RepoOK'
      BY <1>3, <2>1, <2>4, LeavingType DEF UserNew, RepoOK
    <2> QED
      BY <1>3, <2>2 DEF UserNew, DiskOK, ProcOK
  <1>4. CASE UserFetch
    BY <1>4, WorkspacesAssumption DEF UserFetch, RepoOK, DiskOK, ProcOK
  <1>5. CASE \E p \in Procs : Stop(p)
    BY <1>5, ReturnType DEF Stop, RepoOK, DiskOK
  <1> QED
    BY <1>1, <1>2, <1>3, <1>4, <1>5 DEF User

\* A step that changes nothing keeps the state well formed.
LEMMA StutterTypeOK == TypeOK /\ UNCHANGED vars => TypeOK'
  BY DEF TypeOK, vars, RepoOK, DiskOK, ProcOK

-----------------------------------------------------------------------------
(* The main worktree and the unmanaged ones survive.                       *)

\* The main worktree and the unmanaged ones are in place when jtp first runs.
THEOREM InitProtected == Init => Protected
  <1> SUFFICES ASSUME Init PROVE Protected
    OBVIOUS
  <1>1. \A n \in DOMAIN Foreign : n # DefaultName
    BY WorkspacesAssumption
  <1>2. MainSafe
    BY DEF Init, MainSafe, Root
  <1>3. \A n \in DOMAIN Foreign : Root(n) = Foreign[n] /\ Foreign[n] \in content
    BY <1>1 DEF Init, Root, Range
  <1>4. UnmanagedSafe
    BY <1>3 DEF Init, UnmanagedSafe, Unmanaged
  <1>5. \A n \in DOMAIN workspaces \ {DefaultName} : ~IsPathWithin(Root(n), MainRoot)
    BY <1>3, ForeignAssumption DEF Init
  <1>6. \A p \in Procs : Aimed(proc[p])
    BY IdleType DEF Init, Aimed
  <1> QED
    BY <1>2, <1>4, <1>5, <1>6 DEF Protected

\* jtp add only registers workspaces at free places and touches no other command.
LEMMA AddEffect ==
    ASSUME TypeOK, NEW p \in Procs, AddStep(p)
    PROVE  /\ content \subseteq content'
           /\ DOMAIN workspaces \subseteq DOMAIN workspaces'
           /\ \A n \in DOMAIN workspaces : workspaces'[n] = workspaces[n]
           /\ \A n \in DOMAIN workspaces' \ DOMAIN workspaces : IsFree(workspaces'[n].root)
           /\ \A q \in Procs \ {p} : proc'[q] = proc[q]
           /\ proc'[p].pc \notin RemovePCs
  <1> USE DEF repoVars, diskVars, At, RemovePCs
  <1>0. proc \in [Procs -> Commands]
    BY DEF TypeOK, ProcOK
  <1>1. CASE AddStart(p)
    <2>1. PICK b \in Branches, new \in BOOLEAN, cwd \in Cwds :
           \E rev \in (IF new THEN Revisions ELSE {<<>>}),
              repo \in {Root(MainName)} \cup (IF RootLookupFails THEN {cwd.path} ELSE {}) :
             proc' = [proc EXCEPT ![p] = NewAdd(b, new, rev, repo, cwd.path)]
      BY <1>1 DEF AddStart
    <2>2. \A b1, new1, rev1, repo1, dir1 : NewAdd(b1, new1, rev1, repo1, dir1).pc = "mkdir"
      BY DEF NewAdd, Idle
    <2>3. proc'[p].pc = "mkdir" /\ \A q \in Procs \ {p} : proc'[q] = proc[q]
      BY <1>0, <2>1, <2>2
    <2> QED
      BY <1>1, <2>3 DEF AddStart
  <1>2. CASE AddWorkspace(p)
    <2> DEFINE c == proc[p]
               name == NewName(c)
    <2>1. CASE Return(p) /\ UNCHANGED <<workspaces, dirs, content>>
      BY <1>0, <2>1, IdleType DEF Return
    <2>2. CASE /\ name \notin DOMAIN workspaces
               /\ IsFree(c.path)
               /\ \E on \in Parents(c) :
                    workspaces' = [n \in DOMAIN workspaces \cup {name} |->
                       IF n = name THEN [root |-> c.path, on |-> on] ELSE workspaces[n]]
               /\ content' = content \cup {c.path}
               /\ proc' = [proc EXCEPT ![p].name = name,
                    ![p].pc = IF MakesBookmark(c) THEN "bookmark" ELSE "hooks"]
      <3>1. PICK on \in Parents(c) :
              workspaces' = [n \in DOMAIN workspaces \cup {name} |->
                 IF n = name THEN [root |-> c.path, on |-> on] ELSE workspaces[n]]
        BY <2>2
      <3>2. \A q \in Procs \ {p} : proc'[q] = proc[q]
        BY <1>0, <2>2
      <3>3. proc'[p].pc \in {"bookmark", "hooks"}
        BY <1>0, <2>2 DEF Commands
      <3> HIDE DEF name
      <3> QED
        BY <2>2, <3>1, <3>2, <3>3
    <2> QED
      BY <1>2, <2>1, <2>2 DEF AddWorkspace
  <1>3. CASE \/ AddMkdir(p) \/ AddResolveLocal(p) \/ AddBookmark(p)
             \/ AddHooks(p) \/ AddExec(p)
    <2>1. CASE AddMkdir(p)
      BY <1>0, <2>1, IdleType DEF AddMkdir, Goto, Commands, repoVars
    <2>2. CASE AddResolveLocal(p)
      BY <1>0, <2>2, IdleType DEF AddResolveLocal, Goto, Return, Commands, repoVars, diskVars
    <2>3. CASE AddBookmark(p)
      BY <1>0, <2>3, IdleType DEF AddBookmark, Goto, Return, Commands, diskVars
    <2>4. CASE AddHooks(p)
      BY <1>0, <2>4, IdleType DEF AddHooks, Goto, Commands, repoVars
    <2>5. CASE AddExec(p)
      BY <1>0, <2>5, IdleType DEF AddExec, Return, Commands, repoVars
    <2> QED
      BY <1>3, <2>1, <2>2, <2>3, <2>4, <2>5
  <1>4. CASE AddResolveRemote(p)
    <2> DEFINE r == CHOOSE r \in RemotesWith(proc[p].arg) : TRUE
    <2>1. \/ Return(p)
          \/ proc' = [proc EXCEPT ![p].pc = "workspace", ![p].track = r]
      BY <1>4 DEF AddResolveRemote
    <2> HIDE DEF r
    <2>2. \A q \in Procs \ {p} : proc'[q] = proc[q]
      BY <1>0, <2>1 DEF Return
    <2>3. proc'[p].pc \notin RemovePCs
      BY <1>0, <2>1, IdleType DEF Return, Commands
    <2> QED
      BY <1>4, <2>2, <2>3 DEF AddResolveRemote
  <1> QED
    BY <1>1, <1>2, <1>3, <1>4 DEF AddStep

\* No step of a jtp add touches the main worktree or an unmanaged one, or puts
\* a worktree on the way to the main one.
LEMMA AddProtected ==
    ASSUME TypeOK, Protected, NEW p \in Procs, AddStep(p)
    PROVE  Protected'
  <1>1. MainSafe'
    BY AddEffect DEF Protected, MainSafe, Root
  <1>2. UnmanagedSafe'
    BY AddEffect DEF Protected, UnmanagedSafe, Root
  <1>3. \A n \in DOMAIN workspaces' \ {DefaultName} :
          ~IsPathWithin(workspaces'[n].root, MainRoot)
    <2> SUFFICES ASSUME NEW n \in DOMAIN workspaces' \ {DefaultName}
                 PROVE  ~IsPathWithin(workspaces'[n].root, MainRoot)
      OBVIOUS
    <2>1. CASE n \in DOMAIN workspaces
      BY <2>1, AddEffect DEF Protected, Root
    <2>2. CASE n \notin DOMAIN workspaces
      <3>1. Under(content, workspaces'[n].root) = {}
        BY <2>2, AddEffect DEF IsFree
      <3> QED
        BY <3>1 DEF Under, Protected, MainSafe
    <2> QED
      BY <2>1, <2>2
  <1>4. \A q \in Procs : Aimed(proc[q])'
    BY AddEffect DEF Protected, Aimed, RemovePCs
  <1> QED
    BY <1>1, <1>2, <1>3, <1>4 DEF Protected, Root

\* What os.RemoveAll reaches from a managed path is managed.
LEMMA UnderManaged ==
    ASSUME NEW p \in Paths, IsManaged(p, MainRoot), NEW d \in Paths, IsPathWithin(p, d)
    PROVE  IsManaged(d, MainRoot)
  <1>1. ResolveBase(MainRoot) \in Paths
    BY NamingAssumption, ResolveType, EmptySeq
  <1> QED
    BY <1>1, WithinTransitive DEF IsManaged

\* No step of a jtp remove forgets or deletes the main worktree or an unmanaged
\* one: what it holds passed both filters of findTargetWorktreeFromList.
LEMMA RemoveProtected ==
    ASSUME TypeOK, Protected, NEW p \in Procs, RemoveStep(p)
    PROVE  Protected'
  <1> USE DEF repoVars, diskVars, At
  <1>0. proc \in [Procs -> Commands] /\ RepoOK /\ Aimed(proc[p])
    BY DEF TypeOK, ProcOK, Protected
  <1>1. MainName = DefaultName /\ Root(MainName) = MainRoot
    BY DEF Protected, MainSafe, MainName
  <1>a. ASSUME \A q \in Procs \ {p} : proc'[q] = proc[q], Aimed(proc'[p])
        PROVE  \A q \in Procs : Aimed(proc'[q])
    BY <1>a DEF Protected
  <1>b. ASSUME UNCHANGED <<workspaces, content>>, \A q \in Procs : Aimed(proc'[q])
        PROVE  Protected'
    BY <1>b DEF Protected, MainSafe, UnmanagedSafe, Root, Aimed
  <1>c. ASSUME Return(p)
        PROVE  (\A q \in Procs \ {p} : proc'[q] = proc[q]) /\ Aimed(proc'[p])
    BY <1>0, <1>c, IdleType DEF Return, Aimed
  <1>2. CASE RemFind(p)
    <2>1. PICK name \in Typed, withBranch \in BOOLEAN, cwd \in Cwds :
            /\ Matches(name) # {}
            /\ proc' = [proc EXCEPT ![p] =
                  NewRemove(name, withBranch, First(Matches(name)), cwd.path)]
      BY <1>2 DEF RemFind
    <2> DEFINE target == First(Matches(name))
    <2>2. target \in Matches(name)
      BY <1>0, <2>1, FirstIsMember DEF Matches, RepoOK
    <2>3. IsManaged(Root(target), MainRoot) /\ ~IsPathWithin(Root(target), MainRoot)
      BY <1>1, <2>2 DEF Matches, Protected
    <2>4. Aimed(NewRemove(name, withBranch, target, cwd.path))
      BY <2>3 DEF Aimed, NewRemove, Idle
    <2>5. \A q \in Procs : Aimed(proc'[q])
      <3> HIDE DEF target
      <3> QED
        BY <1>0, <1>a, <2>1, <2>4 DEF target
    <2> QED
      BY <1>2, <1>b, <2>5 DEF RemFind
  <1>3. CASE RemRelist(p)
    <2>1. CASE Return(p)
      BY <1>3, <1>a, <1>b, <1>c, <2>1 DEF RemRelist
    <2>2. CASE /\ NamesAt(proc[p].path) # {}
               /\ proc' = [proc EXCEPT ![p].pc = "forget",
                                       ![p].name = First(NamesAt(proc[p].path))]
      <3> DEFINE name == First(NamesAt(proc[p].path))
      <3>1. name \in DOMAIN workspaces /\ Root(name) = proc[p].path
        BY <1>0, <2>2, FirstIsMember DEF NamesAt, RepoOK
      <3>2. IsManaged(proc[p].path, MainRoot) /\ ~IsPathWithin(proc[p].path, MainRoot)
        BY <1>0, <1>3 DEF RemRelist, Aimed
      <3>3. name # DefaultName
        BY <3>1, <3>2, WithinSelf, NamingAssumption DEF Protected, MainSafe
      <3>4. name \notin Unmanaged
        BY <3>1, <3>2 DEF Protected, UnmanagedSafe, Unmanaged
      <3> HIDE DEF name
      <3>5. /\ proc'[p].pc = "forget" /\ proc'[p].name = name
            /\ proc'[p].path = proc[p].path
            /\ \A q \in Procs \ {p} : proc'[q] = proc[q]
        BY <1>0, <2>2 DEF name, Commands
      <3>6. Aimed(proc'[p])
        BY <3>2, <3>3, <3>4, <3>5 DEF Aimed
      <3> QED
        BY <1>3, <1>a, <1>b, <3>5, <3>6 DEF RemRelist
    <2> QED
      BY <1>3, <2>1, <2>2 DEF RemRelist
  <1>4. CASE RemForget(p)
    <2>1. CASE Return(p) /\ UNCHANGED <<workspaces, bookmarks>>
      BY <1>4, <1>a, <1>b, <1>c, <2>1 DEF RemForget
    <2>2. CASE /\ proc[p].name \in DOMAIN workspaces
               /\ workspaces' = WorkspacesLeaving(proc[p].name,
                                      DOMAIN workspaces \ {proc[p].name})
               /\ Goto(p, "clear")
      <3>1. proc[p].name \notin Unmanaged \cup {DefaultName}
        BY <1>0, <1>4 DEF RemForget, Aimed
      <3>2. /\ DOMAIN workspaces' = DOMAIN workspaces \ {proc[p].name}
            /\ \A n \in DOMAIN workspaces' : workspaces'[n].root = Root(n)
        BY <1>0, <2>2, LeavingType
      <3>3. MainSafe' /\ UnmanagedSafe'
        BY <1>4, <3>1, <3>2 DEF RemForget, Protected, MainSafe, UnmanagedSafe, Root
      <3>4. /\ proc'[p].pc = "clear" /\ proc'[p].path = proc[p].path
            /\ \A q \in Procs \ {p} : proc'[q] = proc[q]
        BY <1>0, <2>2 DEF Goto, Commands
      <3>5. Aimed(proc'[p])
        BY <1>0, <1>4, <3>4 DEF RemForget, Aimed
      <3>6. \A n \in DOMAIN workspaces' \ {DefaultName} :
              ~IsPathWithin(workspaces'[n].root, MainRoot)
        BY <3>2 DEF Protected
      <3>7. \A q \in Procs : Aimed(proc'[q])
        BY <1>a, <3>4, <3>5
      <3> QED
        BY <3>3, <3>6, <3>7 DEF Protected, Root, Aimed
    <2> QED
      BY <1>4, <2>1, <2>2 DEF RemForget
  <1>5. CASE RemSweep(p)
    <2>1. PICK d \in Under(content, proc[p].path) : content' = content \ {d}
      BY <1>5 DEF RemSweep
    <2>2. IsManaged(proc[p].path, MainRoot) /\ ~IsPathWithin(proc[p].path, MainRoot)
      BY <1>0, <1>5 DEF RemSweep, Aimed
    <2>3. d \in Paths /\ proc[p].path \in Paths /\ IsPathWithin(proc[p].path, d)
      BY <1>0, <2>1 DEF Under, TypeOK, DiskOK, Commands
    <2>4. d # MainRoot
      BY <2>2, <2>3
    <2>5. IsManaged(d, MainRoot)
      BY <2>2, <2>3, UnderManaged
    <2>6. MainSafe' /\ UnmanagedSafe'
      BY <1>5, <2>1, <2>4, <2>5
         DEF RemSweep, Protected, MainSafe, UnmanagedSafe, Unmanaged, Root
    <2> QED
      BY <1>5, <2>6 DEF RemSweep, Protected, Root, Aimed
  <1>6. CASE RemRmdir(p)
    <2>1. CASE Return(p)
      BY <1>6, <1>a, <1>b, <1>c, <2>1 DEF RemRmdir
    <2>2. CASE Goto(p, "unmark")
      <3>1. proc'[p].pc = "unmark" /\ \A q \in Procs \ {p} : proc'[q] = proc[q]
        BY <1>0, <2>2 DEF Goto, Commands
      <3>2. Aimed(proc'[p])
        BY <3>1 DEF Aimed
      <3> QED
        BY <1>6, <1>a, <1>b, <3>1, <3>2 DEF RemRmdir
    <2> QED
      BY <1>6, <2>1, <2>2 DEF RemRmdir
  <1>7. CASE RemUnmark(p)
    BY <1>7, <1>a, <1>b, <1>c DEF RemUnmark
  <1> QED
    BY <1>2, <1>3, <1>4, <1>5, <1>6, <1>7 DEF RemoveStep

\* A command that stops early and the user's own steps keep Protected.
LEMMA AroundProtected ==
    ASSUME TypeOK, Protected, User \/ \E p \in Procs : Stop(p)
    PROVE  Protected'
  <1> USE DEF repoVars, diskVars
  <1>1. CASE \E p \in Procs : Stop(p)
    <2>1. PICK p \in Procs : Stop(p)
      BY <1>1
    <2>2. \A q \in Procs : proc'[q] = proc[q] \/ proc'[q] = Idle
      BY <2>1 DEF Stop, Return, TypeOK, ProcOK
    <2>3. \A q \in Procs : Aimed(proc'[q])
      BY <2>2, IdleType DEF Protected, Aimed
    <2> QED
      BY <2>1, <2>3 DEF Stop, Protected, MainSafe, UnmanagedSafe, Root, Aimed
  <1>2. CASE UserEdit \/ UserRecord \/ UserMark \/ UserFetch
    BY <1>2 DEF UserEdit, UserRecord, UserMark, UserFetch, Protected, MainSafe,
                UnmanagedSafe, Root, Aimed
  <1>3. CASE UserNew
    <2>1. PICK n \in DOMAIN workspaces :
            workspaces' = [WorkspacesLeaving(n, DOMAIN workspaces)
                             EXCEPT ![n].on = Elsewhere]
      BY <1>3 DEF UserNew
    <2> DEFINE W == WorkspacesLeaving(n, DOMAIN workspaces)
    <2>2. /\ W \in [DOMAIN workspaces ->
               [root : Paths, on : (DOMAIN workspaces \ {n}) \cup {Elsewhere}]]
          /\ \A m \in DOMAIN workspaces : W[m].root = Root(m)
      BY LeavingType DEF TypeOK
    <2>3. /\ DOMAIN workspaces' = DOMAIN workspaces
          /\ \A m \in DOMAIN workspaces : workspaces'[m].root = Root(m)
      <3> HIDE DEF W
      <3> QED
        BY <2>1, <2>2 DEF W
    <2> QED
      BY <1>3, <2>3 DEF UserNew, Protected, MainSafe, UnmanagedSafe, Root, Aimed
  <1> QED
    BY <1>1, <1>2, <1>3 DEF User

\* A step that changes nothing keeps Protected.
LEMMA StutterProtected == Protected /\ UNCHANGED vars => Protected'
  BY DEF Protected, MainSafe, UnmanagedSafe, Aimed, Root, vars

\* Well-formedness and protection are an inductive invariant.
THEOREM ProtectedInvariant == Spec => [](TypeOK /\ Protected)
  <1>1. Init => TypeOK /\ Protected
    BY InitTypeOK, InitProtected
  <1>2. TypeOK /\ Protected /\ [Next]_vars => (TypeOK /\ Protected)'
    <2> SUFFICES ASSUME TypeOK, Protected, [Next]_vars
                 PROVE  TypeOK' /\ Protected'
      OBVIOUS
    <2>1. ASSUME NEW p \in Procs, AddStep(p) PROVE TypeOK' /\ Protected'
      BY <2>1, AddTypeOK, AddProtected DEF Protected, MainSafe
    <2>2. ASSUME NEW p \in Procs, RemoveStep(p) PROVE TypeOK' /\ Protected'
      BY <2>2, RemoveTypeOK, RemoveProtected
    <2>3. CASE User \/ \E p \in Procs : Stop(p)
      BY <2>3, AroundTypeOK, AroundProtected
    <2>4. CASE UNCHANGED vars
      BY <2>4, StutterTypeOK, StutterProtected
    <2> QED
      BY <2>1, <2>2, <2>3, <2>4 DEF Next
  <1> QED
    BY <1>1, <1>2, PTL DEF Spec

\* Every reachable state is well formed: no bookmark and no workspace is left on
\* the working copy of a workspace that add, remove or jj has forgotten.
THEOREM TypeCorrect == Spec => []TypeOK
  BY ProtectedInvariant, PTL

\* No interleaving of adds, removes, failures and the user's jj commands takes
\* the main worktree out of jj's registry or off the disk.
THEOREM MainIsSafe == Spec => []MainSafe
  <1>1. Protected => MainSafe
    BY DEF Protected
  <1> QED
    BY <1>1, ProtectedInvariant, PTL

\* Nor does it touch a worktree made outside base_dir.
THEOREM UnmanagedIsSafe == Spec => []UnmanagedSafe
  <1>1. Protected => UnmanagedSafe
    BY DEF Protected
  <1> QED
    BY <1>1, ProtectedInvariant, PTL

=============================================================================
