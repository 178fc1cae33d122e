----------------------------- MODULE HookFiles -----------------------------
(***************************************************************************)
(* The copy and symlink hooks of one jtp add on the file system            *)
(* (internal/hooks/executor.go), with the loading of the configuration     *)
(* they come from (internal/config/config.go), while the user may remove   *)
(* files of the main worktree.                                             *)
(*                                                                         *)
(* The file system is a function from paths to nodes.  A copied directory  *)
(* is listed when the recursion comes to it and its entries are copied     *)
(* after that, so the entries of all open directories form one list, todo. *)
(* Hooks run in order; a failing one ends them, and jtp add goes on.       *)
(***************************************************************************)
EXTENDS Naming

CONSTANTS
    Branch,    \* the branch whose worktree has been made
    InitFiles, \* the file system at that time
    Configs,   \* the hook lists the configuration file may hold
    Order,     \* the segments in the order os.ReadDir lists them
    MaxLength, \* the longest path the file system takes
    Removable  \* files of the main worktree that the user may remove

Worktree == ResolveWorktreePath(MainRoot, Branch)

\* What a hook says of a path: nothing, or a path that is absolute or relative.
Places == [kind : {"none", "rel", "abs"}, up : Nat, rest : Seq(Segments)]

Dir(write) == [kind |-> "dir", data |-> "", to |-> <<>>, read |-> TRUE, write |-> write]

Node(n) ==
    /\ n.kind \in {"dir", "file", "link"}
    /\ n.to \in Seq(Segments)
    /\ n.read \in BOOLEAN /\ n.write \in BOOLEAN
    /\ n.kind = "dir" => n.data = ""

IsDirOf(f, p) == p \in DOMAIN f /\ f[p].kind = "dir"
IsLinkOf(f, p) == p \in DOMAIN f /\ f[p].kind = "link"

\* The root is a directory, and every other path is in a directory.
Tree(f) ==
    /\ DOMAIN f \subseteq Seq(Segments) /\ IsDirOf(f, <<>>)
    /\ \A p \in DOMAIN f : Node(f[p]) /\ IsDirOf(f, Front(p))

\* A link of the repository is given by where it leads.  What it leads to may be
\* missing, but not the directory that would hold it: the first hook that makes
\* such a directory could close a circle of links.
LeadsToDir(f, link) == ~IsLinkOf(f, link.to) /\ IsDirOf(f, Front(link.to))

ASSUME HookFilesAssumption ==
    /\ Branch \in Seq(Segments) \ {<<>>}
    /\ Tree(InitFiles) /\ IsDirOf(InitFiles, MainRoot) /\ IsDirOf(InitFiles, Worktree)
    /\ \A p \in DOMAIN InitFiles :
          InitFiles[p].kind = "link" => LeadsToDir(InitFiles, InitFiles[p])
    /\ Configs \subseteq Seq([type : STRING, from : Places, to : Places, command : BOOLEAN])
    /\ Order \in Seq(Segments) /\ \A s \in Segments : \E i \in DOMAIN Order : Order[i] = s
    /\ Removable \subseteq {p \in DOMAIN InitFiles : InitFiles[p].kind = "file"}
    /\ MaxLength \in Nat

VARIABLES
    fs,    \* the file system: [path -> node]
    hooks, \* the loaded hooks
    hook,  \* the one that runs
    todo,  \* what its copy has left to do: [src, dst, isDir]
    pc     \* what jtp is doing

vars == <<fs, hooks, hook, todo, pc>>

Init ==
    /\ fs = InitFiles
    /\ hooks = <<>> /\ hook = 1 /\ todo = <<>> /\ pc = "load"

-----------------------------------------------------------------------------
(* The configuration.                                                      *)

\* Hook.ApplyDefaults: a copy goes to where it comes from, unless that is absolute.
WithDefaults(h) ==
    IF h.type = "copy" /\ h.to.kind = "none" /\ h.from.kind = "rel"
      THEN [h EXCEPT !.to = h.from] ELSE h

\* Hook.Validate.
Valid(h) ==
    CASE h.type = "copy" ->
            /\ h.from.kind # "none"
            /\ ~(h.to.kind = "none" /\ h.from.kind = "abs")
            /\ ~h.command
      [] h.type = "symlink" ->
            h.from.kind # "none" /\ h.to.kind # "none" /\ ~h.command
      [] h.type = "command" ->
            h.command /\ h.from.kind = "none" /\ h.to.kind = "none"
      [] OTHER -> FALSE

\* filepath.Join(base, place) for a relative place, filepath.Clean of an absolute.
PlaceIn(base, place) ==
    IF place.kind = "abs" THEN place.rest
    ELSE SubSeq(base, 1, IF place.up < Len(base) THEN Len(base) - place.up ELSE 0)
            \o place.rest

Source(h) == PlaceIn(MainRoot, h.from)
Target(h) == PlaceIn(Worktree, h.to)

\* ensureWithinBase, on the cleaned path and for relative places only.
AnyPlace(base, place) == TRUE
WithinBase(base, place) ==
    place.kind = "abs" \/ IsPathWithin(base, PlaceIn(base, place))

-----------------------------------------------------------------------------
(* The file system.                                                        *)

\* The path with every symbolic link on it followed.
Real[p \in Seq(Segments)] ==
    IF p = <<>> THEN p
    ELSE LET q == Append(Real[Front(p)], Last(p))
         IN  IF q \in DOMAIN fs /\ fs[q].kind = "link" THEN Real[fs[q].to] ELSE q

\* The same without following a link at its end.
Entry(p) == IF p = <<>> THEN p ELSE Append(Real[Front(p)], Last(p))

Exists(p) == Real[p] \in DOMAIN fs
IsDir(p) == Exists(p) /\ fs[Real[p]].kind = "dir"

\* What os.MkdirAll has to make, whether it can, and what it leaves.
Missing(p) == {q \in Prefixes(p) : ~Exists(q)}
CanMkdirAll(p) ==
    /\ \A q \in Prefixes(p) \ Missing(p) : IsDir(q)
    /\ \A q \in Missing(p) :
          /\ Entry(q) \notin DOMAIN fs
          /\ Len(q) <= MaxLength
          /\ Exists(Front(q)) => fs[Real[Front(q)]].write
MadeLastOnly(f, p, write) ==
    [q \in DOMAIN f \cup (IF Exists(p) THEN {} ELSE {Real[p]}) |->
        IF q \in DOMAIN f THEN f[q] ELSE Dir(write)]
Made(f, p, write) ==
    [q \in DOMAIN f \cup {Real[m] : m \in Missing(p)} |->
        IF q \in DOMAIN f THEN f[q] ELSE Dir(write)]

\* os.ReadDir: the names in a directory, in order.  A link is not a directory,
\* whatever it points to.
Nth(C, n) == CHOOSE i \in C : Cardinality({j \in C : j <= i}) = n
Listing(p) ==
    LET C == {i \in DOMAIN Order : Append(Real[p], Order[i]) \in DOMAIN fs}
    IN  [n \in 1..Cardinality(C) |-> Order[Nth(C, n)]]
IsDirEntry(p, s) == fs[Append(Real[p], s)].kind = "dir"

-----------------------------------------------------------------------------
(* The hooks.                                                              *)

Current == hooks[hook]

Fail == pc' = "failed" /\ UNCHANGED <<fs, hooks, hook, todo>>

\* LoadConfig: one invalid hook refuses the whole file, before anything is made.
Load ==
    /\ pc = "load"
    /\ \E c \in Configs :
         LET loaded == [i \in DOMAIN c |-> WithDefaults(c[i])]
         IN  IF \A i \in DOMAIN c : Valid(loaded[i])
               THEN hooks' = loaded /\ pc' = IF c = <<>> THEN "end" ELSE "start"
               ELSE pc' = "end" /\ UNCHANGED hooks
    /\ UNCHANGED <<fs, hook, todo>>

\* The checks that copy and symlink hooks share, and the parent directory; the
\* command hooks are the subject of module Hooks.
Checked(h) ==
    /\ WithinBase(MainRoot, h.from) /\ WithinBase(Worktree, h.to)
    /\ Exists(Source(h))
    /\ Source(h) # Target(h)
    /\ Exists(Target(h)) => Real[Source(h)] # Real[Target(h)]
StartOK(h) == Checked(h) /\ CanMkdirAll(Front(Target(h)))

\* os.MkdirAll, or the line logged after it, fails: the directories it has made on
\* its way stay.
ParentFails(p) ==
    /\ \E q \in Prefixes(p) : CanMkdirAll(q) /\ fs' = Made(fs, q, TRUE)
    /\ pc' = "failed" /\ UNCHANGED todo

Start ==
    /\ pc = "start"
    /\ \/ /\ Current.type = "command"
          /\ pc' \in {"confirm", "failed"} /\ UNCHANGED <<fs, todo>>
       \/ /\ Current.type # "command" /\ ~Checked(Current)
          /\ pc' = "failed" /\ UNCHANGED <<fs, todo>>
       \/ /\ Current.type # "command" /\ Checked(Current)
          /\ ParentFails(Front(Target(Current)))
       \/ /\ Current.type # "command" /\ StartOK(Current)
          /\ fs' = Made(fs, Front(Target(Current)), TRUE)
          /\ pc' = IF Current.type = "copy" THEN "copy" ELSE "link"
          /\ todo' = IF Current.type = "symlink" THEN <<>>
                     ELSE <<[src |-> Source(Current), dst |-> Target(Current),
                             isDir |-> IsDir(Source(Current))]>>
    /\ UNCHANGED <<hooks, hook>>

\* os.Symlink, after os.Lstat of its destination.
LinkToRelative(h) == [Dir(TRUE) EXCEPT !.kind = "link", !.to = h.from.rest]
LinkTo(h) == [Dir(TRUE) EXCEPT !.kind = "link", !.to = Source(h)]
Link ==
    /\ pc = "link"
    /\ LET at == Entry(Target(Current))
       IN  IF at \in DOMAIN fs \/ ~fs[Front(at)].write \/ Len(at) > MaxLength
             THEN Fail
             ELSE /\ fs' = [p \in DOMAIN fs \cup {at} |->
                              IF p = at THEN LinkTo(Current) ELSE fs[p]]
                  /\ pc' = "confirm"
                  /\ UNCHANGED <<hooks, hook, todo>>

\* ensureDirWritable(filepath.Dir(path)).
ParentWritable(path) == IsDir(Front(path)) /\ fs[Real[Front(path)]].write

\* copyDir: make the directory with the mode of its source, then list the source;
\* the directory stays when os.ReadDir fails.
FileEntries(t) ==
    LET names == SelectSeq(Listing(t.src), LAMBDA s : ~IsDirEntry(t.src, s))
    IN  [i \in DOMAIN names |->
            [src |-> Append(t.src, names[i]), dst |-> Append(t.dst, names[i]),
             isDir |-> FALSE]]
Entries(t) ==
    LET names == Listing(t.src)
    IN  [i \in DOMAIN names |->
            [src |-> Append(t.src, names[i]), dst |-> Append(t.dst, names[i]),
             isDir |-> IsDirEntry(t.src, names[i])]]
CopyDir ==
    /\ pc = "copy" /\ todo # <<>> /\ Head(todo).isDir
    /\ LET t == Head(todo)
       IN  IF /\ IsDir(t.src) /\ fs[Real[t.src]].read
              /\ ParentWritable(t.dst) /\ CanMkdirAll(t.dst)
             THEN /\ fs' = Made(fs, t.dst, fs[Real[t.src]].write)
                  /\ \/ todo' = Entries(t) \o Tail(todo) /\ UNCHANGED pc
                     \/ pc' = "failed" /\ UNCHANGED todo
                  /\ UNCHANGED <<hooks, hook>>
             ELSE Fail

\* copyFile: os.Create empties a destination that exists, through any link.
CopyOpen ==
    /\ pc = "copy" /\ todo # <<>> /\ ~Head(todo).isDir
    /\ LET t == Head(todo)
           at == Real[t.dst]
       IN  IF /\ Exists(t.src) /\ fs[Real[t.src]].read
              /\ ParentWritable(t.dst)
              /\ IF at \in DOMAIN fs
                   THEN fs[at].kind = "file" /\ fs[at].write
                   ELSE IsDir(Front(at)) /\ fs[Front(at)].write /\ Len(at) <= MaxLength
             THEN /\ fs' = [p \in DOMAIN fs \cup {at} |->
                              IF p # at THEN fs[p]
                              ELSE [Dir(TRUE) EXCEPT !.kind = "file",
                                      !.read = at \in DOMAIN fs => fs[at].read]]
                  /\ pc' = "fill"
                  /\ UNCHANGED <<hooks, hook, todo>>
             ELSE Fail

\* io.Copy and os.Chmod.  The source was opened before: a directory can be opened
\* and not be read.  A file that a failure leaves half written counts as empty.
CopyFill ==
    /\ pc = "fill"
    /\ LET src == Real[Head(todo).src]
           at == Real[Head(todo).dst]
       IN  IF src \in DOMAIN fs /\ fs[src].kind = "file"
             THEN /\ fs' = [fs EXCEPT ![at] = fs[src]]
                  /\ todo' = Tail(todo)
                  /\ pc' = "copy"
                  /\ UNCHANGED <<hooks, hook>>
             ELSE Fail

CopyDone ==
    /\ pc = "copy" /\ todo = <<>>
    /\ pc' = "confirm"
    /\ UNCHANGED <<fs, hooks, hook, todo>>

\* "Hook n completed".
ConfirmSameHook ==
    /\ pc = "confirm"
    /\ pc' = IF hook < Len(hooks) THEN "start" ELSE "end"
    /\ UNCHANGED <<fs, hooks, hook, todo>>
Confirm ==
    /\ pc = "confirm"
    /\ IF hook < Len(hooks)
         THEN hook' = hook + 1 /\ pc' = "start"
         ELSE pc' = "end" /\ UNCHANGED hook
    /\ UNCHANGED <<fs, hooks, todo>>

\* A system call or a write of a message fails.
Running == pc \in {"start", "link", "copy", "fill", "confirm"}
IOError == Running /\ Fail

\* The user removes a file of the main worktree.  A file that jtp has open can be
\* read to its end, as if it were removed after that.
UserRemoves ==
    /\ \E p \in Removable \cap DOMAIN fs :
         /\ fs[p].kind = "file"
         /\ pc = "fill" => p \notin {Real[Head(todo).src], Real[Head(todo).dst]}
         /\ fs' = [q \in DOMAIN fs \ {p} |-> fs[q]]
    /\ UNCHANGED <<hooks, hook, todo, pc>>

-----------------------------------------------------------------------------
Step == Load \/ Start \/ Link \/ CopyDir \/ CopyOpen \/ CopyFill \/ CopyDone \/ Confirm

Next == Step \/ IOError \/ UserRemoves

\* The command runs on.
Spec == Init /\ [][Next]_vars /\ WF_vars(Step)

-----------------------------------------------------------------------------
(* Properties.                                                             *)

\* The file system stays a tree, whatever the hooks make, link and copy.
TypeOK ==
    /\ Tree(fs)
    /\ pc \in {"load", "start", "link", "copy", "fill", "confirm", "failed", "end"}
    /\ hooks # <<>> => hook \in DOMAIN hooks
    /\ pc = "fill" => todo # <<>> /\ ~Head(todo).isDir

\* A copy hook is confirmed only when every file that its source has, at any
\* depth, is in its destination with the same content.
CopyIsComplete ==
    pc = "confirm" /\ Current.type = "copy" =>
        \A p \in DOMAIN fs :
            /\ IsPathWithin(Real[Source(Current)], p)
            /\ Exists(p)
            => LET q == Target(Current) \o SubSeq(p, Len(Real[Source(Current)]) + 1, Len(p))
               IN  /\ Exists(q)
                   /\ fs[Real[q]].kind = fs[Real[p]].kind
                   /\ fs[Real[q]].data = fs[Real[p]].data

\* A confirmed symlink hook shares its source: the path in the worktree leads to
\* where the path in the main worktree leads.
LinkSharesSource ==
    pc = "confirm" /\ Current.type = "symlink" =>
        Real[Target(Current)] = Real[Source(Current)]

\* Hooks with relative destinations write into the new worktree and nowhere else:
\* "Destination is relative to the NEW worktree".
OnlyWorktreeWritten ==
    [][Running /\ Current.to.kind = "rel" /\ (Step \/ IOError) =>
         \A p \in DOMAIN fs \cup DOMAIN fs' :
            ~IsPathWithin(Worktree, p) =>
                p \in DOMAIN fs \cap DOMAIN fs' /\ fs'[p] = fs[p]]_vars

\* The hooks come to an end, even when a directory is copied into itself: the
\* paths get too long.
HooksEnd == <>(pc \in {"end", "failed"})
=============================================================================
