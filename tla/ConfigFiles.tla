----------------------------- MODULE ConfigFiles -----------------------------
(***************************************************************************)
(* Which configuration a command works with (internal/config/config.go,    *)
(* cmd/wtp/init.go and the callers of LoadConfig).                         *)
(*                                                                         *)
(* A configuration file may have four names.  A load asks for one after the *)
(* other with os.Stat and then reads the first one there is, while the user *)
(* edits, saves, renames and deletes these files: each system call is one  *)
(* action.  Of a configuration only base_dir is kept.                      *)
(***************************************************************************)
EXTENDS Naturals

CONSTANTS
    Values,     \* values of base_dir
    Default,    \* the one of a configuration that does not give it
    Dirs,       \* directories jtp init may be run in
    MainDir,    \* the root of the main worktree
    Edited      \* directories in which the user edits

ASSUME ConfigAssumption ==
    /\ Default \in Values
    /\ MainDir \in Dirs
    /\ Edited \subseteq Dirs
    /\ {"absent", "broken", "refused", "none"} \cap Values = {}

\* supportedConfigFileNames, in the order of priority; jtp init writes the first.
Last == 4
Names == 1 .. Last

\* A file that is empty, as a file is while it is being saved, gives the default.
Contents == {"absent", "broken"} \cup Values

VARIABLES
    files,      \* [directory -> [name -> content]]
    load        \* the running command
vars == <<files, load>>

Present(dir) == {i \in Names : files[dir][i] # "absent"}

\* Parsing, ApplyDefaults and Validate.
Meaning(content) == IF content = "broken" THEN "refused" ELSE content

\* What a load that nothing disturbs makes of the files of the main worktree; and of
\* the names from the n-th on.
FirstFrom(fs, n) ==
    CHOOSE i \in n .. Last : fs[i] # "absent" /\ \A j \in n .. (i - 1) : fs[j] = "absent"
EffectFrom(fs, n) ==
    IF \A i \in n .. Last : fs[i] = "absent" THEN Default ELSE Meaning(fs[FirstFrom(fs, n)])
InEffect == EffectFrom(files[MainDir], 1)

\* The commands: "complete" is a completion, "lookup" jtp cd, exec and remove.
Kinds == {"add", "complete", "lookup", "list", "init"}

\* What a command goes on with when its load has failed: cd, exec and remove with a
\* default Config, jtp list with none, so that it names a worktree by the last
\* element of its path.
NoConfig == "none"
Fallback(kind) == IF kind = "list" THEN NoConfig ELSE Default

\* at, kind, dir, name: the scan; base: what the command goes on with.  Kept for
\* the properties: what was in effect since the command began, how many files were
\* changed since, whether one of its own calls failed, and, for jtp init, the names
\* that have been there all along.
NoLoad == [at |-> "idle", kind |-> "lookup", dir |-> MainDir, name |-> 1,
           base |-> Default, seen |-> {}, changes |-> 0, failed |-> FALSE, had |-> {}]

MaxChanges == 2     \* changes beyond the second are not counted

Init ==
    /\ \E fs \in [Names -> Contents] :
         files = [d \in Dirs |-> IF d = MainDir THEN fs ELSE [i \in Names |-> "absent"]]
    /\ load = NoLoad

-----------------------------------------------------------------------------
(* The commands.                                                           *)

Return == load' = NoLoad

\* Every command loads from the main worktree; jtp init looks where it is run.
Begin(kind, dir) ==
    /\ load.at = "idle"
    /\ kind # "init" => dir = MainDir
    /\ load' = [NoLoad EXCEPT !.at = "stat", !.kind = kind, !.dir = dir,
                              !.seen = {InEffect},
                              !.had = IF kind = "init" THEN Present(dir) ELSE {}]
    /\ UNCHANGED files

\* What the caller of LoadConfig does with its result: add and completion give up
\* on an error, the others go on with their fallback.
DecideNoDefault(result) ==
    IF result = "refused" /\ load.kind \in {"add", "complete"}
      THEN Return
      ELSE load' = [load EXCEPT !.at = "use", !.base = result]
Decide(result) ==
    IF result = "refused" /\ load.kind \in {"add", "complete"}
      THEN Return
      ELSE load' = [load EXCEPT !.at = "use",
                                !.base = IF result = "refused" THEN Fallback(load.kind)
                                                          ELSE result]

\* ResolveConfigPath, one os.Stat; it stops at the first file there is.
StatInitFirstOnly ==
    /\ load.at = "stat"
    /\ IF files[load.dir][load.name] # "absent"
         THEN IF load.kind = "init" THEN Return
                                    ELSE load' = [load EXCEPT !.at = "read"]
         ELSE IF load.kind = "init"
           THEN load' = [load EXCEPT !.at = "write"]
           ELSE IF load.name = Last THEN Decide(Default)
                                          ELSE load' = [load EXCEPT !.name = @ + 1]
    /\ UNCHANGED files
Stat ==
    /\ load.at = "stat"
    /\ CASE files[load.dir][load.name] # "absent" ->
              IF load.kind = "init" THEN Return      \* ConfigAlreadyExists
                                    ELSE load' = [load EXCEPT !.at = "read"]
         [] files[load.dir][load.name] = "absent" /\ load.name < Last ->
              load' = [load EXCEPT !.name = @ + 1]
         [] OTHER ->
              IF load.kind = "init" THEN load' = [load EXCEPT !.at = "write"]
                                    ELSE Decide(Default)
    /\ UNCHANGED files

StatFailsNext ==
    /\ load.at = "stat" /\ load.kind # "init" /\ load.name < Last
    /\ load' = [load EXCEPT !.name = @ + 1, !.failed = TRUE]
    /\ UNCHANGED files

\* One of its own calls fails.
GiveUp ==
    IF load.kind \in {"lookup", "list"}
      THEN load' = [load EXCEPT !.at = "use", !.base = Fallback(load.kind), !.failed = TRUE]
      ELSE Return

\* os.Stat fails on a file that may be there.
StatFails ==
    /\ load.at = "stat"
    /\ GiveUp
    /\ UNCHANGED files

\* LoadConfig reads the file it has found; a file that has gone is an error.
ReadGoneIsDefault ==
    /\ load.at = "read"
    /\ LET content == files[load.dir][load.name]
       IN  Decide(IF content = "absent" THEN Default ELSE Meaning(content))
    /\ UNCHANGED files
Read ==
    /\ load.at = "read"
    /\ LET content == files[load.dir][load.name]
       IN  IF content = "absent" THEN GiveUp ELSE Decide(Meaning(content))
    /\ UNCHANGED files

ReadFails ==
    /\ load.at = "read"
    /\ GiveUp
    /\ UNCHANGED files

\* The command goes on with its base_dir, and ends.
Use ==
    /\ load.at = "use"
    /\ Return
    /\ UNCHANGED files

\* initCommand after its check: the directory may be read-only, or the template
\* is written over what is there by now.
InitWrite ==
    /\ load.at = "write"
    /\ files' \in {files, [files EXCEPT ![load.dir][1] = Default]}
    /\ Return

-----------------------------------------------------------------------------
(* The user.                                                               *)

\* A running load notes a change it is not told of.
Noted(fs, changes) ==
    load' = IF load.at = "idle" THEN load
            ELSE [load EXCEPT !.seen = @ \cup {EffectFrom(fs, 1)},
                              !.changes = IF @ + changes < MaxChanges
                                            THEN @ + changes ELSE MaxChanges,
                              !.had = {i \in @ : files'[load.dir][i] # "absent"}]

UserWrites ==
    \E d \in Edited, i \in Names, content \in Contents :
        /\ content # files[d][i]
        /\ files' = [files EXCEPT ![d][i] = content]
        /\ Noted(files'[MainDir], 1)

\* mv: two names change at once.
UserRenames ==
    \E d \in Edited, i \in Names, j \in Names :
        /\ i # j /\ files[d][i] # "absent"
        /\ files' = [files EXCEPT ![d][j] = files[d][i], ![d][i] = "absent"]
        /\ Noted(files'[MainDir], 2)

Load == Stat \/ StatFails \/ Read \/ ReadFails \/ Use \/ InitWrite

Next ==
    \/ \E kind \in Kinds, dir \in Dirs : Begin(kind, dir)
    \/ Load
    \/ UserWrites \/ UserRenames

Spec == Init /\ [][Next]_vars

-----------------------------------------------------------------------------
(* Properties.                                                             *)

TypeOK ==
    /\ files \in [Dirs -> [Names -> Contents]]
    /\ load \in [at : {"idle", "stat", "read", "use", "write"}, kind : Kinds,
                 dir : Dirs, name : Names, base : Values \cup {NoConfig},
                 seen : SUBSET (Values \cup {"refused"}), changes : 0 .. MaxChanges,
                 failed : BOOLEAN, had : SUBSET Names]

\* While the user changes at most one file, jtp add and completion work with a
\* base_dir that was in effect while they ran, or give up: the scan of the names
\* one by one does not skip from one configuration over another to the default.
AddsWhereConfigured ==
    load.at = "use" /\ load.kind \in {"add", "complete"} /\ load.changes < MaxChanges
        => load.base \in load.seen

\* cd, exec, remove and list work with anything but a base_dir in effect only when
\* the configuration could not be loaded; then cd, exec and remove take the default
\* ("If config can't be loaded, use default config"), and list does without: its
\* "Fallback when config can't be loaded".
FallbackHasCause ==
    load.at = "use" /\ load.kind \in {"lookup", "list"} /\ load.changes < MaxChanges
    /\ load.base \notin load.seen
        => /\ load.base = IF load.kind = "lookup" THEN Default ELSE NoConfig
           /\ load.failed \/ "refused" \in load.seen

\* jtp init neither overwrites nor shadows a configuration file, under any of the
\* names, that was there from its beginning to its write, whatever the user does with
\* other files meanwhile: "configuration already exists".
InitTakesNothing == load.at = "write" => load.had = {}
=============================================================================
