---------------------------- MODULE ConfigProofs ----------------------------
(* Theorems about ConfigFiles, for any values of base_dir, any directories  *)
(* and any changes the user makes to the files.                             *)
EXTENDS ConfigFiles, TLAPS

-----------------------------------------------------------------------------
(* The inductive invariant: what is still to be scanned leads to something  *)
(* that was in effect.                                                      *)

Main == files[MainDir]

\* The names the scan has passed are absent.
PassedAbsent == \A i \in 1 .. (load.name - 1) : Main[i] = "absent"

Undisturbed == load.changes < MaxChanges

Watched == load.at # "idle" => EffectFrom(Main, 1) \in load.seen

Scanning ==
    load.at = "stat" /\ load.kind # "init" =>
        /\ load.dir = MainDir
        /\ load.changes = 0 => PassedAbsent
        /\ Undisturbed => EffectFrom(Main, load.name) \in load.seen

Reading ==
    load.at = "read" =>
        /\ load.kind # "init" /\ load.dir = MainDir
        /\ load.changes = 0 => PassedAbsent /\ Main[load.name] # "absent"
        /\ Undisturbed => \/ Main[load.name] = "absent"
                          \/ Meaning(Main[load.name]) \in load.seen

Using ==
    load.at = "use" =>
        /\ load.kind # "init"
        /\ Undisturbed =>
             \/ load.base \in load.seen
             \/ /\ load.kind \in {"lookup", "list"} /\ load.base = Fallback(load.kind)
                /\ load.failed \/ "refused" \in load.seen

Initialising ==
    /\ load.at = "write" => load.kind = "init" /\ load.had = {}
    /\ load.at = "stat" /\ load.kind = "init" =>
         \A i \in load.had : load.name <= i /\ files[load.dir][i] # "absent"

ConfigInv == TypeOK /\ Watched /\ Scanning /\ Reading /\ Using /\ Initialising

-----------------------------------------------------------------------------
(* Lemmas about the scan.                                                   *)

LEMMA EffectHere ==
    ASSUME NEW fs \in [Names -> Contents], NEW n \in Names, fs[n] # "absent"
    PROVE  EffectFrom(fs, n) = Meaning(fs[n])
  <1>1. n \in n .. Last /\ n .. (n - 1) = {}
    BY DEF Names, Last
  <1>2. \A i \in n .. Last : (\A j \in n .. (i - 1) : fs[j] = "absent") => i = n
    <2> SUFFICES ASSUME NEW i \in n .. Last, \A j \in n .. (i - 1) : fs[j] = "absent", i # n
                 PROVE  FALSE
      OBVIOUS
    <2>1. n \in n .. (i - 1)
      BY DEF Names, Last
    <2> QED
      BY <2>1
  <1>3. FirstFrom(fs, n) = n
    BY <1>1, <1>2 DEF FirstFrom
  <1> QED
    BY <1>1, <1>3 DEF EffectFrom

LEMMA EffectLast ==
    ASSUME NEW fs \in [Names -> Contents], fs[Last] = "absent"
    PROVE  EffectFrom(fs, Last) = Default
  <1>1. Last .. Last = {Last}
    BY DEF Last
  <1> QED
    BY <1>1 DEF EffectFrom

LEMMA EffectNext ==
    ASSUME NEW fs \in [Names -> Contents], NEW n \in Names, n < Last, fs[n] = "absent"
    PROVE  EffectFrom(fs, n) = EffectFrom(fs, n + 1)
  <1>1. n .. Last = {n} \cup ((n + 1) .. Last)
    BY DEF Names, Last
  <1>2. \A i \in (n + 1) .. Last : n .. (i - 1) = {n} \cup ((n + 1) .. (i - 1))
    BY DEF Names, Last
  <1>3. \A i : (i \in n .. Last /\ fs[i] # "absent" /\ \A j \in n .. (i - 1) : fs[j] = "absent")
          <=> (i \in (n + 1) .. Last /\ fs[i] # "absent"
                 /\ \A j \in (n + 1) .. (i - 1) : fs[j] = "absent")
    BY <1>1, <1>2
  <1>4. FirstFrom(fs, n) = FirstFrom(fs, n + 1)
    BY <1>3 DEF FirstFrom
  <1>5. (\A i \in n .. Last : fs[i] = "absent")
          <=> (\A i \in (n + 1) .. Last : fs[i] = "absent")
    BY <1>1
  <1> QED
    BY <1>4, <1>5 DEF EffectFrom

\* Names that are absent may be passed over.
LEMMA EffectSkip ==
    ASSUME NEW fs \in [Names -> Contents], NEW n \in Names,
           \A i \in 1 .. (n - 1) : fs[i] = "absent"
    PROVE  EffectFrom(fs, 1) = EffectFrom(fs, n)
  <1>1. CASE n = 1
    BY <1>1
  <1>2. CASE n = 2
    <2>1. 1 \in 1 .. (n - 1)
      BY <1>2
    <2> QED
      BY <2>1, <1>2, EffectNext DEF Names, Last
  <1>3. CASE n = 3
    <2>1. 1 \in 1 .. (n - 1) /\ 2 \in 1 .. (n - 1)
      BY <1>3
    <2>2. EffectFrom(fs, 1) = EffectFrom(fs, 2)
      BY <2>1, EffectNext DEF Names, Last
    <2>3. EffectFrom(fs, 2) = EffectFrom(fs, 3)
      BY <2>1, EffectNext DEF Names, Last
    <2> QED
      BY <2>2, <2>3, <1>3
  <1>4. CASE n = 4
    <2>1. 1 \in 1 .. (n - 1) /\ 2 \in 1 .. (n - 1) /\ 3 \in 1 .. (n - 1)
      BY <1>4
    <2>2. EffectFrom(fs, 1) = EffectFrom(fs, 2)
      BY <2>1, EffectNext DEF Names, Last
    <2>3. EffectFrom(fs, 2) = EffectFrom(fs, 3)
      BY <2>1, EffectNext DEF Names, Last
    <2>4. EffectFrom(fs, 3) = EffectFrom(fs, 4)
      BY <2>1, EffectNext DEF Names, Last
    <2> QED
      BY <2>2, <2>3, <2>4, <1>4
  <1> QED
    BY <1>1, <1>2, <1>3, <1>4 DEF Names, Last

\* The scan from n on depends on the names from n on.
LEMMA EffectSame ==
    ASSUME NEW fs \in [Names -> Contents], NEW gs \in [Names -> Contents],
           NEW n \in Names, \A i \in n .. Last : fs[i] = gs[i]
    PROVE  EffectFrom(fs, n) = EffectFrom(gs, n)
  <1>1. \A i \in n .. Last : n .. (i - 1) \subseteq n .. Last
    BY DEF Names, Last
  <1>2. FirstFrom(fs, n) = FirstFrom(gs, n)
    BY <1>1 DEF FirstFrom
  <1>3. CASE \A i \in n .. Last : fs[i] = "absent"
    BY <1>3 DEF EffectFrom
  <1>4. CASE \E i \in n .. Last : fs[i] # "absent"
    <2>1. \E i \in n .. Last : fs[i] # "absent" /\ \A j \in n .. (i - 1) : fs[j] = "absent"
      BY <1>4 DEF Names, Last
    <2>2. FirstFrom(fs, n) \in n .. Last
      BY <2>1 DEF FirstFrom
    <2> QED
      BY <1>2, <1>4, <2>2 DEF EffectFrom
  <1> QED
    BY <1>3, <1>4

LEMMA EffectType ==
    ASSUME NEW fs \in [Names -> Contents], NEW n \in Names
    PROVE  EffectFrom(fs, n) \in Values \cup {"refused"}
  <1>1. CASE \A i \in n .. Last : fs[i] = "absent"
    BY <1>1, ConfigAssumption DEF EffectFrom
  <1>2. CASE \E i \in n .. Last : fs[i] # "absent"
    <2>1. \E i \in n .. Last : fs[i] # "absent" /\ \A j \in n .. (i - 1) : fs[j] = "absent"
      BY <1>2 DEF Names, Last
    <2>2. FirstFrom(fs, n) \in n .. Last /\ fs[FirstFrom(fs, n)] # "absent"
      BY <2>1 DEF FirstFrom
    <2>3. fs[FirstFrom(fs, n)] \in Values \cup {"broken"}
      BY <2>2 DEF Names, Last, Contents
    <2> QED
      BY <1>2, <2>3 DEF EffectFrom, Meaning
  <1> QED
    BY <1>1, <1>2

-----------------------------------------------------------------------------
(* The steps.                                                               *)

LEMMA FilesType ==
    ASSUME TypeOK
    PROVE  /\ \A d \in Dirs : files[d] \in [Names -> Contents]
           /\ Main \in [Names -> Contents]
  BY ConfigAssumption DEF TypeOK, Main

LEMMA IdleKeeps ==
    ASSUME ConfigInv, load' = NoLoad, files' \in [Dirs -> [Names -> Contents]]
    PROVE  ConfigInv'
  <1>1. TypeOK'
    BY ConfigAssumption DEF TypeOK, NoLoad, Kinds, Names, Last, MaxChanges
  <1> QED
    BY <1>1 DEF ConfigInv, Watched, Scanning, Reading, Using, Initialising, NoLoad

LEMMA InitHolds == Init => ConfigInv
  <1> SUFFICES ASSUME Init PROVE ConfigInv
    OBVIOUS
  <1>1. "absent" \in Contents
    BY DEF Contents
  <1>2. PICK fs \in [Names -> Contents] :
          files = [d \in Dirs |-> IF d = MainDir THEN fs ELSE [i \in Names |-> "absent"]]
    BY DEF Init
  <1>3. files \in [Dirs -> [Names -> Contents]]
    BY <1>1, <1>2
  <1>4. load = NoLoad
    BY DEF Init
  <1>5. TypeOK
    BY <1>3, <1>4, ConfigAssumption DEF TypeOK, NoLoad, Kinds, Names, Last, MaxChanges
  <1> QED
    BY <1>4, <1>5 DEF ConfigInv, Watched, Scanning, Reading, Using, Initialising, NoLoad

LEMMA BeginKeeps ==
    ASSUME ConfigInv, NEW kind \in Kinds, NEW dir \in Dirs, Begin(kind, dir)
    PROVE  ConfigInv'
  <1> DEFINE had == IF kind = "init" THEN Present(dir) ELSE {}
  <1>1. EffectFrom(Main, 1) \in Values \cup {"refused"}
    BY FilesType, EffectType DEF ConfigInv, Names, Last
  <1>2. had \in SUBSET Names
    BY DEF Present
  <1>3. load' = [at |-> "stat", kind |-> kind, dir |-> dir, name |-> 1,
                 base |-> Default, seen |-> {EffectFrom(Main, 1)}, changes |-> 0,
                 failed |-> FALSE, had |-> had]
        /\ UNCHANGED files /\ (kind # "init" => dir = MainDir)
    BY DEF Begin, NoLoad, InEffect, Main
  <1>4. \A i \in had : 1 <= i /\ files[dir][i] # "absent"
    BY <1>2 DEF Present, Names, Last
  <1> HIDE DEF had
  <1>5. TypeOK'
    <2>1. files' \in [Dirs -> [Names -> Contents]]
      BY <1>3 DEF ConfigInv, TypeOK
    <2>2. {EffectFrom(Main, 1)} \in SUBSET (Values \cup {"refused"})
      BY <1>1
    <2>3. 1 \in Names /\ 0 \in 0 .. MaxChanges
      BY DEF Names, Last, MaxChanges
    <2> QED
      BY <1>2, <1>3, <2>1, <2>2, <2>3, ConfigAssumption DEF TypeOK
  <1>6. load'.at = "stat" /\ load'.name = 1 /\ load'.kind = kind /\ load'.dir = dir
        /\ load'.seen = {EffectFrom(Main, 1)} /\ load'.had = had /\ Main' = Main
    BY <1>3 DEF Main
  <1>7. Watched' /\ Reading' /\ Using'
    BY <1>6 DEF Watched, Reading, Using
  <1>8. Scanning'
    <2>1. PassedAbsent'
      BY <1>6 DEF PassedAbsent
    <2> QED
      BY <1>3, <1>6, <2>1 DEF Scanning
  <1>9. Initialising'
    BY <1>3, <1>4, <1>6 DEF Initialising
  <1> QED
    BY <1>5, <1>7, <1>8, <1>9 DEF ConfigInv

\* The caller's decision on a result that was in effect, or is an error of its own.
LEMMA DecideKeeps ==
    ASSUME ConfigInv, UNCHANGED files, load.at \in {"stat", "read"}, load.kind # "init",
           NEW result \in Values \cup {"refused"}, Decide(result),
           Undisturbed => result \in load.seen
    PROVE  ConfigInv'
  <1>1. CASE Return
    BY <1>1, IdleKeeps DEF Return, ConfigInv, TypeOK
  <1> Fallback(load.kind) \in Values \cup {NoConfig}
    BY ConfigAssumption DEF Fallback
  <1>2. CASE load' = [load EXCEPT !.at = "use",
                        !.base = IF result = "refused" THEN Fallback(load.kind) ELSE result]
             /\ ~(result = "refused" /\ load.kind \in {"add", "complete"})
    <2>1. TypeOK'
      BY <1>2, ConfigAssumption DEF ConfigInv, TypeOK
    <2>2. load \in [at : {"idle", "stat", "read", "use", "write"}, kind : Kinds,
                    dir : Dirs, name : Names, base : Values \cup {NoConfig},
                    seen : SUBSET (Values \cup {"refused"}), changes : 0 .. MaxChanges,
                    failed : BOOLEAN, had : SUBSET Names]
      BY DEF ConfigInv, TypeOK
    <2>3. load'.at = "use" /\ load'.kind = load.kind /\ load'.seen = load.seen
          /\ load'.changes = load.changes
          /\ load'.base = IF result = "refused" THEN Fallback(load.kind) ELSE result
      BY <1>2, <2>2
    <2>4. result = "refused" => load.kind \in {"lookup", "list"}
      BY <1>2, <2>2 DEF Kinds
    <2>5. Using'
      BY <2>3, <2>4 DEF Using, Undisturbed
    <2>6. Watched'
      BY <2>3 DEF ConfigInv, Watched, Main
    <2> QED
      BY <2>1, <2>3, <2>5, <2>6 DEF ConfigInv, Scanning, Reading, Initialising
  <1> QED
    BY <1>1, <1>2 DEF Decide

LEMMA GiveUpKeeps ==
    ASSUME ConfigInv, UNCHANGED files, load.at \in {"stat", "read"}, GiveUp
    PROVE  ConfigInv'
  <1>1. CASE Return
    BY <1>1, IdleKeeps DEF Return, ConfigInv, TypeOK
  <1>2. CASE load.kind \in {"lookup", "list"}
             /\ load' = [load EXCEPT !.at = "use", !.base = Fallback(load.kind),
                                     !.failed = TRUE]
    <2>1. TypeOK'
      BY <1>2, ConfigAssumption DEF Fallback, ConfigInv, TypeOK
    <2>2. load'.at = "use" /\ load'.kind = load.kind /\ load'.seen = load.seen
          /\ load'.base = Fallback(load.kind) /\ load'.failed
      BY <1>2 DEF ConfigInv, TypeOK
    <2>3. Using' /\ Watched'
      BY <1>2, <2>2 DEF ConfigInv, Using, Watched, Main, Fallback
    <2> QED
      BY <2>1, <2>2, <2>3 DEF ConfigInv, Scanning, Reading, Initialising
  <1> QED
    BY <1>1, <1>2 DEF GiveUp

LEMMA StatKeeps ==
    ASSUME ConfigInv, Stat
    PROVE  ConfigInv'
  <1> DEFINE here == files[load.dir][load.name]
  <1>1. load.at = "stat" /\ UNCHANGED files
    BY DEF Stat
  <1>2. load \in [at : {"idle", "stat", "read", "use", "write"}, kind : Kinds,
                  dir : Dirs, name : Names, base : Values \cup {NoConfig},
                  seen : SUBSET (Values \cup {"refused"}), changes : 0 .. MaxChanges,
                  failed : BOOLEAN, had : SUBSET Names]
    BY DEF ConfigInv, TypeOK
  <1>3. Main \in [Names -> Contents] /\ Main' = Main
    BY <1>1, FilesType DEF ConfigInv, Main
  <1>4. CASE Return
    BY <1>1, <1>4, IdleKeeps DEF Return, ConfigInv, TypeOK
  <1>5. CASE load.kind # "init" /\ here # "absent" /\ load' = [load EXCEPT !.at = "read"]
    <2>1. load.dir = MainDir /\ here = Main[load.name]
      BY <1>1, <1>5 DEF ConfigInv, Scanning, Main
    <2>2. Undisturbed => Meaning(Main[load.name]) \in load.seen
      BY <1>1, <1>2, <1>3, <1>5, <2>1, EffectHere DEF ConfigInv, Scanning
    <2>3. load'.at = "read" /\ load'.kind = load.kind /\ load'.dir = load.dir
          /\ load'.name = load.name /\ load'.seen = load.seen
          /\ load'.changes = load.changes
      BY <1>2, <1>5
    <2>4. Reading'
      BY <1>1, <1>3, <1>5, <2>1, <2>2, <2>3
      DEF ConfigInv, Scanning, Reading, PassedAbsent, Undisturbed
    <2>5. Watched'
      BY <1>1, <1>3, <2>3 DEF ConfigInv, Watched
    <2>6. TypeOK'
      BY <1>1, <1>2, <1>5 DEF ConfigInv, TypeOK
    <2> QED
      BY <2>3, <2>4, <2>5, <2>6 DEF ConfigInv, Scanning, Using, Initialising
  <1>6. CASE here = "absent" /\ load.name < Last
             /\ load' = [load EXCEPT !.name = @ + 1]
    <2>1. load.name + 1 \in Names
      BY <1>2, <1>6 DEF Names, Last
    <2>2. load'.at = "stat" /\ load'.kind = load.kind /\ load'.dir = load.dir
          /\ load'.name = load.name + 1 /\ load'.seen = load.seen
          /\ load'.changes = load.changes /\ load'.had = load.had
      BY <1>1, <1>2, <1>6
    <2>3. TypeOK'
      BY <1>1, <1>2, <1>6, <2>1 DEF ConfigInv, TypeOK
    <2>4. Watched'
      BY <1>1, <1>3, <2>2 DEF ConfigInv, Watched
    <2>5. Scanning'
      <3> SUFFICES ASSUME load.kind # "init" PROVE Scanning'
        BY <2>2 DEF Scanning
      <3>1. load.dir = MainDir /\ Main[load.name] = "absent"
        BY <1>1, <1>6 DEF ConfigInv, Scanning, Main
      <3>2. EffectFrom(Main, load.name) = EffectFrom(Main, load.name + 1)
        BY <1>2, <1>3, <1>6, <3>1, EffectNext
      <3>3. load.changes = 0 => \A i \in 1 .. load.name : Main[i] = "absent"
        BY <1>1, <1>2, <3>1 DEF ConfigInv, Scanning, PassedAbsent, Names, Last
      <3>4. load.changes = 0 => PassedAbsent'
        BY <1>2, <1>3, <2>2, <3>3 DEF PassedAbsent, Names, Last
      <3>5. Undisturbed => EffectFrom(Main, load.name + 1) \in load.seen
        BY <1>1, <3>2 DEF ConfigInv, Scanning
      <3> QED
        BY <1>3, <2>2, <3>1, <3>4, <3>5 DEF Scanning, Undisturbed
    <2>6. Initialising'
      <3> SUFFICES ASSUME load.kind = "init", NEW i \in load.had
                   PROVE  load.name + 1 <= i /\ files[load.dir][i] # "absent"
        BY <1>1, <2>2 DEF Initialising
      <3>1. load.name <= i /\ files[load.dir][i] # "absent"
        BY <1>1 DEF ConfigInv, Initialising
      <3>2. i # load.name
        BY <1>6, <3>1
      <3> QED
        BY <1>2, <3>1, <3>2 DEF Names, Last
    <2> QED
      BY <2>2, <2>3, <2>4, <2>5, <2>6 DEF ConfigInv, Reading, Using
  <1>7. CASE here = "absent" /\ load.name = Last /\ load.kind = "init"
             /\ load' = [load EXCEPT !.at = "write"]
    <2>1. load.had = {}
      <3>1. \A i \in load.had : load.name <= i /\ files[load.dir][i] # "absent"
        BY <1>1, <1>7 DEF ConfigInv, Initialising
      <3>2. \A i \in load.had : i = Last
        BY <1>2, <1>7, <3>1 DEF Names, Last
      <3> QED
        BY <1>7, <3>1, <3>2
    <2>2. load'.at = "write" /\ load'.kind = "init" /\ load'.had = {}
          /\ load'.seen = load.seen
      BY <1>2, <1>7, <2>1
    <2>3. TypeOK'
      BY <1>1, <1>2, <1>7 DEF ConfigInv, TypeOK
    <2>4. Watched'
      BY <1>1, <1>3, <2>2 DEF ConfigInv, Watched
    <2> QED
      BY <2>2, <2>3, <2>4 DEF ConfigInv, Scanning, Reading, Using, Initialising
  <1>8. CASE here = "absent" /\ load.name = Last /\ load.kind # "init" /\ Decide(Default)
    <2>1. Main[Last] = "absent"
      BY <1>1, <1>8 DEF ConfigInv, Scanning, Main
    <2>2. EffectFrom(Main, Last) = Default
      BY <1>3, <2>1, EffectLast
    <2>3. Undisturbed => Default \in load.seen
      BY <1>1, <1>8, <2>2 DEF ConfigInv, Scanning
    <2> QED
      BY <1>1, <1>8, <2>3, DecideKeeps, ConfigAssumption
  <1>9. load.name < Last \/ load.name = Last
    BY <1>2 DEF Names, Last
  <1> QED
    BY <1>1, <1>4, <1>5, <1>6, <1>7, <1>8, <1>9 DEF Stat

LEMMA ReadKeeps ==
    ASSUME ConfigInv, Read
    PROVE  ConfigInv'
  <1> DEFINE content == files[load.dir][load.name]
  <1>1. load.at = "read" /\ UNCHANGED files
    BY DEF Read
  <1>2. load.kind # "init" /\ content = Main[load.name]
    BY <1>1 DEF ConfigInv, Reading, Main
  <1>3. CASE content = "absent"
    BY <1>1, <1>3, GiveUpKeeps DEF Read
  <1>4. CASE content # "absent"
    <2>1. Undisturbed => Meaning(content) \in load.seen
      BY <1>1, <1>2, <1>4 DEF ConfigInv, Reading
    <2>2. content \in Contents
      BY DEF ConfigInv, TypeOK
    <2>3. Meaning(content) \in Values \cup {"refused"}
      BY <1>4, <2>2 DEF Contents, Meaning
    <2>4. Decide(Meaning(content))
      BY <1>4 DEF Read
    <2> QED
      BY <1>1, <1>2, <2>1, <2>3, <2>4, DecideKeeps
  <1> QED
    BY <1>3, <1>4

\* A change of one file by the user, or of two by a rename.
LEMMA NotedKeeps ==
    ASSUME ConfigInv, files' \in [Dirs -> [Names -> Contents]],
           NEW changes \in 1 .. 2, Noted(files'[MainDir], changes),
           changes = 1 => \E n \in Names : \A i \in Names \ {n} : Main'[i] = Main[i]
    PROVE  ConfigInv'
  <1>1. load \in [at : {"idle", "stat", "read", "use", "write"}, kind : Kinds,
                  dir : Dirs, name : Names, base : Values \cup {NoConfig},
                  seen : SUBSET (Values \cup {"refused"}), changes : 0 .. MaxChanges,
                  failed : BOOLEAN, had : SUBSET Names]
    BY DEF ConfigInv, TypeOK
  <1>2. Main \in [Names -> Contents] /\ Main' \in [Names -> Contents]
    BY FilesType, ConfigAssumption DEF ConfigInv, Main
  <1>3. CASE load.at = "idle"
    <2>1. load' = load
      BY <1>3 DEF Noted
    <2>2. TypeOK'
      BY <1>1, <2>1 DEF TypeOK
    <2> QED
      BY <1>3, <2>1, <2>2 DEF ConfigInv, Watched, Scanning, Reading, Using, Initialising
  <1>4. CASE load.at # "idle"
    <2> DEFINE total == IF load.changes + changes < MaxChanges
                          THEN load.changes + changes ELSE MaxChanges
               kept == {i \in load.had : files'[load.dir][i] # "absent"}
    <2>1. load' = [load EXCEPT !.seen = @ \cup {EffectFrom(Main', 1)},
                               !.changes = total, !.had = kept]
      BY <1>4 DEF Noted, Main
    <2>2. total \in 1 .. MaxChanges
          /\ (total < MaxChanges => load.changes = 0 /\ changes = 1)
      BY <1>1 DEF MaxChanges
    <2>3. kept \in SUBSET Names
      BY <1>1
    <2>4. EffectFrom(Main', 1) \in Values \cup {"refused"}
      BY <1>2, EffectType DEF Names, Last
    <2> HIDE DEF total, kept
    <2>5. load'.at = load.at /\ load'.kind = load.kind /\ load'.dir = load.dir
          /\ load'.name = load.name /\ load'.base = load.base
          /\ load'.seen = load.seen \cup {EffectFrom(Main', 1)}
          /\ load'.changes = total /\ load'.failed = load.failed /\ load'.had = kept
      BY <1>1, <2>1
    <2>6. TypeOK'
      <3>1. load.seen \cup {EffectFrom(Main', 1)} \in SUBSET (Values \cup {"refused"})
        BY <1>1, <2>4
      <3>2. total \in 0 .. MaxChanges
        BY <2>2 DEF MaxChanges
      <3> QED
        BY <1>1, <2>1, <2>3, <3>1, <3>2 DEF TypeOK
    <2>7. Watched'
      BY <2>5 DEF Watched
    <2>8. load'.changes # 0
      BY <2>2, <2>5 DEF MaxChanges
    <2>9. Undisturbed' => load.changes = 0 /\ Undisturbed
            /\ \E n \in Names : \A i \in Names \ {n} : Main'[i] = Main[i]
      BY <2>2, <2>5 DEF Undisturbed, MaxChanges
    <2>10. Scanning'
      <3> SUFFICES ASSUME load.at = "stat", load.kind # "init", Undisturbed'
                   PROVE  EffectFrom(Main', load.name) \in load'.seen
        BY <2>5, <2>8 DEF ConfigInv, Scanning
      <3>1. PICK n \in Names : \A i \in Names \ {n} : Main'[i] = Main[i]
        BY <2>9
      <3>2. PassedAbsent /\ EffectFrom(Main, load.name) \in load.seen
        BY <2>9 DEF ConfigInv, Scanning
      <3>3. CASE n < load.name
        <4>1. \A i \in load.name .. Last : Main'[i] = Main[i]
          BY <1>1, <3>1, <3>3 DEF Names, Last
        <4>2. EffectFrom(Main', load.name) = EffectFrom(Main, load.name)
          BY <1>1, <1>2, <4>1, EffectSame
        <4> QED
          BY <2>5, <3>2, <4>2
      <3>4. CASE load.name <= n
        <4>1. \A i \in 1 .. (load.name - 1) : i \in Names \ {n}
          BY <1>1, <3>4 DEF Names, Last
        <4>2. \A i \in 1 .. (load.name - 1) : Main'[i] = "absent"
          BY <3>1, <3>2, <4>1 DEF PassedAbsent
        <4>3. EffectFrom(Main', 1) = EffectFrom(Main', load.name)
          BY <1>1, <1>2, <4>2, EffectSkip
        <4> QED
          BY <2>5, <4>3
      <3> QED
        BY <1>1, <3>3, <3>4 DEF Names, Last
    <2>11. Reading'
      <3> SUFFICES ASSUME load.at = "read", Undisturbed', Main'[load.name] # "absent"
                   PROVE  Meaning(Main'[load.name]) \in load'.seen
        BY <2>5, <2>8 DEF ConfigInv, Reading
      <3>1. PICK n \in Names : \A i \in Names \ {n} : Main'[i] = Main[i]
        BY <2>9
      <3>2. PassedAbsent /\ Main[load.name] # "absent"
            /\ Meaning(Main[load.name]) \in load.seen
        BY <2>9 DEF ConfigInv, Reading
      <3>3. CASE n # load.name
        BY <1>1, <2>5, <3>1, <3>2, <3>3
      <3>4. CASE n = load.name
        <4>1. \A i \in 1 .. (load.name - 1) : i \in Names \ {n}
          BY <1>1, <3>4 DEF Names, Last
        <4>2. \A i \in 1 .. (load.name - 1) : Main'[i] = "absent"
          BY <3>1, <3>2, <4>1 DEF PassedAbsent
        <4>3. EffectFrom(Main', 1) = EffectFrom(Main', load.name)
          BY <1>1, <1>2, <4>2, EffectSkip
        <4>4. EffectFrom(Main', load.name) = Meaning(Main'[load.name])
          BY <1>1, <1>2, EffectHere
        <4> QED
          BY <2>5, <4>3, <4>4
      <3> QED
        BY <3>3, <3>4
    <2>12. Using'
      BY <2>5, <2>9 DEF ConfigInv, Using
    <2>13. Initialising'
      BY <2>5 DEF ConfigInv, Initialising, kept
    <2> QED
      BY <2>6, <2>7, <2>10, <2>11, <2>12, <2>13 DEF ConfigInv
  <1> QED
    BY <1>3, <1>4

LEMMA UserWritesKeeps ==
    ASSUME ConfigInv, UserWrites
    PROVE  ConfigInv'
  <1>1. PICK d \in Edited, i \in Names, content \in Contents :
          /\ files' = [files EXCEPT ![d][i] = content]
          /\ Noted(files'[MainDir], 1)
    BY DEF UserWrites
  <1>2. files \in [Dirs -> [Names -> Contents]]
    BY DEF ConfigInv, TypeOK
  <1>3. files' \in [Dirs -> [Names -> Contents]]
    BY <1>1, <1>2
  <1>4. \A j \in Names \ {i} : Main'[j] = Main[j]
    BY <1>1, <1>2, ConfigAssumption DEF Main
  <1> QED
    BY <1>1, <1>3, <1>4, NotedKeeps

LEMMA UserRenamesKeeps ==
    ASSUME ConfigInv, UserRenames
    PROVE  ConfigInv'
  <1>1. PICK d \in Edited, i \in Names, j \in Names :
          /\ files' = [files EXCEPT ![d][j] = files[d][i], ![d][i] = "absent"]
          /\ Noted(files'[MainDir], 2)
    BY DEF UserRenames
  <1>2. files \in [Dirs -> [Names -> Contents]]
    BY DEF ConfigInv, TypeOK
  <1>3. files[d][i] \in Contents /\ "absent" \in Contents
    BY <1>2, ConfigAssumption DEF Contents
  <1>4. files' \in [Dirs -> [Names -> Contents]]
    BY <1>1, <1>2, <1>3
  <1> QED
    BY <1>1, <1>4, NotedKeeps

LEMMA InitWriteKeeps ==
    ASSUME ConfigInv, InitWrite
    PROVE  ConfigInv'
  <1>1. files \in [Dirs -> [Names -> Contents]]
    BY DEF ConfigInv, TypeOK
  <1>2. Default \in Contents /\ 1 \in Names
    BY ConfigAssumption DEF Contents, Names, Last
  <1>3. files' \in [Dirs -> [Names -> Contents]]
    BY <1>1, <1>2 DEF InitWrite
  <1> QED
    BY <1>3, IdleKeeps DEF InitWrite, Return

LEMMA NextKeeps == ConfigInv /\ [Next]_vars => ConfigInv'
  <1> SUFFICES ASSUME ConfigInv, [Next]_vars PROVE ConfigInv'
    OBVIOUS
  <1>1. ASSUME NEW kind \in Kinds, NEW dir \in Dirs, Begin(kind, dir) PROVE ConfigInv'
    BY <1>1, BeginKeeps
  <1>2. CASE Stat
    BY <1>2, StatKeeps
  <1>3. CASE StatFails
    BY <1>3, GiveUpKeeps DEF StatFails
  <1>4. CASE Read
    BY <1>4, ReadKeeps
  <1>5. CASE ReadFails
    BY <1>5, GiveUpKeeps DEF ReadFails
  <1>6. CASE Use
    BY <1>6, IdleKeeps DEF Use, Return, ConfigInv, TypeOK
  <1>7. CASE InitWrite
    BY <1>7, InitWriteKeeps
  <1>8. CASE UserWrites
    BY <1>8, UserWritesKeeps
  <1>9. CASE UserRenames
    BY <1>9, UserRenamesKeeps
  <1>10. CASE UNCHANGED vars
    BY <1>10 DEF vars, ConfigInv, TypeOK, Watched, Scanning, Reading, Using,
                 Initialising, Main, PassedAbsent, Undisturbed
  <1> QED
    BY <1>1, <1>2, <1>3, <1>4, <1>5, <1>6, <1>7, <1>8, <1>9, <1>10 DEF Next, Load

-----------------------------------------------------------------------------
(* The theorems.                                                            *)

\* The invariant holds of every run.
THEOREM ConfigInvHolds == Spec => []ConfigInv
  BY InitHolds, NextKeeps, PTL DEF Spec

\* The state stays well formed (ResolveConfigPath, LoadConfig, initCommand).
THEOREM ConfigTypeCorrect == Spec => []TypeOK
  BY ConfigInvHolds, PTL DEF ConfigInv

\* However one file changes while the names are tried one by one, jtp add and
\* completion work with a base_dir that was in effect, or give up.
THEOREM AddsWhereConfiguredHolds == Spec => []AddsWhereConfigured
  <1>1. ConfigInv => AddsWhereConfigured
    BY DEF ConfigInv, Using, Undisturbed, AddsWhereConfigured
  <1> QED
    BY <1>1, ConfigInvHolds, PTL

\* The other commands leave the configuration in effect only for their fallback, the
\* default or for jtp list none, and only when it could not be loaded.
THEOREM FallbackHasCauseHolds == Spec => []FallbackHasCause
  <1>1. ConfigInv => FallbackHasCause
    BY DEF ConfigInv, Using, Undisturbed, FallbackHasCause, Fallback
  <1> QED
    BY <1>1, ConfigInvHolds, PTL

\* jtp init takes the place of no file that was there from its beginning to its end.
THEOREM InitTakesNothingHolds == Spec => []InitTakesNothing
  <1>1. ConfigInv => InitTakesNothing
    BY DEF ConfigInv, Initialising, InitTakesNothing
  <1> QED
    BY <1>1, ConfigInvHolds, PTL
=============================================================================
