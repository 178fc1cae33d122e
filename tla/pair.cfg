SPECIFICATION Spec
CONSTANTS
  Procs = {p1, p2}
  NoRemote = "none"
  AtRemote <- MCAtRemote
  Remotes = {"origin", "upstream"}
  Segments <- MCSegments
  MainRoot <- MCMainRoot
  BaseDir <- MCBaseParent
  Branches <- AOrMain
  Typed <- AOrMainOrExt
  Revisions <- NoRev
  Rank <- MCRank
  InitBookmarks <- OnlyA
  InitRemote <- NoBranches
  Fetches <- FetchNone
  Foreign <- FarWorkspace
  Cwds <- CwdPair
  RootLookupFails = FALSE
  Events = {"stop", "mark", "edit"}
INVARIANTS TypeOK MainSafe UnmanagedSafe RemoveAgreesWithCd
SYMMETRY ProcSymmetry
