SPECIFICATION Spec
CONSTANTS
  Procs = {p1, p2}
  NoRemote = "none"
  AtRemote <- MCAtRemote
  Remotes = {"origin", "upstream"}
  Segments <- MCSegments
  MainRoot <- MCMainRoot
  BaseDir <- MCBaseDefault
  Branches <- Siblings
  Typed <- Siblings
  Revisions <- NoRev
  Rank <- MCRank
  InitBookmarks <- Siblings
  InitRemote <- NoBranches
  Fetches <- FetchNone
  Foreign <- NoForeign
  Cwds <- CwdOrCA
  RootLookupFails = FALSE
  Events = {"stop"}
INVARIANTS ForgetIsAimed
SYMMETRY ProcSymmetry
