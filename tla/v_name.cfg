SPECIFICATION Spec
CONSTANTS
  Procs = {p1}
  NoRemote = "none"
  AtRemote <- MCAtRemote
  Remotes = {"origin", "upstream"}
  Segments <- MCSegments
  MainRoot <- MCMainRoot
  BaseDir <- MCBaseDefault
  Branches <- Shadow
  Typed <- Shadow
  Revisions <- NoRev
  Rank <- MCRank
  InitBookmarks <- NoBranches
  InitRemote <- NoBranches
  Fetches <- FetchNone
  Foreign <- NoForeign
  Cwds <- CwdMain
  RootLookupFails = FALSE
  Events = {}
INVARIANTS MoreSpecificFirst
