SPECIFICATION Spec
CONSTANTS
  Procs = {p1}
  NoRemote = "none"
  AtRemote <- MCAtRemote
  Remotes = {"origin", "upstream"}
  Segments <- MCSegments
  MainRoot <- MCMainRoot
  BaseDir <- MCBaseDefault
  Branches <- PrefixFree
  Typed <- PrefixFree
  Revisions <- NoRev
  Rank <- MCRank
  InitBookmarks <- PrefixFree
  InitRemote <- NoBranches
  Fetches <- FetchNone
  Foreign <- NoForeign
  Cwds <- CwdMain
  RootLookupFails = FALSE
  Events = {}
PROPERTIES BranchOfRemoved
