SPECIFICATION Spec
CONSTANTS
  Procs = {p1}
  NoRemote = "none"
  AtRemote <- MCAtRemote
  Remotes = {"origin", "upstream"}
  Segments <- MCSegments
  MainRoot <- MCMainRoot
  BaseDir <- MCBaseDefault
  Branches <- Nested
  Typed <- Nested
  Revisions <- NoRev
  Rank <- MCRank
  InitBookmarks <- NoBranches
  InitRemote <- NoBranches
  Fetches <- FetchNone
  Foreign <- NoForeign
  Cwds <- CwdMain
  RootLookupFails = FALSE
  Events = {}
PROPERTIES OnlyOwnDirectory
