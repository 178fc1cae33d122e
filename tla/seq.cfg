SPECIFICATION Spec
CONSTANTS
  Procs = {p1}
  NoRemote = "none"
  AtRemote <- MCAtRemote
  Remotes = {"origin", "upstream"}
  Segments <- MCSegments
  MainRoot <- MCMainRoot
  BaseDir <- MCBaseDefault
  Branches <- PrefixFree
  Typed <- PrefixFree
  Revisions <- RevA
  Rank <- MCRank
  InitBookmarks <- OnlyA
  InitRemote <- TwoRemotes
  Fetches <- FetchShared
  Foreign <- NoForeign
  Cwds <- CwdOrA
  RootLookupFails = FALSE
  Events = {"stop", "mark"}
INVARIANTS RegisteredOnDisk BranchAfterAdd RemoveAgreesWithCd
PROPERTIES LivesSpec
