SPECIFICATION ShellSpec
CONSTANTS
  Procs = {sh}
  Shell = sh
  NoRemote = "none"
  AtRemote <- MCAtRemote
  Remotes = {"origin", "upstream"}
  Segments <- MCSegments
  MainRoot <- MCMainRoot
  BaseDir <- MCBaseDefault
  Branches <- Nested
  Typed <- Nested
  Revisions <- NoRev
  Rank <- MCRank
  InitBookmarks <- OnlyA
  InitRemote <- RemoteAB
  Fetches <- FetchNone
  Foreign <- NoForeign
  Cwds <- CwdNested
  RootLookupFails = FALSE
  Events = {"stop"}
PROPERTIES AddLandsThere CommandsEnd
INVARIANTS HintLeadsThere ShellStands
