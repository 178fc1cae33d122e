SPECIFICATION Spec
CONSTANTS
  Values = {"../worktrees", "wt"}
  Default = "../worktrees"
  Dirs = {"root", "below"}
  MainDir = "root"
  Edited = {"root"}
INVARIANTS TypeOK AddsWhereConfigured FallbackHasCause InitTakesNothing
