SPECIFICATION Spec
CONSTANTS
  TermWidths <- MCTermWidths
  PathLengths <- MCPathLengths
  BranchLengths <- MCBranchLengths
  MaxPathFlags <- MCMaxPathFlags
  MaxPathEnvs <- MCMaxPathEnvs
INVARIANTS TypeOK RowFits CutsAreSound CutsAreNeeded
CHECK_DEADLOCK FALSE
