SPECIFICATION Spec
CONSTANTS
  Segments <- MCSegments
  MainRoot <- MCMainRoot
  BaseDir <- MCBaseDir
  Branch <- MCBranch
  InitFiles <- MCFiles
  Configs <- MCConfigs
  Order <- MCOrder
  MaxLength = 7
  Removable <- MCRemovable
INVARIANTS TypeOK CopyIsComplete LinkSharesSource
PROPERTIES OnlyWorktreeWritten HooksEnd
CHECK_DEADLOCK FALSE
