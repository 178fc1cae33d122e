SPECIFICATION Spec
CONSTANTS
  Segments <- MCSegments
  MainRoot <- MCMainRoot
  BaseDir <- MCBaseDir
  Branch <- MCBranch
  InitFiles <- MCFiles
  Configs <- SharedCache
  Order <- MCOrder
  MaxLength = 7
  Removable <- NotRemovable
PROPERTIES OnlyWorktreeWritten
CHECK_DEADLOCK FALSE
