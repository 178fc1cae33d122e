SPECIFICATION FairSpec
CONSTANTS
  HookTypes <- ThreeHooks
  Streams <- MCStreams
  Output <- MCOutput
  Shell = "sh"
  PipeSize = 2
  WriterMayFail = TRUE
INVARIANTS TypeOK OneWriter InOrder ConfirmedIsComplete
PROPERTIES HooksEnd
