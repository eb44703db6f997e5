SPECIFICATION FairSpec
CONSTANTS
  f1 = f1
  f2 = f2
  File = {f1, f2}
  Size <- MCSize
  Window = 3
  MaxCommands = 3
  MaxEntries = 1
  MaxFaults = 2
INVARIANTS InStep PutUnmixed
PROPERTIES TransferComplete CommandReturns ChildEnds
CHECK_DEADLOCK FALSE
