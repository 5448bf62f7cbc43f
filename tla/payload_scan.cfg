SPECIFICATION Spec
CONSTANTS
  DataMessages <- MCDataMessages
  HeapBytes    = {0, 2, 16}
CHECK_DEADLOCK FALSE
INVARIANTS DecodeCorrect ScanAgrees LabelInStep
