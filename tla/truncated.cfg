SPECIFICATION Spec
CONSTANTS
  Jobs            <- MCJobs
  NoStructure     <- NoNode
  NoChecks        = "new"
  DecodePiece     <- MCDecode
  Freed           <- MCFreed
  Inherit         <- MCInherit
  Keep            <- MCKeep
  Check           <- MCCheck
  EncodeStructure <- MCEncode
  DecodeAll       <- MCDecodeAll
  MayPass         <- MCMayPass
  MustPass        <- MCMustPass
  Resumable       <- MCResumable
  AllChecks       = {"new", "none", "elements"}
PROPERTY OnlyEofIsSilent
