SPECIFICATION FairSpec
CONSTANTS
  Jobs            <- MCJobs
  NoStructure     <- NoNode
  NoChecks        = "new"
  DecodePiece     <- MCDecode
  Freed           <- MCFreed
  Inherit         <- MCInherit
  Keep            <- MCKeep
  Check           <- MCCheck
  EncodeStructure <- MCEncode
  DecodeAll       <- MCDecodeAll
  MayPass         <- MCMayPass
  MustPass        <- MCMustPass
  Resumable       <- MCResumable
  AllChecks       = {"new", "none", "elements"}
INVARIANTS TypeOK BufferFits UnreadKept NothingLeaked DecoderResumes
PROPERTIES OutputReadsBack InPieces Terminates
