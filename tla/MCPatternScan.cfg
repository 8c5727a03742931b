SPECIFICATION FairSpec
CONSTANTS
  Size = 5
  Bytes <- MCBytes
  Wild = Wild
  Code = {0, 1, 3, 4}
  Signatures <- MCSignatures
  Modulus = 8
  NotFound = NotFound
CHECK_DEADLOCK FALSE
INVARIANTS TypeOK ResultAgrees MatchFound ReadsInside
PROPERTIES ScanEnds
