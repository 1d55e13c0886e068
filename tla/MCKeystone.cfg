\* Two enclaves, and one eid that is not valid.
SPECIFICATION Spec
CONSTANTS
  NR_ENCLAVES = 2
  MAX_PAYLOAD_SIZE = 12
  EidArg = {0, 1, 2}
  SecureArg <- MCSecure
  SharedArg <- MCShared
INVARIANTS
  TypeOK Regions OneRunning PmpMatches Isolated Confined ResumePoint
PROPERTIES
  Integrity
