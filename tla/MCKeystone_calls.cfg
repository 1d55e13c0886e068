\* One enclave, and one eid that is not valid.
SPECIFICATION FairSpec
CONSTANTS
  NR_ENCLAVES = 1
  MAX_PAYLOAD_SIZE = 12
  EidArg = {0, 1}
  SecureArg <- MCSecure
  SharedArg <- MCShared
PROPERTY CallsReturn
