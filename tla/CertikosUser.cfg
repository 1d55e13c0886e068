SPECIFICATION UserSpec
CONSTANTS
  NR_PROCS = 12
  NR_CHILDREN = 4
  NR_PAGES = 8
  PidArg = {}
  QuotaArg = {2, 3}
  ImagePages = 1
  SetupPages = 2
INVARIANT QuotaMaintained
CHECK_DEADLOCK FALSE
