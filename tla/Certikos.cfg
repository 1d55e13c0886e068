\* Pids 0, 1 and 7 are never free for the taking; 2 and 3 belong to the idle
\* process, 6 to process 2.
SPECIFICATION FairSpec
CONSTANTS
  NR_PROCS = 7
  NR_CHILDREN = 3
  NR_PAGES = 2
  PidArg = {0, 1, 2, 3, 6, 7}
  QuotaArg = {0, 1, 2, 3}
INVARIANTS TypeOK Partition Ring PmpCurrent Confined
PROPERTIES Integrity Refinement EveryoneRuns
