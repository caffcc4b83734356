\* The threads that wait for mmap_sem wait for ever.
SPECIFICATION FairSpec
CONSTANTS
  Threads = {t1, t2}
  NoThread = NoThread
  MaxMapped = 2
PROPERTIES
  EnablesInts
CHECK_DEADLOCK FALSE
