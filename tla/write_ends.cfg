\* The bottom half serves one source a run (isr.c:235-325).
SPECIFICATION FairSpec
\* The lost completion stops the process in its spin loop.
CHECK_DEADLOCK FALSE
CONSTANTS
  reader = reader
  writer = writer
  l1 = l1
  l2 = l2
  Worker = Worker
  NoList = NoList
  Procs = {reader}
  Users <- OneProcess
  Cancellers = {}
  AddOnUsers = {}
  Requests <- Fitting
  PageSize <- MCPageSize
  MaxPages <- MCMaxPages
  PageLists = {l1, l2}
  PinResults = {"all", "some"}
  KmallocFails = FALSE
  TimerValues = {0}
  CardRings = TRUE
PROPERTIES
  WriteEnds
