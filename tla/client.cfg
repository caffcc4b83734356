\* One process makes every kind of call; the card's DSP rings when it likes.
SPECIFICATION ClientSpec
\* After a stray doorbell two transfers may be outstanding, and a write completion
\* left behind stops the process in the driver's spin loop (write_ends.cfg).
CHECK_DEADLOCK FALSE
CONSTANTS
  Unasked = 1
  reader = reader
  writer = writer
  l1 = l1
  l2 = l2
  Worker = Worker
  NoList = NoList
  Procs = {reader}
  Users <- OneProcess
  Cancellers = {}
  AddOnUsers = {reader}
  Requests <- MCRequests
  PageSize <- MCPageSize
  MaxPages <- MCMaxPages
  PageLists = {l1, l2}
  PinResults = {"all", "some"}
  KmallocFails = FALSE
  TimerValues = {0}
  CardRings = TRUE
INVARIANTS
  DirectionKept
  IrqUnmasked
PROPERTIES
  ReturnsWhenDone
  CallReturns
  WriteEndsAlone
  ReadEnds
