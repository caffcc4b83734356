\* Two processes, one that reads and one that writes, and no doorbells.
SPECIFICATION ClientSpec
CONSTANTS
  Unasked = 0
  reader = reader
  writer = writer
  l1 = l1
  l2 = l2
  Worker = Worker
  NoList = NoList
  Procs = {reader, writer}
  Users <- OneUserEach
  Cancellers = {}
  AddOnUsers = {}
  Requests <- MCRequests
  PageSize <- MCPageSize
  MaxPages <- MCMaxPages
  PageLists = {l1, l2}
  PinResults = {"all"}
  KmallocFails = FALSE
  TimerValues = {0}
  CardRings = FALSE
PROPERTIES
  ReturnsWhenDone
