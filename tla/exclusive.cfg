\* One process reads, another writes; every buffer fits a descriptor table,
\* but kmalloc may return NULL and get_user_pages may pin only some pages.
SPECIFICATION Spec
\* A transfer whose kmalloc failed leaves in_progress set, and the next caller
\* of each channel spins for ever.
CHECK_DEADLOCK FALSE
CONSTANTS
  reader = reader
  writer = writer
  l1 = l1
  l2 = l2
  Worker = Worker
  NoList = NoList
  Procs = {reader, writer}
  Users <- OneUserEach
  Cancellers = {}
  AddOnUsers = {}
  Requests <- FillsTable
  PageSize <- MCPageSize
  MaxPages <- MCMaxPages
  PageLists = {l1, l2}
  PinResults = {"all", "some"}
  KmallocFails = TRUE
  TimerValues = {0}
  CardRings = TRUE
INVARIANTS
  DMASafety
  ReleaseSafety
  NoLeak
  IrqClaimed
  IInv
PROPERTIES
  ReleasedOnlyWhenDone
  ClaimedOnlyWhenQuiet
  ImplementsDmaChannel
