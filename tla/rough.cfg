\* One process uses both channels with timeouts on, cancels at any time, turns
\* the doorbell interrupt on, asks for more than a table carries, and has memory
\* for one page list only.
SPECIFICATION Spec
\* The kernel thread may have died in SIPLX_Build_SGL, and a process may spin
\* for ever on a channel that nobody will clear.
CHECK_DEADLOCK FALSE
CONSTANTS
  reader = reader
  writer = writer
  l1 = l1
  l2 = l2
  Worker = Worker
  NoList = NoList
  Procs = {reader}
  Users <- OneProcess
  Cancellers = {reader}
  AddOnUsers = {reader}
  Requests <- Mixed
  PageSize <- MCPageSize
  MaxPages <- MCMaxPages
  PageLists = {l1}
  PinResults = {"all"}
  KmallocFails = FALSE
  TimerValues = {1}
  CardRings = FALSE
INVARIANTS
  TypeOK
  ReadCompletionKept
