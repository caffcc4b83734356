\* A process that dies of an oops makes no more calls.
SPECIFICATION Spec
CONSTANTS
  Processes = {p1, p2}
  Calls <- MCCalls
  FifoSelect <- MCFifoSelect
  Layouts <- MCLayouts
INVARIANTS
  WordsInOrder
  DoesItsWork
  FifoTurnedItsWay
CHECK_DEADLOCK FALSE
