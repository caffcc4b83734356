\* Two 9030 cards and a 9054 on one line; the kernel's own limit is far larger.
SPECIFICATION Spec
CONSTANTS
  Boards9030 = {lint1, lint2}
  Boards9054 = {dma1}
  NobodyCared = 2
INVARIANTS
  LintCleared
CHECK_DEADLOCK FALSE
