\* Every transfer of a buffer that fits the table, in block and point mode, with
\* pages that cannot all be pinned.
SPECIFICATION FairSpec
CONSTANTS
  PageSize <- MCPageSize
  MaxPages <- MCMaxPages
  Modulus <- MCModulus
  Requests <- MCRequests
  PinShort = TRUE
INVARIANTS
  MovesTheBuffer
  PinsBalance
  SGInv
PROPERTIES
  ChainEnds
