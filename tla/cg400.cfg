\* One card; a program may be killed while it sets the clock.
SPECIFICATION Spec
CONSTANTS
  AddrBits <- MCAddrBits
  WordBits <- MCWordBits
  HalfBits <- MCHalfBits
  FullScale <- MCFullScale
  Cards = {1}
  Boards = {1}
  Programs <- MCPrograms
  Fatal <- MCFatal
  MaxKills = 1
INVARIANTS
  PllProgrammed
  NoTornWord
  DdsFollows
  ReadsBack
  WritesItsWords
