\* One process, and a chip that answers early or late.
SPECIFICATION FairSpec
CONSTANTS
  Processes = {p1}
  Words = 3
  Values = {v1, v2}
  MaxCount = 2
  Polls = 2
INVARIANTS
  TypeOK
  CallsDoTheirWork
  WriteProtectOn
PROPERTIES
  WritesItsWordsOnly
  CallEnds
