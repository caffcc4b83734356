---------------------------- MODULE NvRam_proofs ----------------------------
(***************************************************************************)
(* Proofs about NvRam, for an EEPROM of any size, calls of any length and  *)
(* any number of polls: types for any processes, and for processes whose   *)
(* calls do not overlap, what a call reads, writes and protects.           *)
(***************************************************************************)
EXTENDS NvRam, SequenceTheorems, TLAPS

USE NvRamAssumption

-----------------------------------------------------------------------------
\* The invariant of any processes

HasWord == {"pollRead", "take", "command", "pollWrite", "next"}
WordLoop == {"write", "command", "pollWrite", "next"}
Writing == WordLoop \cup {"save", "off", "on", "wrote"}

\* A call's words are within the EEPROM, and a loop's body has one to go.
RangeOK(p) ==
  /\ offset[p] + count[p] <= Words
  /\ pc[p] \in HasWord => count[p] > 0
  /\ pc[p] \in Writing => count[p] = Len(buffer[p])

RangeInv == TypeOK /\ \A p \in Processes : RangeOK(p)

-----------------------------------------------------------------------------
\* The invariant of calls that do not overlap

\* No two calls are under way: the driver takes no lock, and its callers do not
\* share the EEPROM.
Alone == \A p, q \in Processes : pc[p] # "idle" /\ pc[q] # "idle" => p = q

\* A read has the words before offset.
ReadOK(p) ==
  pc[p] \in {"read", "pollRead", "take", "haveRead"} =>
    /\ offset[p] = start[p] + Len(buffer[p])
    /\ Holds(start[p], buffer[p])

\* How many words a write has written
Done(p) == Len(wrote[p]) - count[p]

\* A write has put its words before offset in their place, and has the others to go.
WriteOK(p) ==
  pc[p] \in Writing =>
    /\ count[p] <= Len(wrote[p]) /\ offset[p] = start[p] + Done(p)
    /\ \A k \in 1 .. count[p] : buffer[p][k] = wrote[p][Done(p) + k]
    /\ \A k \in 1 .. Done(p) : rom[start[p] + k - 1] = wrote[p][k]
    /\ pc[p] \in {"on", "wrote"} => count[p] = 0

\* The command that the chip has or had is that of the word the call has come to.
Given(p, flag) ==
  /\ vpd.addr = offset[p]
  /\ busy => vpd.flag = flag

Answered(p, flag) ==
  IF flag = PLX_VPD_READ THEN vpd.data = rom[offset[p]] ELSE rom[offset[p]] = Head(buffer[p])

ChipOK(p) ==
  /\ pc[p] = "read" => (busy => Given(p, PLX_VPD_READ) /\ count[p] > 0)
  /\ pc[p] = "pollRead" => /\ Given(p, PLX_VPD_READ)
                           /\ ~ busy => vpd.flag # PLX_VPD_READ /\ Answered(p, PLX_VPD_READ)
  /\ pc[p] = "take" => ~ busy /\ Answered(p, PLX_VPD_READ)
  /\ pc[p] \in {"write", "command"} =>
       (busy => Given(p, PLX_VPD_WRITE) /\ count[p] > 0 /\ vpd.data = Head(buffer[p]))
  /\ pc[p] \in {"command", "pollWrite"} => vpd.data = Head(buffer[p])
  /\ pc[p] = "pollWrite" => /\ Given(p, PLX_VPD_WRITE)
                            /\ ~ busy => vpd.flag # PLX_VPD_WRITE /\ Answered(p, PLX_VPD_WRITE)
  /\ pc[p] = "next" => ~ busy /\ Answered(p, PLX_VPD_WRITE)
  /\ pc[p] \in {"haveRead", "save", "off", "on", "wrote"} => ~ busy

\* The protection is off during the loop, and what will be put back is on.
ProtectOK(p) ==
  /\ pc[p] \in {"off", "on"} \cup WordLoop => data32[p]
  /\ protect <=> pc[p] \notin {"on"} \cup WordLoop

CallOK(p) == ReadOK(p) /\ WriteOK(p) /\ ChipOK(p) /\ ProtectOK(p)

CallInv ==
  /\ \A p \in Processes : pc[p] # "idle" => CallOK(p)
  /\ (\A p \in Processes : pc[p] = "idle") => ~ busy /\ protect

NvInv == RangeInv /\ CallInv

-----------------------------------------------------------------------------
\* Any processes

LEMMA WordLists ==
  /\ \A b \in Buffers : b \in Seq(Values) /\ Len(b) \in 0 .. MaxCount
  /\ <<>> \in Seq(Values) /\ Len(<<>>) = 0
<1>1. ASSUME NEW n \in 0 .. MaxCount, NEW b \in [1 .. n -> Values]
      PROVE  b \in Seq(Values) /\ Len(b) = n
  OBVIOUS
<1> QED
  BY <1>1, EmptySeq DEF Buffers

LEMMA Flags == PLX_VPD_READ \in BOOLEAN /\ PLX_VPD_WRITE \in BOOLEAN
  BY DEF PLX_VPD_READ, PLX_VPD_WRITE

LEMMA RangeInit == Init => RangeInv
<1> SUFFICES ASSUME Init PROVE RangeInv
  OBVIOUS
<1>1. buffer \in [Processes -> Seq(Values)] /\ wrote \in [Processes -> Seq(Values)]
  BY WordLists DEF Init
<1>2. vpd \in [addr : Addrs, flag : BOOLEAN, data : Values]
  BY Flags DEF Init, Addrs
<1>3. /\ offset \in [Processes -> 0 .. Words] /\ count \in [Processes -> 0 .. MaxCount]
      /\ start \in [Processes -> Addrs] /\ polls \in [Processes -> 0 .. Polls - 1]
  BY DEF Init, Addrs
<1>4. TypeOK
  BY <1>1, <1>2, <1>3 DEF Init, TypeOK
<1>5. ASSUME NEW p \in Processes PROVE RangeOK(p)
  <2>1. pc[p] = "idle" /\ offset[p] = 0 /\ count[p] = 0
    BY DEF Init
  <2> QED
    BY <2>1 DEF RangeOK, HasWord, Writing, WordLoop
<1> QED
  BY <1>4, <1>5 DEF RangeInv

\* The library's calls begin.
LEMMA BeginRange ==
  ASSUME RangeInv, NEW p \in Processes, NEW o \in Addrs,
         \/ \E n \in 1 .. MaxCount : ReadPCI_NVWord(p, o, n)
         \/ \E b \in Buffers : WritePCI_NVWord(p, o, b)
  PROVE  RangeInv'
<1> USE DEF RangeOK, HasWord, Writing, WordLoop, Go
<1>1. CASE \E n \in 1 .. MaxCount : ReadPCI_NVWord(p, o, n)
  <2> PICK n \in 1 .. MaxCount : ReadPCI_NVWord(p, o, n)
    BY <1>1
  <2>1. buffer' \in [Processes -> Seq(Values)]
    BY WordLists DEF ReadPCI_NVWord, RangeInv, TypeOK
  <2>2. TypeOK'
    BY <2>1 DEF ReadPCI_NVWord, RangeInv, TypeOK, Addrs, chip
  <2>3. ASSUME NEW q \in Processes PROVE RangeOK(q)'
    BY DEF ReadPCI_NVWord, RangeInv, TypeOK
  <2> QED
    BY <2>2, <2>3 DEF RangeInv
<1>2. CASE \E b \in Buffers : WritePCI_NVWord(p, o, b)
  <2> PICK b \in Buffers : WritePCI_NVWord(p, o, b)
    BY <1>2
  <2>1. b \in Seq(Values) /\ Len(b) \in 0 .. MaxCount
    BY WordLists
  <2>2. /\ buffer' \in [Processes -> Seq(Values)] /\ wrote' \in [Processes -> Seq(Values)]
    BY <2>1 DEF WritePCI_NVWord, RangeInv, TypeOK
  <2>3. TypeOK'
    BY <2>1, <2>2, SMTT(20) DEF WritePCI_NVWord, RangeInv, TypeOK, Addrs, chip
  <2>4. ASSUME NEW q \in Processes PROVE RangeOK(q)'
    BY <2>1 DEF WritePCI_NVWord, RangeInv, TypeOK
  <2> QED
    BY <2>3, <2>4 DEF RangeInv
<1> QED
  BY <1>1, <1>2

\* A loop goes on to the next word.
LEMMA NextWordRange ==
  ASSUME RangeInv, NEW p \in Processes, TakeWord(p) \/ NextWord(p)
  PROVE  RangeInv'
<1> USE DEF RangeOK, HasWord, Writing, WordLoop, Go
<1>1. CASE TakeWord(p)
  <2>1. Append(buffer[p], vpd.data) \in Seq(Values)
    BY DEF RangeInv, TypeOK
  <2>2. buffer' \in [Processes -> Seq(Values)]
    BY <1>1, <2>1 DEF TakeWord, RangeInv, TypeOK
  <2>3. /\ offset' \in [Processes -> 0 .. Words] /\ count' \in [Processes -> 0 .. MaxCount]
    BY <1>1 DEF TakeWord, RangeInv, TypeOK
  <2>4. TypeOK'
    BY <1>1, <2>2, <2>3 DEF TakeWord, RangeInv, TypeOK, history, chip
  <2>5. ASSUME NEW q \in Processes PROVE RangeOK(q)'
    BY <1>1 DEF TakeWord, RangeInv, TypeOK
  <2> QED
    BY <2>4, <2>5 DEF RangeInv
<1>2. CASE NextWord(p)
  <2>1. Tail(buffer[p]) \in Seq(Values) /\ Len(Tail(buffer[p])) = Len(buffer[p]) - 1
    <3>1. count[p] > 0 /\ count[p] = Len(buffer[p]) /\ buffer[p] \in Seq(Values)
      BY <1>2 DEF NextWord, RangeInv, TypeOK
    <3>2. buffer[p] # <<>>
      BY <3>1, EmptySeq
    <3> QED
      BY <3>1, <3>2, HeadTailProperties
  <2>2. buffer' \in [Processes -> Seq(Values)]
    BY <1>2, <2>1 DEF NextWord, RangeInv, TypeOK
  <2>3. /\ offset' \in [Processes -> 0 .. Words] /\ count' \in [Processes -> 0 .. MaxCount]
    BY <1>2 DEF NextWord, RangeInv, TypeOK
  <2>4. TypeOK'
    BY <1>2, <2>2, <2>3 DEF NextWord, RangeInv, TypeOK, history, chip
  <2>5. ASSUME NEW q \in Processes PROVE RangeOK(q)'
    BY <1>2, <2>1 DEF NextWord, RangeInv, TypeOK
  <2> QED
    BY <2>4, <2>5 DEF RangeInv
<1> QED
  BY <1>1, <1>2

\* The steps that leave the calls' words alone
LEMMA StepRange ==
  ASSUME RangeInv, NEW p \in Processes, Step(p)
  PROVE  RangeInv'
<1> USE DEF RangeOK, HasWord, Writing, WordLoop, Go
<1>1. CASE TakeWord(p) \/ NextWord(p)
  BY <1>1, NextWordRange
<1>2. CASE ReadProtect(p) \/ ProtectOff(p) \/ ProtectOn(p) \/ Return(p)
  <2>1. TypeOK'
    BY <1>2 DEF ReadProtect, ProtectOff, ProtectOn, Return, RangeInv, TypeOK, call, history, chip
  <2>2. ASSUME NEW q \in Processes PROVE RangeOK(q)'
    BY <1>2 DEF ReadProtect, ProtectOff, ProtectOn, Return, RangeInv, TypeOK, call
  <2> QED
    BY <2>1, <2>2 DEF RangeInv
<1>3. CASE GiveRead(p) \/ GiveWrite(p) \/ GiveData(p)
  <2>1. vpd' \in [addr : Addrs, flag : BOOLEAN, data : Values]
    <3>1. CASE GiveRead(p) \/ GiveWrite(p)
      <4>1. offset[p] \in Addrs
        BY <3>1 DEF GiveRead, GiveWrite, RangeInv, TypeOK, Addrs
      <4> QED
        BY <3>1, <4>1 DEF GiveRead, GiveWrite, Command, RangeInv, TypeOK, PLX_VPD_READ,
                          PLX_VPD_WRITE
    <3>2. CASE GiveData(p)
      <4>1. Head(buffer[p]) \in Values
        <5>1. buffer[p] # <<>> /\ buffer[p] \in Seq(Values)
          BY <3>2, EmptySeq DEF GiveData, RangeInv, TypeOK
        <5> QED
          BY <5>1, HeadTailProperties
      <4> QED
        BY <3>2, <4>1 DEF GiveData, RangeInv, TypeOK
    <3> QED
      BY <1>3, <3>1, <3>2
  <2>2. TypeOK'
    <3>1. /\ busy' \in BOOLEAN /\ polls' \in [Processes -> 0 .. Polls - 1]
          /\ UNCHANGED <<offset, buffer, count, start, wrote, data32, rom, protect>>
      <4>1. 0 \in 0 .. Polls - 1
        OBVIOUS
      <4>2. busy' \in BOOLEAN
        BY <1>3 DEF GiveRead, GiveWrite, GiveData, Command, RangeInv, TypeOK
      <4>3. polls' = polls \/ polls' = [polls EXCEPT ![p] = 0]
        BY <1>3 DEF GiveRead, GiveWrite, GiveData
      <4>4. polls' \in [Processes -> 0 .. Polls - 1]
        BY <4>1, <4>3 DEF RangeInv, TypeOK
      <4> QED
        BY <1>3, <4>2, <4>4 DEF GiveRead, GiveWrite, GiveData, call, history
    <3>2. \E to \in {"command", "pollRead", "pollWrite"} : pc' = [pc EXCEPT ![p] = to]
      BY <1>3 DEF GiveRead, GiveWrite, GiveData
    <3> QED
      BY <2>1, <3>1, <3>2 DEF RangeInv, TypeOK
  <2>3. ASSUME NEW q \in Processes PROVE RangeOK(q)'
    BY <1>3 DEF GiveRead, GiveWrite, GiveData, RangeInv, TypeOK, call
  <2> QED
    BY <2>2, <2>3 DEF RangeInv
<1>4. CASE PollRead(p) \/ PollWrite(p) \/ EndRead(p) \/ EndWrite(p)
  <2>1. polls' \in [Processes -> 0 .. Polls - 1]
    <3>1. (polls[p] + 1) % Polls \in 0 .. Polls - 1
      BY DEF RangeInv, TypeOK
    <3>2. polls' = polls \/ polls' = [polls EXCEPT ![p] = (polls[p] + 1) % Polls]
      BY <1>4 DEF PollRead, PollWrite, Poll, EndRead, EndWrite
    <3> QED
      BY <3>1, <3>2 DEF RangeInv, TypeOK
  <2>2. TypeOK'
    BY <1>4, <2>1 DEF PollRead, PollWrite, Poll, EndRead, EndWrite, RangeInv, TypeOK, call,
                      history, chip
  <2>3. ASSUME NEW q \in Processes PROVE RangeOK(q)'
    BY <1>4 DEF PollRead, PollWrite, Poll, EndRead, EndWrite, RangeInv, TypeOK, call
  <2> QED
    BY <2>2, <2>3 DEF RangeInv
<1> QED
  BY <1>1, <1>2, <1>3, <1>4 DEF Step, SIPLX_NVRamRead, SIPLX_NVRamWrite

LEMMA RangeStep == RangeInv /\ [Next]_vars => RangeInv'
<1> SUFFICES ASSUME RangeInv, [Next]_vars PROVE RangeInv'
  OBVIOUS
<1>1. CASE Finish
  <2>1. /\ vpd' \in [addr : Addrs, flag : BOOLEAN, data : Values]
        /\ rom' \in [Addrs -> Values] /\ busy' \in BOOLEAN
    <3>1. vpd.addr \in Addrs /\ vpd.data \in Values /\ rom[vpd.addr] \in Values
      BY DEF RangeInv, TypeOK
    <3>2. rom' \in [Addrs -> Values] /\ busy' \in BOOLEAN
      BY <1>1, <3>1, ZenonT(30) DEF Finish, RangeInv, TypeOK
    <3>3. CASE vpd' = [vpd EXCEPT !.flag = PLX_VPD_WRITE, !.data = rom[vpd.addr]]
      BY <3>1, <3>2, <3>3, Flags DEF RangeInv, TypeOK
    <3>4. CASE vpd' = [vpd EXCEPT !.flag = PLX_VPD_READ]
      BY <3>1, <3>2, <3>4, Flags DEF RangeInv, TypeOK
    <3> QED
      BY <1>1, <3>3, <3>4 DEF Finish
  <2>2. UNCHANGED <<pc, offset, buffer, count, start, wrote, data32, polls, protect>>
    BY <1>1 DEF Finish, call, history
  <2>3. TypeOK'
    BY <2>1, <2>2 DEF RangeInv, TypeOK
  <2> QED
    BY <2>2, <2>3 DEF RangeInv, RangeOK
<1>2. CASE UNCHANGED vars
  BY <1>2 DEF vars, call, history, chip, RangeInv, TypeOK, RangeOK
<1> QED
  BY <1>1, <1>2, BeginRange, StepRange DEF Next

\* Every variable keeps its type, whichever processes call: a call's words are
\* within the EEPROM, and a write has the words it counts.
THEOREM NvTypeCorrect == Spec => []TypeOK
<1>1. RangeInv => TypeOK
  BY DEF RangeInv
<1> QED
  BY <1>1, RangeInit, RangeStep, PTL DEF Spec

-----------------------------------------------------------------------------
\* Calls that do not overlap

LEMMA CallInit == Init => CallInv
  BY DEF Init, CallInv

\* A call's step: the others are not under way.
LEMMA OneCaller ==
  ASSUME RangeInv, CallInv, Alone, Alone', NEW p \in Processes, pc[p] # "idle",
         NEW to, pc' = [pc EXCEPT ![p] = to],
         to # "idle" => CallOK(p)',
         to = "idle" => ~ busy' /\ protect'
  PROVE  CallInv'
<1>1. pc'[p] = to /\ \A q \in Processes : q # p => pc'[q] = "idle"
  BY DEF RangeInv, TypeOK, Alone
<1> QED
  BY <1>1 DEF CallInv, CallOK

LEMMA BeginCall ==
  ASSUME RangeInv, CallInv, Alone', NEW p \in Processes, NEW o \in Addrs,
         \/ \E n \in 1 .. MaxCount : ReadPCI_NVWord(p, o, n)
         \/ \E b \in Buffers : WritePCI_NVWord(p, o, b)
  PROVE  CallInv'
<1>1. /\ pc[p] = "idle" /\ pc'[p] \in {"read", "save"}
      /\ \A q \in Processes : q # p => pc'[q] = pc[q]
      /\ UNCHANGED <<vpd, busy, rom, protect>>
  BY DEF ReadPCI_NVWord, WritePCI_NVWord, Go, RangeInv, TypeOK, chip
<1>2. \A q \in Processes : pc[q] = "idle" /\ (q # p => pc'[q] = "idle")
  BY <1>1 DEF Alone
<1>3. ~ busy /\ protect
  BY <1>2 DEF CallInv
<1>4. CallOK(p)'
  <2>1. CASE \E n \in 1 .. MaxCount : ReadPCI_NVWord(p, o, n)
    <3>1. pc'[p] = "read" /\ offset'[p] = o /\ start'[p] = o /\ buffer'[p] = <<>>
      BY <2>1 DEF ReadPCI_NVWord, Go, RangeInv, TypeOK
    <3>2. ReadOK(p)'
      BY <3>1, WordLists DEF ReadOK, Holds, Addrs
    <3> QED
      BY <1>1, <1>3, <3>1, <3>2 DEF CallOK, WriteOK, ChipOK, ProtectOK, Writing, WordLoop
  <2>2. CASE \E b \in Buffers : WritePCI_NVWord(p, o, b)
    <3>1. PICK b \in Buffers : WritePCI_NVWord(p, o, b)
      BY <2>2
    <3>2. /\ pc'[p] = "save" /\ offset'[p] = o /\ start'[p] = o /\ buffer'[p] = b
          /\ wrote'[p] = b /\ count'[p] = Len(b) /\ Len(b) \in Nat
      BY <3>1, WordLists DEF WritePCI_NVWord, Go, RangeInv, TypeOK
    <3>3. WriteOK(p)'
      BY <3>2 DEF WriteOK, Done, Addrs
    <3> QED
      BY <1>1, <1>3, <3>2, <3>3 DEF CallOK, ReadOK, ChipOK, ProtectOK, WordLoop
  <2> QED
    BY <2>1, <2>2
<1> QED
  BY <1>1, <1>2, <1>4 DEF CallInv, CallOK

\* The words of a call under way
LEMMA CallTypes ==
  ASSUME RangeInv, NEW p \in Processes
  PROVE  /\ offset[p] \in 0 .. Words /\ count[p] \in 0 .. MaxCount /\ start[p] \in Addrs
         /\ buffer[p] \in Seq(Values) /\ Len(buffer[p]) \in Nat
         /\ wrote[p] \in Seq(Values) /\ Len(wrote[p]) \in Nat
         /\ offset[p] \in Nat /\ count[p] \in Nat /\ start[p] \in Nat
         /\ Done(p) \in Int
  BY LenProperties DEF RangeInv, TypeOK, Addrs, Done

\* SIPLX_NVRamRead: the word that the chip answered is the next of the read.
LEMMA ReadCall ==
  ASSUME RangeInv, CallInv, Alone, Alone', NEW p \in Processes, SIPLX_NVRamRead(p)
  PROVE  CallInv'
<1> USE DEF Go
<1>1. /\ pc[p] \in {"read", "pollRead", "take"} /\ CallOK(p) /\ pc = [q \in Processes |-> pc[q]]
      /\ UNCHANGED <<start, wrote, data32, rom, protect>>
  <2>1. pc[p] \in {"read", "pollRead", "take"} /\ UNCHANGED <<start, wrote, data32, rom, protect>>
    BY DEF SIPLX_NVRamRead, GiveRead, PollRead, Poll, TakeWord, EndRead, call, history, chip
  <2>2. pc = [q \in Processes |-> pc[q]]
    BY DEF RangeInv, TypeOK
  <2> QED
    BY <2>1, <2>2 DEF CallInv, CallOK
<1>2. ProtectOK(p) /\ protect /\ ReadOK(p) /\ offset[p] = start[p] + Len(buffer[p])
      /\ Holds(start[p], buffer[p])
  BY <1>1 DEF CallOK, ProtectOK, ReadOK, WordLoop
<1>3. ASSUME NEW to \in {"read", "pollRead", "take", "haveRead"}, pc' = [pc EXCEPT ![p] = to],
             offset'[p] = start[p] + Len(buffer'[p]), Holds(start[p], buffer'[p]), ChipOK(p)'
      PROVE  CallInv'
  <2>1. pc'[p] = to
    BY <1>1, <1>3
  <2>2. CallOK(p)'
    BY <1>1, <1>2, <1>3, <2>1 DEF CallOK, ReadOK, WriteOK, ProtectOK, Writing, WordLoop, Holds
  <2> QED
    BY <1>1, <1>3, <2>2, OneCaller
<1>4. CASE GiveRead(p)
  <2>1. /\ pc' = [pc EXCEPT ![p] = "pollRead"] /\ UNCHANGED <<offset, buffer>>
        /\ vpd' = [vpd EXCEPT !.addr = offset[p], !.flag = PLX_VPD_READ] /\ busy'
    BY <1>4 DEF GiveRead, Command, call
  <2>2. vpd'.addr = offset[p] /\ vpd'.flag = PLX_VPD_READ
    BY <2>1 DEF RangeInv, TypeOK
  <2>3. ChipOK(p)'
    BY <1>1, <2>1, <2>2 DEF ChipOK, Given
  <2> QED
    BY <1>2, <1>3, <2>1, <2>3
<1>5. CASE PollRead(p)
  <2>1. /\ pc[p] = "pollRead" /\ UNCHANGED <<offset, buffer, count, vpd, busy>>
        /\ pc' = [pc EXCEPT ![p] = IF ~ Unchanged(p, PLX_VPD_READ) THEN "take"
                                   ELSE IF polls[p] + 1 = Polls THEN "read" ELSE "pollRead"]
    BY <1>5 DEF PollRead, Poll, call, chip
  <2>2. Given(p, PLX_VPD_READ) /\ count[p] > 0
        /\ (~ busy => vpd.flag # PLX_VPD_READ /\ Answered(p, PLX_VPD_READ))
    BY <1>1, <2>1 DEF CallOK, ChipOK, RangeInv, RangeOK, HasWord
  <2>3. ~ Unchanged(p, PLX_VPD_READ) => ~ busy
    BY <2>2 DEF Given, Unchanged
  <2>4. Given(p, PLX_VPD_READ)' /\ (Answered(p, PLX_VPD_READ) => Answered(p, PLX_VPD_READ)')
    BY <1>1, <2>1, <2>2 DEF Given, Answered, PLX_VPD_READ
  <2>5. CASE ~ Unchanged(p, PLX_VPD_READ)
    <3>1. pc' = [pc EXCEPT ![p] = "take"]
      BY <2>1, <2>5
    <3>2. ChipOK(p)'
      BY <1>1, <2>1, <2>2, <2>3, <2>4, <2>5, <3>1 DEF ChipOK
    <3> QED
      BY <1>2, <1>3, <2>1, <3>1, <3>2
  <2>6. CASE Unchanged(p, PLX_VPD_READ)
    <3>1. PICK to \in {"read", "pollRead"} : pc' = [pc EXCEPT ![p] = to]
      BY <2>1, <2>6
    <3>2. ChipOK(p)'
      BY <1>1, <2>1, <2>2, <2>4, <3>1 DEF ChipOK
    <3> QED
      BY <1>2, <1>3, <2>1, <3>1, <3>2
  <2> QED
    BY <2>5, <2>6
<1>6. CASE TakeWord(p)
  <2>1. /\ pc[p] = "take" /\ pc' = [pc EXCEPT ![p] = "read"] /\ UNCHANGED <<vpd, busy>>
        /\ buffer'[p] = Append(buffer[p], vpd.data) /\ offset'[p] = offset[p] + 1
    BY <1>6 DEF TakeWord, chip, RangeInv, TypeOK
  <2>2. ~ busy /\ vpd.data = rom[offset[p]]
    BY <1>1, <2>1 DEF CallOK, ChipOK, Answered
  <2>3. /\ Len(buffer'[p]) = Len(buffer[p]) + 1
        /\ \A k \in 1 .. Len(buffer[p]) : buffer'[p][k] = buffer[p][k]
        /\ buffer'[p][Len(buffer[p]) + 1] = vpd.data
    <3>1. buffer[p] \in Seq(Values) /\ vpd.data \in Values
      BY DEF RangeInv, TypeOK
    <3> QED
      BY <2>1, <3>1
  <2>4. offset'[p] = start[p] + Len(buffer'[p])
    BY <1>2, <2>1, <2>3, CallTypes
  <2>5. Holds(start[p], buffer'[p])
    <3> SUFFICES ASSUME NEW k \in 1 .. Len(buffer'[p]) PROVE rom[start[p] + k - 1] = buffer'[p][k]
      BY DEF Holds
    <3>1. CASE k = Len(buffer[p]) + 1
      <4>1. start[p] + k - 1 = offset[p]
        BY <1>2, <3>1, CallTypes
      <4> QED
        BY <2>2, <2>3, <3>1, <4>1
    <3>2. CASE k # Len(buffer[p]) + 1
      <4>1. k \in 1 .. Len(buffer[p])
        BY <2>3, <3>2, CallTypes
      <4> QED
        BY <1>2, <2>3, <4>1 DEF Holds
    <3> QED
      BY <3>1, <3>2
  <2>6. Holds(start[p], buffer'[p]) /\ ChipOK(p)'
    BY <1>1, <2>1, <2>2, <2>5 DEF ChipOK
  <2> QED
    BY <1>3, <2>1, <2>4, <2>6
<1>7. CASE EndRead(p)
  <2>1. /\ pc[p] = "read" /\ pc' = [pc EXCEPT ![p] = "haveRead"] /\ count[p] = 0
        /\ UNCHANGED <<offset, buffer, count, vpd, busy>>
    BY <1>7 DEF EndRead, call, chip
  <2>2. ~ busy
    BY <1>1, <2>1 DEF CallOK, ChipOK
  <2>3. ChipOK(p)'
    BY <1>1, <2>1, <2>2 DEF ChipOK
  <2> QED
    BY <1>2, <1>3, <2>1, <2>3
<1> QED
  BY <1>4, <1>5, <1>6, <1>7 DEF SIPLX_NVRamRead

\* SI_PLX_WritePCI_NVWord and SIPLX_NVRamWrite: the word that the chip has
\* written is the next of the write, and the protection is lifted around the loop.
LEMMA WriteCall ==
  ASSUME RangeInv, CallInv, Alone, Alone', NEW p \in Processes,
         ReadProtect(p) \/ ProtectOff(p) \/ ProtectOn(p) \/ SIPLX_NVRamWrite(p)
  PROVE  CallInv'
<1> USE DEF Go
<1>1. /\ pc[p] \in Writing \ {"wrote"} /\ CallOK(p) /\ pc = [q \in Processes |-> pc[q]]
      /\ UNCHANGED <<start, wrote, rom>>
  <2>1. pc[p] \in Writing \ {"wrote"} /\ UNCHANGED <<start, wrote, rom>>
    BY DEF ReadProtect, ProtectOff, ProtectOn, SIPLX_NVRamWrite, GiveData, GiveWrite, PollWrite,
           Poll, NextWord, EndWrite, call, history, chip, Writing, WordLoop
  <2>2. pc = [q \in Processes |-> pc[q]]
    BY DEF RangeInv, TypeOK
  <2> QED
    BY <2>1, <2>2 DEF CallInv, CallOK, Writing, WordLoop
<1>2. ASSUME NEW to \in Writing, pc' = [pc EXCEPT ![p] = to],
             UNCHANGED <<offset, buffer, count>>, to \in {"on", "wrote"} => count[p] = 0,
             ChipOK(p)', ProtectOK(p)'
      PROVE  CallInv'
  <2>1. pc'[p] = to
    BY <1>1, <1>2
  <2>2. WriteOK(p)'
    BY <1>1, <1>2, <2>1 DEF CallOK, WriteOK, Done
  <2>3. CallOK(p)'
    BY <1>2, <2>1, <2>2 DEF CallOK, ReadOK, Writing, WordLoop
  <2> QED
    BY <1>1, <1>2, <2>3, OneCaller DEF Writing, WordLoop
<1>3. CASE ReadProtect(p)
  <2>1. /\ pc[p] = "save" /\ pc' = [pc EXCEPT ![p] = "off"] /\ data32'[p] = protect
        /\ UNCHANGED <<offset, buffer, count, vpd, busy, protect>>
    BY <1>3 DEF ReadProtect, call, chip, RangeInv, TypeOK
  <2>2. ChipOK(p)' /\ ProtectOK(p)'
    BY <1>1, <2>1 DEF CallOK, ChipOK, ProtectOK, WordLoop
  <2> QED
    BY <1>2, <2>1, <2>2 DEF Writing
<1>4. CASE ProtectOff(p)
  <2>1. /\ pc[p] = "off" /\ pc' = [pc EXCEPT ![p] = "write"] /\ ~ protect'
        /\ UNCHANGED <<offset, buffer, count, vpd, busy, data32>>
    BY <1>4 DEF ProtectOff, call, chip
  <2>2. ChipOK(p)' /\ ProtectOK(p)'
    BY <1>1, <2>1 DEF CallOK, ChipOK, ProtectOK, WordLoop
  <2> QED
    BY <1>2, <2>1, <2>2 DEF Writing, WordLoop
<1>5. CASE ProtectOn(p)
  <2>1. /\ pc[p] = "on" /\ pc' = [pc EXCEPT ![p] = "wrote"] /\ protect' = data32[p]
        /\ UNCHANGED <<offset, buffer, count, vpd, busy, data32>>
    BY <1>5 DEF ProtectOn, call, chip
  <2>2. ChipOK(p)' /\ ProtectOK(p)' /\ count[p] = 0
    BY <1>1, <2>1 DEF CallOK, WriteOK, ChipOK, ProtectOK, Writing, WordLoop
  <2> QED
    BY <1>2, <2>1, <2>2 DEF Writing
<1>6. CASE GiveData(p)
  <2>1. /\ pc[p] = "write" /\ pc' = [pc EXCEPT ![p] = "command"] /\ count[p] > 0
        /\ vpd' = [vpd EXCEPT !.data = Head(buffer[p])]
        /\ UNCHANGED <<offset, buffer, count, busy, data32, protect>>
    BY <1>6 DEF GiveData, call
  <2>2. vpd'.addr = vpd.addr /\ vpd'.data = Head(buffer[p]) /\ (vpd'.flag <=> vpd.flag)
    BY <2>1 DEF RangeInv, TypeOK
  <2>3. busy => Given(p, PLX_VPD_WRITE)
    BY <1>1, <2>1 DEF CallOK, ChipOK
  <2>4. busy' => Given(p, PLX_VPD_WRITE)'
    BY <2>1, <2>2, <2>3 DEF Given, PLX_VPD_WRITE
  <2>5. ChipOK(p)'
    BY <1>1, <2>1, <2>2, <2>4 DEF ChipOK
  <2>6. ProtectOK(p)'
    BY <1>1, <2>1 DEF CallOK, ProtectOK, WordLoop
  <2> QED
    BY <1>2, <2>1, <2>5, <2>6 DEF Writing, WordLoop
<1>7. CASE GiveWrite(p)
  <2>1. /\ pc[p] = "command" /\ pc' = [pc EXCEPT ![p] = "pollWrite"] /\ busy'
        /\ vpd' = [vpd EXCEPT !.addr = offset[p], !.flag = PLX_VPD_WRITE]
        /\ UNCHANGED <<offset, buffer, count, data32, protect>>
    BY <1>7 DEF GiveWrite, Command, call
  <2>2. vpd'.addr = offset[p] /\ vpd'.data = vpd.data /\ vpd'.flag = PLX_VPD_WRITE
    BY <2>1 DEF RangeInv, TypeOK
  <2>3. vpd.data = Head(buffer[p])
    BY <1>1, <2>1 DEF CallOK, ChipOK
  <2>4. ChipOK(p)'
    BY <1>1, <2>1, <2>2, <2>3 DEF ChipOK, Given
  <2>5. ProtectOK(p)'
    BY <1>1, <2>1 DEF CallOK, ProtectOK, WordLoop
  <2> QED
    BY <1>2, <2>1, <2>4, <2>5 DEF Writing, WordLoop
<1>8. CASE PollWrite(p)
  <2>1. /\ pc[p] = "pollWrite" /\ UNCHANGED <<offset, buffer, count, vpd, busy, data32, protect>>
        /\ pc' = [pc EXCEPT ![p] = IF ~ Unchanged(p, PLX_VPD_WRITE) THEN "next"
                                   ELSE IF polls[p] + 1 = Polls THEN "write" ELSE "pollWrite"]
    BY <1>8 DEF PollWrite, Poll, call, chip
  <2>2. /\ Given(p, PLX_VPD_WRITE) /\ vpd.data = Head(buffer[p]) /\ count[p] > 0
        /\ ~ busy => vpd.flag # PLX_VPD_WRITE /\ Answered(p, PLX_VPD_WRITE)
    BY <1>1, <2>1 DEF CallOK, ChipOK, RangeInv, RangeOK, HasWord
  <2>3. ~ Unchanged(p, PLX_VPD_WRITE) => ~ busy
    BY <2>2 DEF Given, Unchanged
  <2>4. Given(p, PLX_VPD_WRITE)' /\ (Answered(p, PLX_VPD_WRITE) => Answered(p, PLX_VPD_WRITE)')
    BY <1>1, <2>1, <2>2 DEF Given, Answered, PLX_VPD_READ, PLX_VPD_WRITE
  <2>5. PICK to \in {"next", "write", "pollWrite"} :
          /\ pc' = [pc EXCEPT ![p] = to]
          /\ to = "next" => ~ busy
    BY <2>1, <2>3
  <2>6. ChipOK(p)'
    BY <1>1, <2>1, <2>2, <2>4, <2>5 DEF ChipOK
  <2>7. ProtectOK(p)'
    BY <1>1, <2>1, <2>5 DEF CallOK, ProtectOK, WordLoop
  <2> QED
    BY <1>2, <2>1, <2>5, <2>6, <2>7 DEF Writing, WordLoop
<1>9. CASE EndWrite(p)
  <2>1. /\ pc[p] = "write" /\ pc' = [pc EXCEPT ![p] = "on"] /\ count[p] = 0
        /\ UNCHANGED <<offset, buffer, count, vpd, busy, data32, protect>>
    BY <1>9 DEF EndWrite, call, chip
  <2>2. ChipOK(p)' /\ ProtectOK(p)'
    BY <1>1, <2>1 DEF CallOK, ChipOK, ProtectOK, WordLoop
  <2> QED
    BY <1>2, <2>1, <2>2 DEF Writing
<1>10. CASE NextWord(p)
  <2>1. /\ pc[p] = "next" /\ pc' = [pc EXCEPT ![p] = "write"] /\ UNCHANGED <<vpd, busy, data32, protect>>
        /\ buffer'[p] = Tail(buffer[p]) /\ offset'[p] = offset[p] + 1 /\ count'[p] = count[p] - 1
    BY <1>10 DEF NextWord, chip, RangeInv, TypeOK
  <2>2. /\ ~ busy /\ rom[offset[p]] = Head(buffer[p])
        /\ count[p] > 0 /\ count[p] = Len(buffer[p]) /\ buffer[p] # <<>>
    BY <1>1, <2>1, WordLists DEF CallOK, ChipOK, Answered, PLX_VPD_READ, PLX_VPD_WRITE,
       RangeInv, RangeOK, HasWord, Writing, WordLoop
  <2>3. /\ Head(buffer[p]) = buffer[p][1]
        /\ \A k \in 1 .. count[p] - 1 : buffer'[p][k] = buffer[p][k + 1]
    <3>1. Head(buffer[p]) = buffer[p][1]
      BY CallTypes
    <3>2. /\ Len(Tail(buffer[p])) = Len(buffer[p]) - 1
          /\ \A k \in 1 .. Len(Tail(buffer[p])) : Tail(buffer[p])[k] = buffer[p][k + 1]
      BY <2>2, CallTypes, HeadTailProperties
    <3> QED
      BY <2>1, <2>2, <3>1, <3>2
  <2>4. /\ count[p] <= Len(wrote[p]) /\ offset[p] = start[p] + Done(p)
        /\ \A k \in 1 .. count[p] : buffer[p][k] = wrote[p][Done(p) + k]
        /\ \A k \in 1 .. Done(p) : rom[start[p] + k - 1] = wrote[p][k]
    BY <1>1 DEF CallOK, WriteOK
  <2>5. Done(p)' = Done(p) + 1
    BY <1>1, <2>1, CallTypes, SMTT(20) DEF Done
  <2>6. \A k \in 1 .. count'[p] : buffer'[p][k] = wrote'[p][Done(p)' + k]
    <3> SUFFICES ASSUME NEW k \in 1 .. count[p] - 1 PROVE buffer'[p][k] = wrote[p][Done(p) + 1 + k]
      BY <1>1, <2>1, <2>5
    <3>1. k + 1 \in 1 .. count[p] /\ Done(p) + (k + 1) = Done(p) + 1 + k
      BY CallTypes
    <3>2. buffer[p][k + 1] = wrote[p][Done(p) + (k + 1)]
      BY <2>4, <3>1
    <3> QED
      BY <2>3, <3>1, <3>2
  <2>7. \A k \in 1 .. Done(p)' : rom'[start'[p] + k - 1] = wrote'[p][k]
    <3> SUFFICES ASSUME NEW k \in 1 .. Done(p) + 1 PROVE rom[start[p] + k - 1] = wrote[p][k]
      BY <1>1, <2>5
    <3>1. CASE k = Done(p) + 1
      <4>1. start[p] + k - 1 = offset[p]
        BY <2>4, <3>1, CallTypes
      <4>2. buffer[p][1] = wrote[p][Done(p) + 1]
        BY <2>2, <2>4, CallTypes
      <4> QED
        BY <2>2, <2>3, <3>1, <4>1, <4>2
    <3>2. CASE k # Done(p) + 1
      <4>1. k \in 1 .. Done(p)
        BY <3>2, CallTypes
      <4> QED
        BY <2>4, <4>1
    <3> QED
      BY <3>1, <3>2
  <2>8. count'[p] <= Len(wrote'[p]) /\ offset'[p] = start'[p] + Done(p)'
    BY <1>1, <2>1, <2>4, <2>5, CallTypes, SMTT(20)
  <2>9. pc'[p] = "write"
    BY <1>1, <2>1
  <2>10. WriteOK(p)'
    BY <2>6, <2>7, <2>8, <2>9 DEF WriteOK
  <2>11. CallOK(p)'
    BY <1>1, <2>1, <2>2, <2>9, <2>10 DEF CallOK, ReadOK, ChipOK, ProtectOK, WordLoop
  <2> QED
    BY <2>1, <2>11, OneCaller
<1> QED
  BY <1>3, <1>4, <1>5, <1>6, <1>7, <1>8, <1>9, <1>10 DEF SIPLX_NVRamWrite

LEMMA ReturnCall ==
  ASSUME RangeInv, CallInv, Alone, Alone', NEW p \in Processes, Return(p)
  PROVE  CallInv'
<1>1. /\ pc[p] \in {"haveRead", "wrote"} /\ pc' = [pc EXCEPT ![p] = "idle"]
      /\ UNCHANGED <<busy, protect>>
  BY DEF Return, chip
<1>2. ~ busy /\ protect
  BY <1>1 DEF CallInv, CallOK, ChipOK, ProtectOK, WordLoop
<1> QED
  BY <1>1, <1>2, OneCaller

\* The chip works for the call that is under way, and on its word.
LEMMA FinishServes ==
  ASSUME RangeInv, CallInv, Alone, Finish
  PROVE  \E p \in Processes :
           /\ CallOK(p) /\ (\A q \in Processes : q # p => pc[q] = "idle")
           /\ vpd.addr = offset[p]
           /\ \/ pc[p] \in {"read", "pollRead"} /\ vpd.flag = PLX_VPD_READ
              \/ /\ pc[p] \in {"write", "command", "pollWrite"} /\ vpd.flag = PLX_VPD_WRITE
                 /\ vpd.data = Head(buffer[p]) /\ ~ protect /\ count[p] > 0
<1>1. busy
  BY DEF Finish
<1>2. PICK p \in Processes : pc[p] # "idle"
  BY <1>1 DEF CallInv
<1>3. CallOK(p) /\ \A q \in Processes : q # p => pc[q] = "idle"
  BY <1>2 DEF CallInv, CallOK, Alone
<1>4. pc[p] \in {"read", "pollRead", "write", "command", "pollWrite"}
  BY <1>1, <1>2, <1>3 DEF CallOK, ChipOK, RangeInv, TypeOK
<1>5. CASE pc[p] \in {"read", "pollRead"}
  BY <1>1, <1>3, <1>5 DEF CallOK, ChipOK, Given
<1>6. CASE pc[p] \in {"write", "command", "pollWrite"}
  <2>1. Given(p, PLX_VPD_WRITE) /\ vpd.data = Head(buffer[p]) /\ ~ protect /\ count[p] > 0
    BY <1>1, <1>3, <1>6 DEF CallOK, ChipOK, ProtectOK, RangeInv, RangeOK, HasWord, WordLoop
  <2> QED
    BY <1>1, <1>3, <1>6, <2>1 DEF Given
<1> QED
  BY <1>4, <1>5, <1>6

LEMMA FinishCall ==
  ASSUME RangeInv, CallInv, Alone, Finish
  PROVE  CallInv'
<1>1. PICK p \in Processes :
        /\ CallOK(p) /\ (\A q \in Processes : q # p => pc[q] = "idle")
        /\ vpd.addr = offset[p]
        /\ \/ pc[p] \in {"read", "pollRead"} /\ vpd.flag = PLX_VPD_READ
           \/ /\ pc[p] \in {"write", "command", "pollWrite"} /\ vpd.flag = PLX_VPD_WRITE
              /\ vpd.data = Head(buffer[p]) /\ ~ protect /\ count[p] > 0
  BY FinishServes
<1>2. /\ ~ busy' /\ UNCHANGED <<pc, offset, buffer, count, start, wrote, data32, protect>>
  BY DEF Finish, call, history
<1>3. CASE pc[p] \in {"read", "pollRead"}
  <2>1. vpd.flag = PLX_VPD_READ
    BY <1>1, <1>3
  <2>2. /\ vpd' = [vpd EXCEPT !.flag = PLX_VPD_WRITE, !.data = rom[vpd.addr]] /\ rom' = rom
    BY <2>1 DEF Finish
  <2>3. /\ vpd'.addr = offset[p] /\ vpd'.flag = PLX_VPD_WRITE /\ vpd'.data = rom'[offset'[p]]
    BY <1>1, <1>2, <2>2 DEF RangeInv, TypeOK
  <2>4. ChipOK(p)'
    BY <1>2, <1>3, <2>3 DEF ChipOK, Given, Answered, PLX_VPD_READ, PLX_VPD_WRITE
  <2>5. CallOK(p)'
    BY <1>1, <1>2, <1>3, <2>2, <2>4 DEF CallOK, ReadOK, Holds, WriteOK, ProtectOK, Writing, WordLoop
  <2> QED
    BY <1>1, <1>2, <1>3, <2>5 DEF CallInv, CallOK
<1>4. CASE pc[p] \in {"write", "command", "pollWrite"}
  <2>1. /\ vpd.flag = PLX_VPD_WRITE /\ vpd.data = Head(buffer[p]) /\ ~ protect /\ count[p] > 0
    BY <1>1, <1>4
  <2>2. /\ vpd' = [vpd EXCEPT !.flag = PLX_VPD_READ]
        /\ rom' = [rom EXCEPT ![offset[p]] = Head(buffer[p])]
    BY <1>1, <2>1 DEF Finish, PLX_VPD_READ, PLX_VPD_WRITE
  <2>3. /\ vpd'.addr = offset[p] /\ vpd'.flag = PLX_VPD_READ /\ vpd'.data = Head(buffer[p])
        /\ rom'[offset[p]] = Head(buffer[p])
        /\ \A a \in Addrs : a # offset[p] => rom'[a] = rom[a]
    BY <1>1, <2>1, <2>2 DEF RangeInv, TypeOK
  <2>4. ChipOK(p)'
    BY <1>2, <1>4, <2>3 DEF ChipOK, Given, Answered, PLX_VPD_READ, PLX_VPD_WRITE
  <2>5. WriteOK(p)'
    <3>1. /\ count[p] <= Len(wrote[p]) /\ offset[p] = start[p] + Done(p)
          /\ \A k \in 1 .. count[p] : buffer[p][k] = wrote[p][Done(p) + k]
          /\ \A k \in 1 .. Done(p) : rom[start[p] + k - 1] = wrote[p][k]
      BY <1>1, <1>4 DEF CallOK, WriteOK, Writing, WordLoop
    <3>2. ASSUME NEW k \in 1 .. Done(p) PROVE rom'[start[p] + k - 1] = wrote[p][k]
      <4>1. start[p] + k - 1 \in Addrs /\ start[p] + k - 1 # offset[p]
        BY <3>1, CallTypes DEF Addrs
      <4> QED
        BY <2>3, <3>1, <4>1
    <3> QED
      BY <1>2, <1>4, <3>1, <3>2 DEF WriteOK, Done
  <2>6. CallOK(p)'
    BY <1>1, <1>2, <1>4, <2>4, <2>5 DEF CallOK, ReadOK, ProtectOK, WordLoop
  <2> QED
    BY <1>1, <1>2, <1>4, <2>6 DEF CallInv, CallOK
<1> QED
  BY <1>1, <1>3, <1>4

LEMMA CallStep == NvInv /\ Alone /\ Alone' /\ [Next]_vars => NvInv'
<1> SUFFICES ASSUME NvInv, Alone, Alone', [Next]_vars PROVE NvInv'
  OBVIOUS
<1>1. RangeInv /\ RangeInv' /\ CallInv
  BY RangeStep DEF NvInv
<1>2. ASSUME NEW p \in Processes, Step(p) PROVE CallInv'
  BY <1>1, <1>2, ReadCall, WriteCall, ReturnCall DEF Step
<1>3. CASE UNCHANGED vars
  <2>1. UNCHANGED <<pc, offset, buffer, count, start, wrote, data32, vpd, busy, rom, protect>>
    BY <1>3 DEF vars, call, history, chip
  <2>2. ASSUME NEW p \in Processes, CallOK(p) PROVE CallOK(p)'
    <3>1. ReadOK(p)' /\ WriteOK(p)' /\ ProtectOK(p)'
      BY <2>1, <2>2 DEF CallOK, ReadOK, WriteOK, ProtectOK, Holds, Done
    <3>2. \A flag \in {PLX_VPD_READ, PLX_VPD_WRITE} :
            (Given(p, flag) => Given(p, flag)') /\ (Answered(p, flag) => Answered(p, flag)')
      BY <2>1 DEF Given, Answered, PLX_VPD_READ, PLX_VPD_WRITE
    <3>3. ChipOK(p)'
      BY <2>1, <2>2, <3>2 DEF CallOK, ChipOK, PLX_VPD_READ, PLX_VPD_WRITE
    <3> QED
      BY <3>1, <3>3 DEF CallOK
  <2>3. ASSUME NEW p \in Processes, pc'[p] # "idle" PROVE CallOK(p)'
    BY <1>1, <2>1, <2>2, <2>3 DEF CallInv
  <2>4. (\A p \in Processes : pc'[p] = "idle") => ~ busy' /\ protect'
    BY <1>1, <2>1 DEF CallInv
  <2> QED
    BY <1>1, <2>3, <2>4 DEF NvInv, CallInv
<1> QED
  BY <1>1, <1>2, <1>3, BeginCall, FinishCall DEF Next, NvInv

-----------------------------------------------------------------------------
\* What holds of calls that do not overlap

\* The chip's command is the call's, what was read or written so far is the
\* EEPROM's, and the protection is off in the write's loop only: in every state,
\* as long as one call ends before the next begins.
THEOREM NvInvariant == Spec /\ []Alone => []NvInv
<1>1. Init => NvInv
  BY RangeInit, CallInit DEF NvInv
<1> QED
  BY <1>1, CallStep, PTL DEF Spec

\* SIPLX_NVRamRead returns the words of the EEPROM, and after SIPLX_NVRamWrite
\* the EEPROM has the words of the call, however long the chip takes and however
\* often the command is given again.
THEOREM NvCallsDoTheirWork == Spec /\ []Alone => []CallsDoTheirWork
<1>1. NvInv => CallsDoTheirWork
  <2> SUFFICES ASSUME NvInv, NEW p \in Processes
               PROVE  /\ pc[p] = "haveRead" => Holds(start[p], buffer[p])
                      /\ pc[p] = "wrote" => Holds(start[p], wrote[p])
    BY DEF CallsDoTheirWork
  <2>1. pc[p] = "haveRead" => Holds(start[p], buffer[p])
    BY DEF NvInv, CallInv, CallOK, ReadOK
  <2>2. ASSUME pc[p] = "wrote" PROVE Holds(start[p], wrote[p])
    <3>1. Done(p) = Len(wrote[p])
      BY <2>2, CallTypes DEF NvInv, CallInv, CallOK, WriteOK, Writing, Done
    <3> QED
      BY <2>2, <3>1 DEF NvInv, CallInv, CallOK, WriteOK, Writing, Holds
  <2> QED
    BY <2>1, <2>2
<1> QED
  BY <1>1, NvInvariant, PTL

\* SI_PLX_WritePCI_NVWord puts back the protection it found, which is on: the
\* EEPROM is protected whenever no write is under way.
THEOREM NvWriteProtectOn == Spec /\ []Alone => []WriteProtectOn
<1>1. NvInv /\ Alone => WriteProtectOn
  BY DEF NvInv, CallInv, CallOK, ProtectOK, WriteProtectOn, WordLoop
<1> QED
  BY <1>1, NvInvariant, PTL

\* The chip changes no word of the EEPROM but the one that a call is writing,
\* and that to the word the call has for it.
THEOREM NvWritesItsWordsOnly == Spec /\ []Alone => WritesItsWordsOnly
<1>1. NvInv /\ Alone /\ [Next]_vars =>
        \A a \in Addrs : rom'[a] # rom[a] =>
          \E p \in Processes :
            /\ pc[p] \in {"write", "command", "pollWrite"}
            /\ a = offset[p] /\ rom'[a] = Head(buffer[p])
  <2> SUFFICES ASSUME NvInv, Alone, [Next]_vars, NEW a \in Addrs, rom'[a] # rom[a]
               PROVE  \E p \in Processes :
                        /\ pc[p] \in {"write", "command", "pollWrite"}
                        /\ a = offset[p] /\ rom'[a] = Head(buffer[p])
    OBVIOUS
  <2>1. Finish
    BY DEF Next, Step, ReadPCI_NVWord, WritePCI_NVWord, ReadProtect, ProtectOff, ProtectOn,
           SIPLX_NVRamRead, SIPLX_NVRamWrite, GiveRead, PollRead, TakeWord, EndRead, GiveData,
           GiveWrite, PollWrite, Poll, NextWord, EndWrite, Return, vars, chip
  <2>2. rom' = [rom EXCEPT ![vpd.addr] = vpd.data] /\ vpd.flag # PLX_VPD_READ
    BY <2>1 DEF Finish
  <2>3. a = vpd.addr /\ rom'[a] = vpd.data
    BY <2>2 DEF NvInv, RangeInv, TypeOK
  <2> QED
    BY <2>1, <2>2, <2>3, FinishServes DEF NvInv
<1> QED
  BY <1>1, NvInvariant, PTL DEF Spec, WritesItsWordsOnly

=============================================================================
