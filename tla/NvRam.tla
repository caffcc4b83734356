------------------------------- MODULE NvRam -------------------------------
(***************************************************************************)
(* Reading and writing the configuration EEPROM behind the PLX chip, word  *)
(* by word through its VPD registers (SIPLX_NVRamRead and SIPLX_NVRamWrite *)
(* in plx0206.c), and the library call that lifts the write protection for *)
(* a write (SI_PLX_WritePCI_NVWord in sicommon_plx_lnx.cpp).  Any number   *)
(* of processes; the ioctls take no lock.                                  *)
(***************************************************************************)
EXTENDS Integers, Sequences

CONSTANTS
  Processes,
  Words,      \* words in the EEPROM
  Values,     \* what a word may hold
  MaxCount,   \* words a call asks for
  Polls       \* polls before the command is given again: 200

ASSUME NvRamAssumption ==
  /\ Words \in Nat \ {0}
  /\ Values # {}
  /\ MaxCount \in Nat
  /\ Polls \in Nat \ {0}

VARIABLES
  pc,       \* where each process is
  offset,   \* the call's next word
  buffer,   \* a write's words to go; a read's words so far
  count,    \* words to go
  start,    \* the call's first word, and what it wrote (history)
  wrote,
  data32,   \* the process's copy of the write-protect register
  polls,
  vpd,      \* the VPD registers: address, flag, data
  busy,     \* whether the chip works on a command
  rom,      \* the EEPROM
  protect   \* its write protection

call == <<offset, buffer, count>>
history == <<start, wrote>>
chip == <<vpd, busy, rom>>
vars == <<pc, call, history, data32, polls, chip, protect>>

Addrs == 0 .. Words - 1
Buffers == UNION {[1 .. n -> Values] : n \in 0 .. MaxCount}

PLX_VPD_READ == FALSE
PLX_VPD_WRITE == TRUE

Init ==
  /\ pc = [p \in Processes |-> "idle"]
  /\ offset = [p \in Processes |-> 0]
  /\ buffer = [p \in Processes |-> <<>>]
  /\ count = [p \in Processes |-> 0]
  /\ start = [p \in Processes |-> 0]
  /\ wrote = [p \in Processes |-> <<>>]
  /\ data32 = [p \in Processes |-> TRUE]
  /\ polls = [p \in Processes |-> 0]
  /\ vpd \in [addr : {0}, flag : {PLX_VPD_WRITE}, data : Values]
  /\ busy = FALSE
  /\ rom \in [Addrs -> Values]
  /\ protect = TRUE

Go(p, from, to) == pc[p] = from /\ pc' = [pc EXCEPT ![p] = to]

-----------------------------------------------------------------------------
\* SI_PLX_ReadPCI_NVWord: nothing to do for no words, else one ioctl.
ReadPCI_NVWord(p, o, n) ==
  /\ Go(p, "idle", "read")
  /\ n > 0 /\ o + n <= Words
  /\ offset' = [offset EXCEPT ![p] = o]
  /\ buffer' = [buffer EXCEPT ![p] = <<>>]
  /\ count' = [count EXCEPT ![p] = n]
  /\ start' = [start EXCEPT ![p] = o]
  /\ UNCHANGED <<wrote, data32, polls, chip, protect>>

\* SI_PLX_WritePCI_NVWord
WritePCI_NVWord(p, o, b) ==
  /\ Go(p, "idle", "save")
  /\ b # <<>> /\ o + Len(b) <= Words
  /\ offset' = [offset EXCEPT ![p] = o]
  /\ buffer' = [buffer EXCEPT ![p] = b]
  /\ count' = [count EXCEPT ![p] = Len(b)]
  /\ start' = [start EXCEPT ![p] = o]
  /\ wrote' = [wrote EXCEPT ![p] = b]
  /\ UNCHANGED <<data32, polls, chip, protect>>

\* 1. read the protection from its register
ReadProtect(p) ==
  /\ Go(p, "save", "off")
  /\ data32' = [data32 EXCEPT ![p] = protect]
  /\ UNCHANGED <<call, history, polls, chip, protect>>

\* 2. mask its bits
ProtectOff(p) ==
  /\ Go(p, "off", "write")
  /\ protect' = FALSE
  /\ UNCHANGED <<call, history, data32, polls, chip>>

MutantProtectOn(p) ==
  /\ Go(p, "on", "wrote")
  /\ UNCHANGED <<call, history, data32, polls, chip, protect>>

\* 4. put back what was read
ProtectOn(p) ==
  /\ Go(p, "on", "wrote")
  /\ protect' = data32[p]
  /\ UNCHANGED <<call, history, data32, polls, chip>>

-----------------------------------------------------------------------------
\* SIPLX_NVRamRead and SIPLX_NVRamWrite

\* A word's address with the direction's flag, given to the chip.
Command(p, flag) ==
  /\ vpd' = [vpd EXCEPT !.addr = offset[p], !.flag = flag]
  /\ busy' = TRUE

MutantGiveRead(p) ==
  /\ Go(p, "read", "pollRead")
  /\ count[p] >= 0
  /\ Command(p, PLX_VPD_READ)
  /\ polls' = [polls EXCEPT ![p] = 0]
  /\ UNCHANGED <<call, history, data32, rom, protect>>

GiveRead(p) ==
  /\ Go(p, "read", "pollRead")
  /\ count[p] > 0
  /\ Command(p, PLX_VPD_READ)
  /\ polls' = [polls EXCEPT ![p] = 0]
  /\ UNCHANGED <<call, history, data32, rom, protect>>

MutantGiveData(p) ==
  /\ Go(p, "write", "command")
  /\ count[p] > 0
  /\ UNCHANGED <<call, history, data32, polls, chip, protect>>

\* The data register, then the command.
GiveData(p) ==
  /\ Go(p, "write", "command")
  /\ count[p] > 0
  /\ vpd' = [vpd EXCEPT !.data = Head(buffer[p])]
  /\ UNCHANGED <<call, history, data32, polls, busy, rom, protect>>

GiveWrite(p) ==
  /\ Go(p, "command", "pollWrite")
  /\ Command(p, PLX_VPD_WRITE)
  /\ polls' = [polls EXCEPT ![p] = 0]
  /\ UNCHANGED <<call, history, data32, rom, protect>>

Unchanged(p, flag) == vpd.addr = offset[p] /\ vpd.flag = flag

\* The address register read back: done when it is not what was written to it,
\* and after so many polls the command is given again.
Poll(p, flag, at, again, done) ==
  /\ Go(p, at, IF ~ Unchanged(p, flag) THEN done
               ELSE IF polls[p] + 1 = Polls THEN again ELSE at)
  /\ polls' = [polls EXCEPT ![p] = (@ + 1) % Polls]
  /\ UNCHANGED <<call, history, data32, chip, protect>>

MutantPollRead(p) == Poll(p, PLX_VPD_READ, "pollRead", "read", "read")

PollRead(p) == Poll(p, PLX_VPD_READ, "pollRead", "read", "take")
PollWrite(p) == Poll(p, PLX_VPD_WRITE, "pollWrite", "write", "next")

TakeWord(p) ==
  /\ Go(p, "take", "read")
  /\ buffer' = [buffer EXCEPT ![p] = Append(@, vpd.data)]
  /\ offset' = [offset EXCEPT ![p] = @ + 1]
  /\ count' = [count EXCEPT ![p] = @ - 1]
  /\ UNCHANGED <<history, data32, polls, chip, protect>>

MutantNextWord(p) ==
  /\ Go(p, "next", "write")
  /\ buffer' = [buffer EXCEPT ![p] = Tail(@)]
  /\ count' = [count EXCEPT ![p] = @ - 1]
  /\ UNCHANGED <<offset, history, data32, polls, chip, protect>>

NextWord(p) ==
  /\ Go(p, "next", "write")
  /\ buffer' = [buffer EXCEPT ![p] = Tail(@)]
  /\ offset' = [offset EXCEPT ![p] = @ + 1]
  /\ count' = [count EXCEPT ![p] = @ - 1]
  /\ UNCHANGED <<history, data32, polls, chip, protect>>

EndRead(p) ==
  /\ Go(p, "read", "haveRead")
  /\ count[p] = 0
  /\ UNCHANGED <<call, history, data32, polls, chip, protect>>

EndWrite(p) ==
  /\ Go(p, "write", "on")
  /\ count[p] = 0
  /\ UNCHANGED <<call, history, data32, polls, chip, protect>>

Return(p) ==
  /\ pc[p] \in {"haveRead", "wrote"}
  /\ pc' = [pc EXCEPT ![p] = "idle"]
  /\ UNCHANGED <<call, history, data32, polls, chip, protect>>

-----------------------------------------------------------------------------
\* The chip carries a command out and turns the flag over; a write to a
\* protected EEPROM changes nothing.
Finish ==
  /\ busy
  /\ busy' = FALSE
  /\ IF vpd.flag = PLX_VPD_READ
     THEN /\ vpd' = [vpd EXCEPT !.flag = PLX_VPD_WRITE, !.data = rom[vpd.addr]]
          /\ UNCHANGED rom
     ELSE /\ vpd' = [vpd EXCEPT !.flag = PLX_VPD_READ]
          /\ rom' = IF protect THEN rom ELSE [rom EXCEPT ![vpd.addr] = vpd.data]
  /\ UNCHANGED <<pc, call, history, data32, polls, protect>>

SIPLX_NVRamRead(p) == GiveRead(p) \/ PollRead(p) \/ TakeWord(p) \/ EndRead(p)
SIPLX_NVRamWrite(p) ==
  GiveData(p) \/ GiveWrite(p) \/ PollWrite(p) \/ NextWord(p) \/ EndWrite(p)

Step(p) ==
  \/ ReadProtect(p) \/ ProtectOff(p) \/ ProtectOn(p)
  \/ SIPLX_NVRamRead(p) \/ SIPLX_NVRamWrite(p) \/ Return(p)

Next ==
  \/ \E p \in Processes :
       \/ \E o \in Addrs, n \in 1 .. MaxCount : ReadPCI_NVWord(p, o, n)
       \/ \E o \in Addrs, b \in Buffers : WritePCI_NVWord(p, o, b)
       \/ Step(p)
  \/ Finish

Spec == Init /\ [][Next]_vars

\* The chip answers while it is polled.
Answer == Finish /\ \E p \in Processes : pc[p] \in {"pollRead", "pollWrite"}

\* A process that has called runs on.  The chip keeps no step with the polls: it
\* does not for ever finish just after the last one, when the command that is
\* given again undoes its answer, which weak fairness would allow.
FairSpec == Spec /\ (\A p \in Processes : WF_vars(Step(p))) /\ SF_vars(Answer)

-----------------------------------------------------------------------------
\* Properties

TypeOK ==
  /\ pc \in [Processes -> {"idle", "read", "pollRead", "take", "haveRead", "save", "off",
                           "write", "command", "pollWrite", "next", "on", "wrote"}]
  /\ offset \in [Processes -> 0 .. Words]
  /\ buffer \in [Processes -> Seq(Values)]
  /\ count \in [Processes -> 0 .. MaxCount]
  /\ start \in [Processes -> Addrs]
  /\ wrote \in [Processes -> Seq(Values)]
  /\ data32 \in [Processes -> BOOLEAN]
  /\ polls \in [Processes -> 0 .. Polls - 1]
  /\ vpd \in [addr : Addrs, flag : BOOLEAN, data : Values]
  /\ busy \in BOOLEAN
  /\ rom \in [Addrs -> Values]
  /\ protect \in BOOLEAN

Holds(o, b) == \A k \in 1 .. Len(b) : rom[o + k - 1] = b[k]

\* A read that returns has the EEPROM's words, and a write that returns has put
\* its words there, whatever the chip took its time for.
CallsDoTheirWork ==
  \A p \in Processes :
    /\ pc[p] = "haveRead" => Holds(start[p], buffer[p])
    /\ pc[p] = "wrote" => Holds(start[p], wrote[p])

\* No step changes a word of the EEPROM other than one a process is writing now.
WritesItsWordsOnly ==
  [][\A a \in Addrs : rom'[a] # rom[a] =>
       \E p \in Processes :
         /\ pc[p] \in {"write", "command", "pollWrite"}
         /\ a = offset[p] /\ rom'[a] = Head(buffer[p])]_vars

\* "4. set serial EEPROM Write-Protect on": the EEPROM is protected whenever no
\* process is in the library's write.
WriteProtectOn ==
  (\A p \in Processes : pc[p] \in {"idle", "read", "pollRead", "take", "haveRead", "wrote"})
     => protect

\* A call returns, however often the chip makes it poll.
CallEnds == \A p \in Processes : (pc[p] # "idle") ~> (pc[p] = "idle")
=============================================================================
