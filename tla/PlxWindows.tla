----------------------------- MODULE PlxWindows -----------------------------
(***************************************************************************)
(* Programmed access to a card: SIPLX_PassthroughDo, SIPLX_OpregRead and   *)
(* -Write and SIPLX_ConfigRead (plx.c, plx0206.c), one word at a time and  *)
(* under no lock, and the library calls that lead to them, some of which   *)
(* make two ioctls (sicommon_plx_lnx.cpp, siabstract.cpp).  All processes  *)
(* share the board's block/point mode and the direction of its FIFO.       *)
(*                                                                         *)
(* What a word says is left out: a trace keeps the byte addresses that the *)
(* words of a call went to, in order.                                      *)
(***************************************************************************)
EXTENDS Integers, Sequences

CONSTANTS
  Processes,
  Calls,       \* the library calls they make
  FifoSelect,  \* 0x800000, the byte of space 0 that turns the FIFO
  Layouts      \* the sizes of the windows a card may have

\* Windows are numbered as the card's base addresses; the configuration space
\* has none.
Config == -1
PLX_OPREGS == 0
Spaces == 2 .. 4
Bars == Nat \cup {Config}

Functions ==
  {"SI_PLX_Target", "P9054_Block", "P9054_One", "P9030_Block", "P9030_One",
   "OpReg", "Mailbox", "ConfSpace", "AddonInitParams"}

\* The words each function moves, where that is not for the caller to say
Fixed == [ConfSpace |-> 4, AddonInitParams |-> 5, P9054_One |-> 1, P9030_One |-> 1]
DoubleWords == {"OpReg", "Mailbox", "ConfSpace", "AddonInitParams"}

Call ==
  {c \in [fn : Functions, space : Nat, width : {1, 2, 4}, count : Nat, offset : Nat,
          write : BOOLEAN] :
     /\ c.fn \in DOMAIN Fixed => c.count = Fixed[c.fn]
     /\ c.fn \in DoubleWords => c.width = 4}
Ioctl == [bar : Bars, width : {1, 2, 4}, count : Nat, offset : Nat, write : BOOLEAN,
          value : {"in", "out", "data"}]

ASSUME PlxWindowsAssumption ==
  /\ Calls \subseteq Call
  /\ FifoSelect \in Nat
  /\ Layouts \subseteq [{PLX_OPREGS} \cup Spaces -> Nat]

VARIABLES
  size,        \* pdx[].mem[].size, 0 where the card has no window
  blockPoint,  \* pdx[].driverConfig.blockPoint
  fifo,        \* which way the FIFO was turned last
  pc,          \* "idle", in the "library", in the "driver", or dead of an "oops"
  call,        \* the library call a process is in
  todo,        \* the ioctls it still makes, the one under way first
  addr,        \* the driver's plxBaseAddr or offset, from the window's start
  trace,       \* the addresses this ioctl's words went to
  error,       \* the call is going to report an error
  mixed,       \* the mode was set during this ioctl (history)
  disturbed    \* the FIFO's register was written, but by this call's own turn or to the
               \* same effect, since the call began or turned it (history)

process == <<pc, call, todo, addr, trace, error>>
vars == <<size, blockPoint, fifo, process, mixed, disturbed>>

-----------------------------------------------------------------------------
\* The library: which ioctls a call makes.

Words(bar, width, count, offset, write) ==
  IF count = 0
  THEN <<>>
  ELSE <<[bar |-> bar, width |-> width, count |-> count, offset |-> offset,
          write |-> write, value |-> "data"]>>

\* SI_PLX_ReadTarget and SI_PLX_WriteTarget, with 8, 16 and 32 bits
Target(space, width, count, offset, write) ==
  Words(space + 2, width, count, offset, write)

\* SI_PLX_ReadPCI_OpReg and SI_PLX_WritePCI_OpReg
OpReg(count, offset, write) == Words(PLX_OPREGS, 4, count, offset, write)

ConfSpace(offset) == Words(Config, 4, 4, offset, FALSE)

AddonInitParams(addonAddr) == Target(0, 4, 5, addonAddr, TRUE)

\* 0x11 before a write, 0x10 before a read
Turn(write) ==
  [bar |-> 2, width |-> 4, count |-> 1, offset |-> FifoSelect, write |-> TRUE,
   value |-> IF write THEN "out" ELSE "in"]

Turns(c) == c.fn = "P9054_Block" /\ c.offset < FifoSelect

MutantP9054_Block(c) ==
  Target(0, c.width, c.count, c.offset, c.write)
    \o (IF Turns(c) THEN <<Turn(c.write)>> ELSE <<>>)

\* P9054_ReadWriteBlock, P9054_ReadBlock and P9054_WriteBlock
P9054_Block(c) ==
  (IF Turns(c) THEN <<Turn(c.write)>> ELSE <<>>)
    \o Target(0, c.width, c.count, c.offset, c.write)

\* A byte or a word is read as a double word, of which the rest is dropped.
OneWidth(c) == IF c.write THEN c.width ELSE 4

P9054_One(c) == Target(0, OneWidth(c), 1, c.offset, c.write)

P9030_Region(space) == IF space = 0 THEN 0 ELSE 1

P9030_Block(c) == Target(P9030_Region(c.space), c.width, c.count, c.offset, c.write)

P9030_One(c) == Target(P9030_Region(c.space), OneWidth(c), 1, c.offset, c.write)

\* The registers of mailboxes 0 and 1 are not next to the others'.
PLX_MB == [n \in 0 .. 7 |-> IF n < 2 THEN 30 + n ELSE 16 + n]

MutantMailboxOK(n, count) ==
  n <= 7 /\ PLX_MB[n] + count <= (IF n < 2 THEN PLX_MB[1] ELSE PLX_MB[7]) + 2

MailboxOK(n, count) ==
  n <= 7 /\ PLX_MB[n] + count <= (IF n < 2 THEN PLX_MB[1] ELSE PLX_MB[7]) + 1

Refused(c) == c.fn = "Mailbox" /\ c.count > 0 /\ ~ MailboxOK(c.offset, c.count)

Mailbox(c) ==
  IF Refused(c) \/ c.count = 0 THEN <<>> ELSE OpReg(c.count, 4 * PLX_MB[c.offset], c.write)

-----------------------------------------------------------------------------
NoCall == [fn |-> "OpReg", space |-> 0, width |-> 4, count |-> 0, offset |-> 0,
           write |-> FALSE]

Init ==
  /\ size \in Layouts
  /\ blockPoint = "block"
  /\ fifo = "in"
  /\ pc = [p \in Processes |-> "idle"]
  /\ call = [p \in Processes |-> NoCall]
  /\ todo = [p \in Processes |-> <<>>]
  /\ addr = [p \in Processes |-> 0]
  /\ trace = [p \in Processes |-> <<>>]
  /\ error = [p \in Processes |-> FALSE]
  /\ mixed = [p \in Processes |-> FALSE]
  /\ disturbed = [p \in Processes |-> FALSE]

\* A process enters a library function, which is going to make some ioctls.
Enter(p, c, ioctls) ==
  /\ pc[p] = "idle"
  /\ pc' = [pc EXCEPT ![p] = "library"]
  /\ call' = [call EXCEPT ![p] = c]
  /\ todo' = [todo EXCEPT ![p] = ioctls]
  /\ error' = [error EXCEPT ![p] = Refused(c)]
  /\ UNCHANGED <<size, blockPoint, fifo, addr, trace, mixed, disturbed>>

Library(p, c) ==
  \/ /\ c.fn = "SI_PLX_Target"
     /\ Enter(p, c, Target(c.space, c.width, c.count, c.offset, c.write))
  \/ c.fn = "P9054_Block" /\ Enter(p, c, P9054_Block(c))
  \/ c.fn = "P9054_One" /\ Enter(p, c, P9054_One(c))
  \/ c.fn = "P9030_Block" /\ Enter(p, c, P9030_Block(c))
  \/ c.fn = "P9030_One" /\ Enter(p, c, P9030_One(c))
  \/ c.fn = "OpReg" /\ Enter(p, c, OpReg(c.count, c.offset, c.write))
  \/ c.fn = "Mailbox" /\ Enter(p, c, Mailbox(c))
  \/ c.fn = "ConfSpace" /\ Enter(p, c, ConfSpace(c.offset))
  \/ c.fn = "AddonInitParams" /\ Enter(p, c, AddonInitParams(c.offset))

Leave(p) ==
  /\ pc[p] = "library" /\ todo[p] = <<>>
  /\ pc' = [pc EXCEPT ![p] = "idle"]
  /\ call' = [call EXCEPT ![p] = NoCall]
  /\ addr' = [addr EXCEPT ![p] = 0]
  /\ trace' = [trace EXCEPT ![p] = <<>>]
  /\ error' = [error EXCEPT ![p] = FALSE]
  /\ mixed' = [mixed EXCEPT ![p] = FALSE]
  /\ disturbed' = [disturbed EXCEPT ![p] = FALSE]
  /\ UNCHANGED <<size, blockPoint, fifo, todo>>

-----------------------------------------------------------------------------
\* The driver

Passthrough(io) == io.bar \notin {PLX_OPREGS, Config}

\* The check is of the offset alone, and lets it equal the size.
Invalid(io) ==
  Passthrough(io) /\ ~ (io.bar \in Spaces /\ io.offset <= size[io.bar])

\* An ioctl that is refused.  Of the one that turns the FIFO the library does
\* not look at the result.
Refuse(p) ==
  /\ pc[p] = "library" /\ todo[p] # <<>>
  /\ Invalid(Head(todo[p]))
  /\ todo' = [todo EXCEPT ![p] = Tail(@)]
  /\ error' = [error EXCEPT ![p] = Head(todo[p]).value = "data"]
  /\ UNCHANGED <<size, blockPoint, fifo, pc, call, addr, trace, mixed, disturbed>>

Start(p) ==
  /\ pc[p] = "library" /\ todo[p] # <<>>
  /\ ~ Invalid(Head(todo[p]))
  /\ pc' = [pc EXCEPT ![p] = "driver"]
  /\ addr' = [addr EXCEPT ![p] = Head(todo[p]).offset]
  /\ trace' = [trace EXCEPT ![p] = <<>>]
  /\ mixed' = [mixed EXCEPT ![p] = FALSE]
  /\ UNCHANGED <<size, blockPoint, fifo, call, todo, error, disturbed>>

MutantNext_addr(p, io) ==
  IF Passthrough(io) /\ blockPoint = "point"
  THEN io.offset
  ELSE io.offset + (Len(trace[p]) + 1) * io.width

\* The registers are always stepped through, a space in block mode only.
Next_addr(p, io) ==
  IF Passthrough(io) /\ blockPoint = "point" THEN addr[p] ELSE addr[p] + io.width

\* The way the FIFO has to be turned for a call
Way(c) == IF c.write THEN "out" ELSE "in"

\* What another process writes to the FIFO's register is not what q's call needs.
Disturbs(io, q) == pc[q] # "idle" /\ io.value # Way(call[q])

\* One iteration: a word goes to or comes from addr.
Access(p) ==
  LET io == Head(todo[p])
      turn == io.write /\ io.bar = 2 /\ addr[p] = FifoSelect
  IN /\ pc[p] = "driver" /\ Len(trace[p]) < io.count
     /\ io.bar # Config => size[io.bar] > 0
     /\ trace' = [trace EXCEPT ![p] = Append(@, addr[p])]
     /\ addr' = [addr EXCEPT ![p] = Next_addr(p, io)]
     /\ fifo' = IF turn THEN io.value ELSE fifo
     /\ disturbed' = IF turn
                     THEN [q \in Processes |->
                             IF q = p THEN io.value = "data" ELSE disturbed[q] \/ Disturbs(io, q)]
                     ELSE disturbed
     /\ UNCHANGED <<size, blockPoint, pc, call, todo, error, mixed>>

\* Past the end of a window there may be nothing; a window the card does not
\* have begins at address 0.
Oops(p) ==
  LET io == Head(todo[p])
  IN /\ pc[p] = "driver" /\ Len(trace[p]) < io.count
     /\ io.bar # Config
     /\ size[io.bar] < addr[p] + io.width
     /\ pc' = [pc EXCEPT ![p] = "oops"]
     /\ UNCHANGED <<size, blockPoint, fifo, call, todo, addr, trace, error, mixed, disturbed>>

Finish(p) ==
  /\ pc[p] = "driver" /\ Len(trace[p]) = Head(todo[p]).count
  /\ pc' = [pc EXCEPT ![p] = "library"]
  /\ todo' = [todo EXCEPT ![p] = Tail(@)]
  /\ trace' = [trace EXCEPT ![p] = IF Head(todo[p]).value = "data" THEN @ ELSE <<>>]
  /\ UNCHANGED <<size, blockPoint, fifo, call, addr, error, mixed, disturbed>>

\* SI_PLX_DriverConfig_BlockPoint: the mode is the board's, not the caller's.
DriverConfig(p, mode) ==
  /\ pc[p] = "idle" /\ blockPoint # mode
  /\ blockPoint' = mode
  /\ mixed' = [q \in Processes |-> mixed[q] \/ pc[q] # "idle"]
  /\ UNCHANGED <<size, fifo, process, disturbed>>

Next ==
  \E p \in Processes :
    \/ \E c \in Calls : Library(p, c)
    \/ Refuse(p) \/ Start(p) \/ Access(p) \/ Oops(p) \/ Finish(p) \/ Leave(p)
    \/ \E mode \in {"block", "point"} : DriverConfig(p, mode)

Spec == Init /\ [][Next]_vars

-----------------------------------------------------------------------------
\* Properties

TypeOK ==
  /\ size \in Layouts
  /\ blockPoint \in {"block", "point"}
  /\ fifo \in {"in", "out", "data"}
  /\ pc \in [Processes -> {"idle", "library", "driver", "oops"}]
  /\ call \in [Processes -> Call]
  /\ todo \in [Processes -> Seq(Ioctl)]
  /\ addr \in [Processes -> Nat]
  /\ trace \in [Processes -> Seq(Nat)]
  /\ error \in [Processes -> BOOLEAN]
  /\ mixed \in [Processes -> BOOLEAN]
  /\ disturbed \in [Processes -> BOOLEAN]
  /\ \A p \in Processes : pc[p] = "driver" => todo[p] # <<>>

Moving(p) == pc[p] = "driver"

\* Whatever other processes do to the mode while a call is under way, its words
\* go forward from the offset asked for, one width at most at a time: no word is
\* skipped and none comes before one already moved.
WordsInOrder ==
  \A p \in Processes : Moving(p) /\ trace[p] # <<>> =>
    /\ Len(trace[p]) <= Head(todo[p]).count
    /\ trace[p][1] = Head(todo[p]).offset
    /\ \A i \in 2 .. Len(trace[p]) :
         trace[p][i] - trace[p][i - 1] \in {0, Head(todo[p]).width}

\* The words a call asks for in a mode, were it alone: as many as it says, at addresses of
\* their own in block mode and at one address in point mode; of the mailboxes,
\* those from the number on.
Asked(c, mode) ==
  LET steps == mode = "block" \/ c.fn \in {"OpReg", "Mailbox", "ConfSpace"}
  IN [i \in 1 .. c.count |->
        IF c.fn = "Mailbox" THEN 4 * PLX_MB[c.offset + i - 1]
        ELSE c.offset + (IF steps THEN (i - 1) * c.width ELSE 0)]

\* A call that ends without an error and during which nobody set the mode has
\* moved the words it was asked for, no more and no fewer.
DoesItsWork ==
  \A p \in Processes :
    pc[p] = "library" /\ todo[p] = <<>> /\ ~ error[p] /\ ~ mixed[p]
      => trace[p] = Asked(call[p], blockPoint)

\* On a card whose space 0 reaches the FIFO's register, the words of a block that
\* begins below it pass a FIFO turned their way, unless the block itself has run
\* over the register or another call turned the FIFO the other way meanwhile: the
\* library turns it, that ioctl is not refused, and it is over before the block's
\* first word.
FifoTurnedItsWay ==
  \A p \in Processes :
    /\ Moving(p) /\ Head(todo[p]).value = "data"
    /\ Turns(call[p]) /\ FifoSelect <= size[2] /\ ~ disturbed[p]
    => fifo = Way(call[p])
=============================================================================
