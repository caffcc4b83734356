-------------------------- MODULE PlxWindows_proofs --------------------------
(***************************************************************************)
(* Proofs about PlxWindows: for any processes, calls and cards, words go   *)
(* forward, a call that reports success has moved the words it was asked   *)
(* for, and a block passes a FIFO turned its way.                          *)
(***************************************************************************)
EXTENDS PlxWindows, SequenceTheorems, TLAPS

Modes == {"block", "point"}

\* How far the driver steps after each word.
Step(io, mode) == IF Passthrough(io) /\ mode = "point" THEN 0 ELSE io.width

\* The words that the loop of an ioctl goes to when nobody changes the mode
Run(io, mode, n) == [i \in 1 .. n |-> io.offset + (i - 1) * Step(io, mode)]

\* The ioctl moves the words the call asks for.
Moves(c, io) ==
  /\ io \in Ioctl /\ io.value = "data"
  /\ \A mode \in Modes : Asked(c, mode) = Run(io, mode, io.count)

AsksNothing(c) == \A mode \in Modes : Asked(c, mode) = <<>>

\* What a call has yet to do: turn the FIFO, if it is one of those, and move its
\* words.
Plan(c, s) ==
  \/ s = <<>>
  \/ \E io : Moves(c, io) /\ s = <<io>>
  \/ Turns(c) /\ AsksNothing(c) /\ s = <<Turn(c.write)>>
  \/ Turns(c) /\ \E io : Moves(c, io) /\ s = <<Turn(c.write), io>>

-----------------------------------------------------------------------------
\* The inductive invariant

\* Of a trace t and the address a that the next word goes to:
InOrder(t, a, io) ==
  /\ Len(t) <= io.count
  /\ t = <<>> => a = io.offset
  /\ t # <<>> =>
       /\ t[1] = io.offset
       /\ a - t[Len(t)] \in {0, io.width}
       /\ \A i \in 2 .. Len(t) : t[i] - t[i - 1] \in {0, io.width}

OnCourse(t, a, io, mode) ==
  t = Run(io, mode, Len(t)) /\ a = io.offset + Len(t) * Step(io, mode)

AtRest(p) ==
  pc[p] = "idle" => todo[p] = <<>> /\ trace[p] = <<>> /\ ~ disturbed[p]

InLibrary(p) ==
  pc[p] = "library" =>
    /\ todo[p] # <<>> => trace[p] = <<>>
    /\ todo[p] = <<>> /\ ~ error[p] /\ ~ mixed[p] => trace[p] = Asked(call[p], blockPoint)

InDriver(p) ==
  pc[p] = "driver" =>
    /\ todo[p] # <<>>
    /\ InOrder(trace[p], addr[p], Head(todo[p]))
    /\ ~ mixed[p] => OnCourse(trace[p], addr[p], Head(todo[p]), blockPoint)

\* A block that the FIFO has to be turned for, and whose turn nobody has undone
WantsFifo(p) ==
  /\ pc[p] \in {"library", "driver"} /\ todo[p] # <<>>
  /\ Turns(call[p]) /\ FifoSelect <= size[2] /\ ~ disturbed[p]

\* Its words are next, or the word that turns the FIFO has gone.
HasTurned(p) ==
  Head(todo[p]).value = "data" \/ (pc[p] = "driver" /\ trace[p] # <<>>)

FifoOK(p) == WantsFifo(p) /\ HasTurned(p) => fifo = Way(call[p])

ProcessOK(p) ==
  Plan(call[p], todo[p]) /\ AtRest(p) /\ InLibrary(p) /\ InDriver(p) /\ FifoOK(p)

WindowsInv == TypeOK /\ \A p \in Processes : ProcessOK(p)

-----------------------------------------------------------------------------
\* The library's functions

LEMMA TargetMoves ==
  ASSUME NEW c \in Call, NEW space \in Nat, NEW width \in {1, 2, 4}, NEW write \in BOOLEAN,
         c.fn \notin {"OpReg", "Mailbox", "ConfSpace"},
         c.count = 1 \/ width = c.width, c.count # 0
  PROVE  \E io : Moves(c, io) /\ Target(space, width, c.count, c.offset, write) = <<io>>
<1> DEFINE io == [bar |-> space + 2, width |-> width, count |-> c.count,
                  offset |-> c.offset, write |-> write, value |-> "data"]
<1>1. Target(space, width, c.count, c.offset, write) = <<io>>
  BY DEF Target, Words
<1>2. io \in Ioctl
  BY DEF Ioctl, Bars, Call
<1>3. Passthrough(io)
  BY DEF Passthrough, PLX_OPREGS, Config
<1>4. ASSUME NEW mode \in Modes
      PROVE  Asked(c, mode) = Run(io, mode, c.count)
  BY <1>3 DEF Asked, Run, Step, Call, Modes
<1> QED
  BY <1>1, <1>2, <1>4 DEF Moves

LEMMA RegistersMove ==
  ASSUME NEW c \in Call, NEW bar \in {PLX_OPREGS, Config}, NEW offset \in Nat,
         NEW write \in BOOLEAN,
         c.fn \in {"OpReg", "Mailbox", "ConfSpace"}, c.count # 0,
         IF c.fn = "Mailbox"
         THEN \A i \in 1 .. c.count : 4 * PLX_MB[c.offset + i - 1] = offset + (i - 1) * 4
         ELSE offset = c.offset
  PROVE  \E io : Moves(c, io) /\ Words(bar, 4, c.count, offset, write) = <<io>>
<1> DEFINE io == [bar |-> bar, width |-> 4, count |-> c.count, offset |-> offset,
                  write |-> write, value |-> "data"]
<1>1. Words(bar, 4, c.count, offset, write) = <<io>>
  BY DEF Words
<1>2. io \in Ioctl
  BY DEF Ioctl, Bars, Call, PLX_OPREGS, Config
<1>3. ~ Passthrough(io)
  BY DEF Passthrough
<1>4. ASSUME NEW mode \in Modes
      PROVE  Asked(c, mode) = Run(io, mode, c.count)
  BY <1>3 DEF Asked, Run, Step, Call, Modes, DoubleWords
<1> QED
  BY <1>1, <1>2, <1>4 DEF Moves

\* Of a request that is let through, the mailboxes are next to one another.
LEMMA MailboxesInARow ==
  ASSUME NEW n \in Nat, NEW count \in Nat, count # 0, MailboxOK(n, count)
  PROVE  /\ PLX_MB[n] \in Nat
         /\ \A i \in 1 .. count : 4 * PLX_MB[n + i - 1] = 4 * PLX_MB[n] + (i - 1) * 4
<1>1. n \in 0 .. 7 /\ PLX_MB[1] = 31 /\ PLX_MB[7] = 23
  BY DEF MailboxOK, PLX_MB
<1>2. CASE n < 2
  <2>1. n + count <= 2
    BY <1>1, <1>2 DEF MailboxOK, PLX_MB
  <2> QED
    BY <1>1, <1>2, <2>1 DEF PLX_MB
<1>3. CASE n >= 2
  <2>1. n + count <= 8
    BY <1>1, <1>3 DEF MailboxOK, PLX_MB
  <2> QED
    BY <1>1, <1>3, <2>1 DEF PLX_MB
<1> QED
  BY <1>2, <1>3

LEMMA TurnIsIoctl ==
  ASSUME NEW write \in BOOLEAN
  PROVE  Turn(write) \in Ioctl /\ Turn(write).value # "data"
  BY PlxWindowsAssumption DEF Turn, Ioctl, Bars

LEMMA HeadOfOne ==
  ASSUME NEW S, NEW a \in S
  PROVE  /\ <<a>> \in Seq(S) /\ <<a>> # <<>>
         /\ Head(<<a>>) = a /\ Tail(<<a>>) = <<>>
  OBVIOUS

LEMMA HeadOfTwo ==
  ASSUME NEW S, NEW a \in S, NEW b \in S
  PROVE  /\ <<a, b>> \in Seq(S) /\ <<a, b>> # <<>>
         /\ Head(<<a, b>>) = a /\ Tail(<<a, b>>) = <<b>>
  OBVIOUS

\* What the ioctls of a call that is not refused are
Does(c, ioctls) ==
  /\ Plan(c, ioctls)
  /\ ioctls = <<>> => AsksNothing(c) \/ Refused(c)
  /\ Turns(c) => ioctls # <<>> /\ Head(ioctls) = Turn(c.write)

LEMMA AsksNoWords ==
  ASSUME NEW c \in Call, c.count = 0
  PROVE  AsksNothing(c)
  BY DEF AsksNothing, Asked, Call

\* An ioctl that moves words is not the one that turns the FIFO.
LEMMA OneDoes ==
  ASSUME NEW c, NEW ioctls, \E io : Moves(c, io) /\ ioctls = <<io>>, ~ Turns(c)
  PROVE  Does(c, ioctls)
  BY DEF Does, Plan

LEMMA TargetDoes ==
  ASSUME NEW c \in Call, NEW space \in Nat, NEW width \in {1, 2, 4}, NEW write \in BOOLEAN,
         c.fn \notin {"OpReg", "Mailbox", "ConfSpace"}, ~ Turns(c),
         c.count = 1 \/ width = c.width
  PROVE  Does(c, Target(space, width, c.count, c.offset, write))
<1>1. CASE c.count = 0
  BY <1>1, AsksNoWords DEF Does, Plan, Target, Words
<1>2. CASE c.count # 0
  BY <1>2, TargetMoves, OneDoes
<1> QED
  BY <1>1, <1>2

LEMMA TwoInARow ==
  ASSUME NEW a, NEW b
  PROVE  <<a>> \o <<b>> = <<a, b>>
<1> DEFINE S == {a, b}
<1>1. /\ <<a>> \in Seq(S) /\ <<b>> \in Seq(S) /\ <<a, b>> \in Seq(S)
      /\ Len(<<a>>) = 1 /\ Len(<<b>>) = 1 /\ Len(<<a, b>>) = 2
  OBVIOUS
<1> HIDE DEF S
<1>2. <<a>> \o <<b>> \in Seq(S) /\ Len(<<a>> \o <<b>>) = 2
  BY <1>1, ConcatProperties
<1>3. (<<a>> \o <<b>>)[1] = a /\ (<<a>> \o <<b>>)[2] = b
  BY <1>1, ConcatProperties
<1>4. \A i \in 1 .. 2 : (<<a>> \o <<b>>)[i] = <<a, b>>[i]
  BY <1>3
<1> QED
  BY <1>1, <1>2, <1>4, SeqEqual

LEMMA BlockDoes ==
  ASSUME NEW c \in Call, c.fn = "P9054_Block"
  PROVE  Does(c, P9054_Block(c))
<1> DEFINE words == Target(0, c.width, c.count, c.offset, c.write)
<1>4. Turn(c.write) \in Ioctl
  BY TurnIsIoctl DEF Call
<1>1. CASE ~ Turns(c)
  <2>1. Does(c, words)
    BY <1>1, TargetDoes DEF Call
  <2>2. P9054_Block(c) = words
    BY <1>1 DEF P9054_Block, Target, Words
  <2> QED
    BY <2>1, <2>2
<1>2. CASE Turns(c) /\ c.count = 0
  <2>1. P9054_Block(c) = <<Turn(c.write)>>
    BY <1>2 DEF P9054_Block, Target, Words
  <2>2. <<Turn(c.write)>> # <<>> /\ Head(<<Turn(c.write)>>) = Turn(c.write)
    BY <1>4, HeadOfOne
  <2> QED
    BY <1>2, <2>1, <2>2, AsksNoWords DEF Does, Plan
<1>3. CASE Turns(c) /\ c.count # 0
  <2>1. PICK io : Moves(c, io) /\ words = <<io>>
    BY <1>3, TargetMoves DEF Call
  <2>2. P9054_Block(c) = <<Turn(c.write)>> \o <<io>>
    BY <1>3, <2>1 DEF P9054_Block
  <2>3. P9054_Block(c) = <<Turn(c.write), io>>
    BY <2>2, TwoInARow
  <2>4. /\ <<Turn(c.write), io>> # <<>>
        /\ Head(<<Turn(c.write), io>>) = Turn(c.write)
    BY <1>4, <2>1, HeadOfTwo DEF Moves
  <2> QED
    BY <1>3, <2>1, <2>3, <2>4 DEF Does, Plan
<1> QED
  BY <1>1, <1>2, <1>3

LEMMA RegistersDo ==
  ASSUME NEW c \in Call
  PROVE  /\ c.fn = "OpReg" => Does(c, OpReg(c.count, c.offset, c.write))
         /\ c.fn = "ConfSpace" => Does(c, ConfSpace(c.offset))
         /\ c.fn = "Mailbox" => Does(c, Mailbox(c))
<1>1. CASE c.count = 0
  BY <1>1, AsksNoWords DEF Does, Plan, Turns, OpReg, Mailbox, Words, Call, Fixed
<1>2. ASSUME c.count # 0, c.fn = "OpReg"
      PROVE  Does(c, OpReg(c.count, c.offset, c.write))
  BY <1>2, RegistersMove, OneDoes DEF OpReg, Call, Turns
<1>3. ASSUME c.count # 0, c.fn = "ConfSpace"
      PROVE  Does(c, ConfSpace(c.offset))
  <2>1. c.count = 4
    BY <1>3 DEF Call, Fixed
  <2>2. ConfSpace(c.offset) = Words(Config, 4, c.count, c.offset, FALSE)
    BY <2>1 DEF ConfSpace
  <2>3. \E io : Moves(c, io) /\ Words(Config, 4, c.count, c.offset, FALSE) = <<io>>
    BY <1>3, RegistersMove DEF Call
  <2> QED
    BY <1>3, <2>2, <2>3, OneDoes DEF Turns
<1>4. ASSUME c.count # 0, c.fn = "Mailbox"
      PROVE  Does(c, Mailbox(c))
  <2>1. CASE Refused(c)
    BY <1>4, <2>1 DEF Mailbox, Does, Plan, Turns
  <2>2. CASE ~ Refused(c)
    <3>1. MailboxOK(c.offset, c.count)
      BY <1>4, <2>2 DEF Refused, Call
    <3>2. /\ 4 * PLX_MB[c.offset] \in Nat
          /\ \A i \in 1 .. c.count :
               4 * PLX_MB[c.offset + i - 1] = 4 * PLX_MB[c.offset] + (i - 1) * 4
      BY <1>4, <3>1, MailboxesInARow DEF Call
    <3>3. Mailbox(c) = Words(PLX_OPREGS, 4, c.count, 4 * PLX_MB[c.offset], c.write)
      BY <1>4, <2>2 DEF Mailbox, OpReg
    <3> QED
      BY <1>4, <3>2, <3>3, RegistersMove, OneDoes DEF Call, Turns
  <2> QED
    BY <2>1, <2>2
<1> QED
  BY <1>1, <1>2, <1>3, <1>4

\* Whatever function a process enters, the ioctls are a plan for its call.
LEMMA LibraryEnters ==
  ASSUME TypeOK, NEW p \in Processes, NEW c \in Calls, Library(p, c)
  PROVE  /\ c \in Call
         /\ \E ioctls : Does(c, ioctls) /\ Enter(p, c, ioctls)
<1>1. c \in Call
  BY PlxWindowsAssumption
<1>2. CASE c.fn = "SI_PLX_Target" /\ Enter(p, c, Target(c.space, c.width, c.count, c.offset, c.write))
  BY <1>1, <1>2, TargetDoes DEF Call, Turns
<1>3. CASE c.fn = "P9054_Block" /\ Enter(p, c, P9054_Block(c))
  BY <1>1, <1>3, BlockDoes
<1>4. CASE c.fn = "P9054_One" /\ Enter(p, c, P9054_One(c))
  <2>1. c.count = 1 /\ OneWidth(c) \in {1, 2, 4}
    BY <1>1, <1>4 DEF Call, Fixed, OneWidth
  <2> QED
    BY <1>1, <1>4, <2>1, TargetDoes DEF Call, Turns, P9054_One
<1>5. CASE c.fn = "P9030_Block" /\ Enter(p, c, P9030_Block(c))
  <2>1. P9030_Region(c.space) \in Nat
    BY DEF P9030_Region
  <2> QED
    BY <1>1, <1>5, <2>1, TargetDoes DEF Call, Turns, P9030_Block
<1>6. CASE c.fn = "P9030_One" /\ Enter(p, c, P9030_One(c))
  <2>1. c.count = 1 /\ OneWidth(c) \in {1, 2, 4} /\ P9030_Region(c.space) \in Nat
    BY <1>1, <1>6 DEF Call, Fixed, OneWidth, P9030_Region
  <2> QED
    BY <1>1, <1>6, <2>1, TargetDoes DEF Call, Turns, P9030_One
<1>7. CASE c.fn = "OpReg" /\ Enter(p, c, OpReg(c.count, c.offset, c.write))
  BY <1>1, <1>7, RegistersDo
<1>8. CASE c.fn = "Mailbox" /\ Enter(p, c, Mailbox(c))
  BY <1>1, <1>8, RegistersDo
<1>9. CASE c.fn = "ConfSpace" /\ Enter(p, c, ConfSpace(c.offset))
  BY <1>1, <1>9, RegistersDo
<1>10. CASE c.fn = "AddonInitParams" /\ Enter(p, c, AddonInitParams(c.offset))
  <2>1. c.count = 5 /\ c.width = 4
    BY <1>1, <1>10 DEF Call, Fixed, DoubleWords
  <2> QED
    BY <1>1, <1>10, <2>1, TargetDoes DEF AddonInitParams, Turns
<1> QED
  BY <1>1, <1>2, <1>3, <1>4, <1>5, <1>6, <1>7, <1>8, <1>9, <1>10 DEF Library

-----------------------------------------------------------------------------
\* Plans

\* The first ioctl of a plan turns the FIFO, or moves the words and is the last.
LEMMA PlanHead ==
  ASSUME NEW c \in Call, NEW s, Plan(c, s), s # <<>>
  PROVE  /\ Head(s) \in Ioctl /\ Tail(s) \in Seq(Ioctl)
         /\ Plan(c, Tail(s))
         /\ \/ Moves(c, Head(s)) /\ Tail(s) = <<>>
            \/ /\ Turns(c) /\ Head(s) = Turn(c.write)
               /\ Tail(s) = <<>> => AsksNothing(c)
<1>1. ASSUME NEW io, Moves(c, io), s = <<io>>
      PROVE  Head(s) = io /\ Tail(s) = <<>> /\ io \in Ioctl
  BY <1>1, HeadOfOne DEF Moves
<1>2. ASSUME s = <<Turn(c.write)>>
      PROVE  Head(s) = Turn(c.write) /\ Tail(s) = <<>>
  BY <1>2, HeadOfOne
<1>3. ASSUME NEW io, Moves(c, io), s = <<Turn(c.write), io>>
      PROVE  /\ Head(s) = Turn(c.write) /\ Tail(s) = <<io>>
             /\ <<io>> \in Seq(Ioctl) /\ <<io>> # <<>>
  <2>1. io \in Ioctl /\ Turn(c.write) \in Ioctl
    BY <1>3, TurnIsIoctl DEF Moves, Call
  <2> QED
    BY <1>3, <2>1, HeadOfOne, HeadOfTwo
<1>4. <<>> \in Seq(Ioctl) /\ Turn(c.write) \in Ioctl
  BY TurnIsIoctl DEF Call
<1>5. CASE \E io : Moves(c, io) /\ s = <<io>>
  BY <1>1, <1>4, <1>5 DEF Plan
<1>6. CASE Turns(c) /\ AsksNothing(c) /\ s = <<Turn(c.write)>>
  BY <1>2, <1>4, <1>6 DEF Plan
<1>7. CASE Turns(c) /\ \E io : Moves(c, io) /\ s = <<Turn(c.write), io>>
  BY <1>3, <1>4, <1>7 DEF Plan
<1> QED
  BY <1>5, <1>6, <1>7 DEF Plan

LEMMA PlanType ==
  ASSUME NEW c \in Call, NEW s, Plan(c, s)
  PROVE  s \in Seq(Ioctl)
<1>1. Turn(c.write) \in Ioctl /\ \A io : Moves(c, io) => io \in Ioctl
  BY TurnIsIoctl DEF Call, Moves
<1>2. <<>> \in Seq(Ioctl)
  OBVIOUS
<1> QED
  BY <1>1, <1>2, HeadOfOne, HeadOfTwo DEF Plan

-----------------------------------------------------------------------------
\* The steps

LEMMA WindowsInit == Init => WindowsInv
<1> SUFFICES ASSUME Init PROVE WindowsInv
  OBVIOUS
<1>1. NoCall \in Call
  BY DEF NoCall, Call, Functions, Fixed, DoubleWords
<1>2. TypeOK
  BY <1>1 DEF Init, TypeOK
<1>3. ASSUME NEW p \in Processes PROVE ProcessOK(p)
  BY DEF Init, ProcessOK, Plan, AtRest, InLibrary, InDriver, FifoOK, WantsFifo
<1> QED
  BY <1>2, <1>3 DEF WindowsInv

\* A process that a step leaves alone is as it was.
LEMMA Bystander ==
  ASSUME NEW q \in Processes, ProcessOK(q), blockPoint' = blockPoint,
         pc'[q] = pc[q], call'[q] = call[q], todo'[q] = todo[q], addr'[q] = addr[q],
         trace'[q] = trace[q], error'[q] = error[q], mixed'[q] = mixed[q],
         size' = size, pc[q] = "idle" /\ ~ disturbed[q] => ~ disturbed'[q],
         ~ disturbed'[q] => /\ ~ disturbed[q]
                            /\ fifo' = fifo \/ pc[q] = "idle" \/ fifo' = Way(call[q])
  PROVE  ProcessOK(q)'
<1>1. Plan(call[q], todo[q])'
  BY DEF ProcessOK
<1>2. AtRest(q)'
  BY DEF ProcessOK, AtRest
<1>3. InLibrary(q)'
  BY DEF ProcessOK, InLibrary
<1>4. InDriver(q)'
  BY DEF ProcessOK, InDriver, InOrder, OnCourse
<1>5. FifoOK(q)'
  <2>1. SUFFICES ASSUME WantsFifo(q)', HasTurned(q)'
                 PROVE  (fifo = Way(call[q]))'
    BY DEF FifoOK
  <2>2. WantsFifo(q) /\ HasTurned(q)
    BY <2>1 DEF WantsFifo, HasTurned, Turns
  <2>3. fifo = Way(call[q])
    BY <2>2 DEF ProcessOK, FifoOK
  <2>4. fifo' = fifo \/ fifo' = Way(call[q])
    BY <2>1 DEF WantsFifo
  <2> QED
    BY <2>3, <2>4 DEF Way
<1> QED
  BY <1>1, <1>2, <1>3, <1>4, <1>5 DEF ProcessOK

LEMMA EnterStep ==
  ASSUME WindowsInv, NEW p \in Processes, NEW c \in Calls, Library(p, c)
  PROVE  WindowsInv'
<1>1. c \in Call
  BY LibraryEnters DEF WindowsInv
<1>2. PICK ioctls : Does(c, ioctls) /\ Enter(p, c, ioctls)
  BY LibraryEnters DEF WindowsInv
<1>3. ioctls \in Seq(Ioctl)
  BY <1>1, <1>2, PlanType DEF Does
<1>4. TypeOK'
  <2>1. Refused(c) \in BOOLEAN
    BY DEF Refused
  <2> QED
    BY <1>1, <1>2, <1>3, <2>1 DEF WindowsInv, TypeOK, Enter
<1>5. ASSUME NEW q \in Processes, q # p PROVE ProcessOK(q)'
  BY <1>2, <1>5, Bystander DEF WindowsInv, TypeOK, Enter
<1>6. ProcessOK(p)'
  <2>1. /\ pc'[p] = "library" /\ call'[p] = c /\ todo'[p] = ioctls /\ trace'[p] = <<>>
        /\ error'[p] = Refused(c) /\ ~ disturbed'[p] /\ blockPoint' \in Modes
    BY <1>2 DEF WindowsInv, TypeOK, Enter, ProcessOK, AtRest, Modes
  <2>2. Plan(call[p], todo[p])'
    BY <1>2, <2>1 DEF Does
  <2>3. InLibrary(p)'
    BY <1>2, <2>1 DEF InLibrary, Does, AsksNothing
  <2>4. FifoOK(p)'
    <3>1. Turns(c) => ~ (Head(ioctls).value = "data")
      BY <1>1, <1>2, TurnIsIoctl DEF Does, Call
    <3> QED
      BY <2>1, <3>1 DEF FifoOK, WantsFifo, HasTurned, Turns
  <2> QED
    BY <2>1, <2>2, <2>3, <2>4 DEF ProcessOK, AtRest, InDriver
<1> QED
  BY <1>4, <1>5, <1>6 DEF WindowsInv

LEMMA LeaveStep ==
  ASSUME WindowsInv, NEW p \in Processes, Leave(p)
  PROVE  WindowsInv'
<1>1. NoCall \in Call
  BY DEF NoCall, Call, Functions, Fixed, DoubleWords
<1>2. TypeOK'
  BY <1>1 DEF WindowsInv, TypeOK, Leave
<1>3. ASSUME NEW q \in Processes, q # p PROVE ProcessOK(q)'
  BY <1>3, Bystander DEF WindowsInv, TypeOK, Leave
<1>4. ProcessOK(p)'
  BY DEF WindowsInv, TypeOK, Leave, ProcessOK, Plan, AtRest, InLibrary, InDriver, FifoOK,
         WantsFifo
<1> QED
  BY <1>2, <1>3, <1>4 DEF WindowsInv

LEMMA RefuseStep ==
  ASSUME WindowsInv, NEW p \in Processes, Refuse(p)
  PROVE  WindowsInv'
<1> DEFINE io == Head(todo[p])
<1>1. /\ pc[p] = "library" /\ todo[p] # <<>> /\ call[p] \in Call
      /\ Plan(call[p], todo[p]) /\ trace[p] = <<>> /\ FifoOK(p)
  BY DEF WindowsInv, TypeOK, Refuse, ProcessOK, InLibrary
<1>2. /\ io \in Ioctl /\ Tail(todo[p]) \in Seq(Ioctl)
      /\ Plan(call[p], Tail(todo[p]))
      /\ \/ Moves(call[p], io) /\ Tail(todo[p]) = <<>>
         \/ /\ Turns(call[p]) /\ io = Turn(call[p].write)
            /\ Tail(todo[p]) = <<>> => AsksNothing(call[p])
  BY <1>1, PlanHead
<1>3. TypeOK'
  BY <1>2 DEF WindowsInv, TypeOK, Refuse
<1>4. ASSUME NEW q \in Processes, q # p PROVE ProcessOK(q)'
  BY <1>4, Bystander DEF WindowsInv, TypeOK, Refuse
<1>5. ProcessOK(p)'
  <2>1. /\ pc'[p] = "library" /\ call'[p] = call[p] /\ todo'[p] = Tail(todo[p])
        /\ trace'[p] = <<>> /\ error'[p] = (io.value = "data")
        /\ blockPoint' \in Modes /\ disturbed' = disturbed /\ fifo' = fifo /\ size' = size
    BY <1>1 DEF WindowsInv, TypeOK, Refuse, Modes
  <2>2. InLibrary(p)'
    BY <1>2, <2>1 DEF InLibrary, AsksNothing, Moves
  <2>3. FifoOK(p)'
    <3>1. CASE Tail(todo[p]) = <<>>
      BY <2>1, <3>1 DEF FifoOK, WantsFifo
    <3>2. CASE io = Turn(call[p].write)
      <4>1. ~ (FifoSelect <= size[2])
        BY <3>2 DEF Refuse, Invalid, Turn, Spaces
      <4> QED
        BY <2>1, <4>1 DEF FifoOK, WantsFifo
    <3> QED
      BY <1>2, <3>1, <3>2
  <2> QED
    BY <1>1, <1>2, <2>1, <2>2, <2>3 DEF ProcessOK, AtRest, InDriver
<1> QED
  BY <1>3, <1>4, <1>5 DEF WindowsInv

LEMMA StartStep ==
  ASSUME WindowsInv, NEW p \in Processes, Start(p)
  PROVE  WindowsInv'
<1> DEFINE io == Head(todo[p])
<1>1. /\ pc[p] = "library" /\ todo[p] # <<>> /\ call[p] \in Call
      /\ Plan(call[p], todo[p]) /\ FifoOK(p)
  BY DEF WindowsInv, TypeOK, Start, ProcessOK
<1>2. io \in Ioctl
  BY <1>1, PlanHead
<1>3. io.offset \in Nat /\ io.count \in Nat /\ io.width \in {1, 2, 4}
  BY <1>2 DEF Ioctl
<1>4. TypeOK'
  BY <1>1, <1>3 DEF WindowsInv, TypeOK, Start
<1>5. ASSUME NEW q \in Processes, q # p PROVE ProcessOK(q)'
  BY <1>5, Bystander DEF WindowsInv, TypeOK, Start
<1>6. ProcessOK(p)'
  <2>1. /\ pc'[p] = "driver" /\ call'[p] = call[p] /\ todo'[p] = todo[p]
        /\ trace'[p] = <<>> /\ addr'[p] = io.offset
        /\ blockPoint' = blockPoint /\ disturbed' = disturbed /\ fifo' = fifo
        /\ size' = size
    BY <1>1 DEF WindowsInv, TypeOK, Start
  <2>2. InOrder(trace[p], addr[p], io)'
    BY <1>3, <2>1 DEF InOrder
  <2>3. OnCourse(trace[p], addr[p], io, blockPoint)'
    <3>1. Step(io, blockPoint) \in Int
      BY <1>3 DEF Step
    <3> QED
      BY <1>3, <2>1, <3>1 DEF OnCourse, Run, Step
  <2>4. FifoOK(p)'
    BY <1>1, <2>1 DEF FifoOK, WantsFifo, HasTurned, Turns, Way
  <2> QED
    BY <1>1, <2>1, <2>2, <2>3, <2>4 DEF ProcessOK, AtRest, InLibrary, InDriver
<1> QED
  BY <1>4, <1>5, <1>6 DEF WindowsInv

\* One more word in its place: the trace is in order still, and on course if the
\* mode has been left alone.
LEMMA OneMoreWord ==
  ASSUME NEW io \in Ioctl, NEW t \in Seq(Nat), NEW a \in Nat, NEW b \in {a, a + io.width},
         Len(t) < io.count, InOrder(t, a, io)
  PROVE  InOrder(Append(t, a), b, io)
<1> DEFINE u == Append(t, a)
           n == Len(t)
<1>1. n \in Nat /\ io.offset \in Nat /\ io.count \in Nat /\ io.width \in {1, 2, 4}
  BY LenProperties DEF Ioctl
<1>2. /\ Len(u) = n + 1 /\ u # <<>>
      /\ \A i \in 1 .. n : u[i] = t[i]
      /\ u[n + 1] = a
  BY AppendProperties
<1>3. t = <<>> <=> n = 0
  BY EmptySeq
<1>4. \A i \in 1 .. n : t[i] \in Nat
  BY ElementOfSeq
<1> HIDE DEF u, n
<1>5. /\ n <= io.count /\ n # io.count
      /\ n = 0 => a = io.offset
      /\ n # 0 =>
           /\ t[1] = io.offset
           /\ a - t[n] \in {0, io.width}
           /\ \A i \in 2 .. n : t[i] - t[i - 1] \in {0, io.width}
  BY <1>3 DEF InOrder, n
<1>6. u[1] = io.offset
  BY <1>1, <1>2, <1>5
<1>7. b - u[n + 1] \in {0, io.width}
  BY <1>1, <1>2
<1>8. ASSUME NEW i \in 2 .. n + 1
      PROVE  u[i] - u[i - 1] \in {0, io.width}
  <2>1. CASE i <= n
    <3>1. u[i] = t[i] /\ u[i - 1] = t[i - 1]
      BY <1>1, <1>2, <2>1
    <3> QED
      BY <1>1, <1>5, <2>1, <3>1
  <2>2. CASE i = n + 1
    <3>1. u[i] = a /\ u[i - 1] = t[n] /\ n # 0
      BY <1>1, <1>2, <2>2
    <3> QED
      BY <1>5, <3>1
  <2> QED
    BY <1>1, <2>1, <2>2
<1>9. n + 1 <= io.count
  BY <1>1, <1>5
<1> QED
  BY <1>2, <1>6, <1>7, <1>8, <1>9 DEF InOrder, u

LEMMA OneMoreOnCourse ==
  ASSUME NEW io \in Ioctl, NEW mode \in Modes, NEW t \in Seq(Nat), NEW a \in Nat,
         OnCourse(t, a, io, mode)
  PROVE  OnCourse(Append(t, a), a + Step(io, mode), io, mode)
<1> DEFINE u == Append(t, a)
           n == Len(t)
           step == Step(io, mode)
<1>1. n \in Nat /\ io.offset \in Nat /\ step \in {0, 1, 2, 4}
  BY LenProperties DEF Ioctl, Step
<1>2. /\ u \in Seq(Nat) /\ Len(u) = n + 1
      /\ \A i \in 1 .. n : u[i] = t[i]
      /\ u[n + 1] = a
  BY AppendProperties
<1>3. t = [i \in 1 .. n |-> io.offset + (i - 1) * step] /\ a = io.offset + n * step
  BY DEF OnCourse, Run
<1>4. u = [i \in 1 .. n + 1 |-> u[i]]
  BY <1>2, LenProperties
<1> HIDE DEF u, n, step
<1>5. ASSUME NEW i \in 1 .. n + 1
      PROVE  u[i] = io.offset + (i - 1) * step
  <2>1. CASE i \in 1 .. n
    <3>1. u[i] = t[i]
      BY <1>2, <2>1
    <3>2. t[i] = io.offset + (i - 1) * step
      BY <1>3, <2>1
    <3> QED
      BY <3>1, <3>2
  <2>2. CASE i = n + 1
    <3>1. i - 1 = n
      BY <1>1, <2>2
    <3> QED
      BY <1>2, <1>3, <2>2, <3>1
  <2> QED
    BY <1>1, <2>1, <2>2
<1>6. u = [i \in 1 .. n + 1 |-> io.offset + (i - 1) * step]
  BY <1>4, <1>5
<1>7. a + step = io.offset + (n + 1) * step
  BY <1>1, <1>3
<1> QED
  BY <1>2, <1>6, <1>7 DEF OnCourse, Run, u, step

LEMMA AccessStep ==
  ASSUME WindowsInv, NEW p \in Processes, Access(p)
  PROVE  WindowsInv'
<1> DEFINE io == Head(todo[p])
           turn == io.write /\ io.bar = 2 /\ addr[p] = FifoSelect
<1>1. /\ pc[p] = "driver" /\ todo[p] # <<>> /\ call[p] \in Call
      /\ Plan(call[p], todo[p]) /\ FifoOK(p)
      /\ trace[p] \in Seq(Nat) /\ addr[p] \in Nat /\ blockPoint \in Modes
      /\ InOrder(trace[p], addr[p], io) /\ Len(trace[p]) < io.count
      /\ ~ mixed[p] => OnCourse(trace[p], addr[p], io, blockPoint)
  BY DEF WindowsInv, TypeOK, Access, ProcessOK, InDriver, Modes
<1>2. /\ io \in Ioctl
      /\ \/ Moves(call[p], io)
         \/ Turns(call[p]) /\ io = Turn(call[p].write)
  BY <1>1, PlanHead
<1>3. io.value \in {"in", "out", "data"} /\ io.width \in {1, 2, 4}
  BY <1>2 DEF Ioctl
<1>4. /\ pc' = pc /\ call' = call /\ todo' = todo /\ error' = error /\ mixed' = mixed
      /\ blockPoint' = blockPoint /\ size' = size
      /\ trace' = [trace EXCEPT ![p] = Append(@, addr[p])]
      /\ addr' = [addr EXCEPT ![p] = addr[p] + Step(io, blockPoint)]
      /\ fifo' = IF turn THEN io.value ELSE fifo
      /\ disturbed' = IF turn
                      THEN [q \in Processes |->
                              IF q = p THEN io.value = "data" ELSE disturbed[q] \/ Disturbs(io, q)]
                      ELSE disturbed
  <2>1. Next_addr(p, io) = addr[p] + Step(io, blockPoint)
    BY <1>1, <1>3 DEF Next_addr, Step
  <2> QED
    BY <2>1 DEF Access
<1>5. Step(io, blockPoint) \in {0, io.width} /\ addr[p] + Step(io, blockPoint) \in Nat
  BY <1>1, <1>3 DEF Step
<1>6. TypeOK'
  <2>1. Append(trace[p], addr[p]) \in Seq(Nat)
    BY <1>1, AppendProperties
  <2>2. trace' \in [Processes -> Seq(Nat)] /\ addr' \in [Processes -> Nat]
    BY <1>4, <1>5, <2>1 DEF WindowsInv, TypeOK
  <2>3. fifo' \in {"in", "out", "data"} /\ disturbed' \in [Processes -> BOOLEAN]
    <3>1. \A q \in Processes : disturbed[q] \in BOOLEAN /\ Disturbs(io, q) \in BOOLEAN
      BY DEF WindowsInv, TypeOK, Disturbs
    <3> QED
      BY <1>3, <1>4, <3>1 DEF WindowsInv, TypeOK
  <2> QED
    BY <1>4, <2>2, <2>3 DEF WindowsInv, TypeOK
<1>7. ASSUME NEW q \in Processes, q # p PROVE ProcessOK(q)'
  <2>1. trace'[q] = trace[q] /\ addr'[q] = addr[q]
    BY <1>4, <1>7 DEF WindowsInv, TypeOK
  <2>2. /\ pc[q] = "idle" /\ ~ disturbed[q] => ~ disturbed'[q]
        /\ ~ disturbed'[q] => /\ ~ disturbed[q]
                              /\ fifo' = fifo \/ pc[q] = "idle" \/ fifo' = Way(call[q])
    <3>1. CASE turn
      BY <1>4, <1>7, <3>1 DEF Disturbs
    <3>2. CASE ~ turn
      BY <1>4, <3>2
    <3> QED
      BY <3>1, <3>2
  <2> QED
    BY <1>4, <1>7, <2>1, <2>2, Bystander DEF WindowsInv
<1>8. ProcessOK(p)'
  <2>1. trace'[p] = Append(trace[p], addr[p]) /\ addr'[p] = addr[p] + Step(io, blockPoint)
    BY <1>4 DEF WindowsInv, TypeOK
  <2>2. InOrder(trace[p], addr[p], io)'
    <3>1. addr[p] + Step(io, blockPoint) \in {addr[p], addr[p] + io.width}
      BY <1>1, <1>5
    <3>2. InOrder(Append(trace[p], addr[p]), addr[p] + Step(io, blockPoint), io)
      BY <1>1, <1>2, <3>1, OneMoreWord
    <3> QED
      BY <1>4, <2>1, <3>2
  <2>3. ~ mixed'[p] => OnCourse(trace[p], addr[p], io, blockPoint)'
    <3>1. ~ mixed[p] =>
            OnCourse(Append(trace[p], addr[p]), addr[p] + Step(io, blockPoint), io, blockPoint)
      BY <1>1, <1>2, OneMoreOnCourse
    <3> QED
      BY <1>4, <2>1, <3>1
  <2>4. FifoOK(p)'
    <3>1. ASSUME Turns(call[p]), io = Turn(call[p].write)
          PROVE  turn /\ io.value = Way(call[p])
      <4>1. io.write /\ io.bar = 2 /\ io.count = 1 /\ io.offset = FifoSelect
        BY <3>1 DEF Turn
      <4>2. trace[p] = <<>>
        BY <1>1, <4>1, LenProperties, EmptySeq
      <4> QED
        BY <1>1, <3>1, <4>1, <4>2 DEF InOrder, Turn, Way
    <3>2. CASE Turns(call[p]) /\ io = Turn(call[p].write)
      <4>1. fifo' = Way(call[p])
        BY <1>4, <3>1, <3>2
      <4> QED
        BY <1>4, <4>1 DEF FifoOK, Way
    <3>3. CASE Moves(call[p], io) /\ turn
      BY <1>4, <3>3 DEF FifoOK, WantsFifo, Moves
    <3>4. CASE Moves(call[p], io) /\ ~ turn
      BY <1>1, <1>4, <3>4 DEF FifoOK, WantsFifo, HasTurned, Moves, Way
    <3> QED
      BY <1>2, <3>2, <3>3, <3>4
  <2>5. InDriver(p)'
    BY <1>1, <1>4, <2>2, <2>3 DEF InDriver
  <2> QED
    BY <1>1, <1>4, <2>4, <2>5 DEF ProcessOK, AtRest, InLibrary
<1> QED
  BY <1>6, <1>7, <1>8 DEF WindowsInv

LEMMA OopsStep ==
  ASSUME WindowsInv, NEW p \in Processes, Oops(p)
  PROVE  WindowsInv'
<1>1. TypeOK'
  BY DEF WindowsInv, TypeOK, Oops
<1>2. ASSUME NEW q \in Processes, q # p PROVE ProcessOK(q)'
  BY <1>2, Bystander DEF WindowsInv, TypeOK, Oops
<1>3. ProcessOK(p)'
  BY DEF WindowsInv, TypeOK, Oops, ProcessOK, AtRest, InLibrary, InDriver, FifoOK, WantsFifo
<1> QED
  BY <1>1, <1>2, <1>3 DEF WindowsInv

LEMMA FinishStep ==
  ASSUME WindowsInv, NEW p \in Processes, Finish(p)
  PROVE  WindowsInv'
<1> DEFINE io == Head(todo[p])
<1>1. /\ pc[p] = "driver" /\ todo[p] # <<>> /\ call[p] \in Call
      /\ Plan(call[p], todo[p]) /\ FifoOK(p)
      /\ trace[p] \in Seq(Nat) /\ blockPoint \in Modes /\ Len(trace[p]) = io.count
      /\ ~ mixed[p] => OnCourse(trace[p], addr[p], io, blockPoint)
  BY DEF WindowsInv, TypeOK, Finish, ProcessOK, InDriver, Modes
<1>2. /\ Tail(todo[p]) \in Seq(Ioctl)
      /\ Plan(call[p], Tail(todo[p]))
      /\ \/ Moves(call[p], io) /\ Tail(todo[p]) = <<>>
         \/ /\ Turns(call[p]) /\ io = Turn(call[p].write)
            /\ Tail(todo[p]) = <<>> => AsksNothing(call[p])
  BY <1>1, PlanHead
<1>3. TypeOK'
  <2>1. <<>> \in Seq(Nat)
    OBVIOUS
  <2> QED
    BY <1>2, <2>1 DEF WindowsInv, TypeOK, Finish
<1>4. ASSUME NEW q \in Processes, q # p PROVE ProcessOK(q)'
  BY <1>4, Bystander DEF WindowsInv, TypeOK, Finish
<1>5. ProcessOK(p)'
  <2>1. /\ pc'[p] = "library" /\ call'[p] = call[p] /\ todo'[p] = Tail(todo[p])
        /\ trace'[p] = (IF io.value = "data" THEN trace[p] ELSE <<>>)
        /\ mixed'[p] = mixed[p] /\ blockPoint' = blockPoint
        /\ disturbed' = disturbed /\ fifo' = fifo /\ size' = size
    BY <1>1 DEF WindowsInv, TypeOK, Finish
  <2>2. CASE Moves(call[p], io) /\ Tail(todo[p]) = <<>>
    <3>1. trace'[p] = trace[p]
      BY <2>1, <2>2 DEF Moves
    <3>2. ~ mixed[p] => trace[p] = Asked(call[p], blockPoint)
      BY <1>1, <2>2 DEF OnCourse, Moves
    <3> QED
      BY <1>1, <1>2, <2>1, <2>2, <3>1, <3>2
      DEF ProcessOK, AtRest, InLibrary, InDriver, FifoOK, WantsFifo
  <2>3. CASE /\ Turns(call[p]) /\ io = Turn(call[p].write)
             /\ Tail(todo[p]) = <<>> => AsksNothing(call[p])
    <3>1. trace'[p] = <<>>
      BY <1>1, <2>1, <2>3, TurnIsIoctl DEF Call
    <3>2. FifoOK(p)'
      <4>1. Len(trace[p]) = 1
        BY <1>1, <2>3 DEF Turn
      <4>2. trace[p] # <<>>
        BY <4>1
      <4>3. WantsFifo(p)' => fifo = Way(call[p])
        BY <1>1, <2>1, <4>2 DEF FifoOK, WantsFifo, HasTurned, Turns
      <4> QED
        BY <2>1, <4>3 DEF FifoOK, Way
    <3> QED
      BY <1>1, <1>2, <2>1, <2>3, <3>1, <3>2
      DEF ProcessOK, AtRest, InLibrary, InDriver, AsksNothing
  <2> QED
    BY <1>2, <2>2, <2>3
<1> QED
  BY <1>3, <1>4, <1>5 DEF WindowsInv

\* To set the mode marks every call under way.
LEMMA DriverConfigStep ==
  ASSUME WindowsInv, NEW p \in Processes, NEW mode \in Modes, DriverConfig(p, mode)
  PROVE  WindowsInv'
<1>1. TypeOK'
  BY DEF WindowsInv, TypeOK, DriverConfig, process, Modes
<1>2. ASSUME NEW q \in Processes PROVE ProcessOK(q)'
  <2>1. /\ pc' = pc /\ call' = call /\ todo' = todo /\ trace' = trace /\ addr' = addr
        /\ error' = error /\ fifo' = fifo /\ disturbed' = disturbed /\ size' = size
        /\ pc[q] # "idle" => mixed'[q]
    BY DEF WindowsInv, TypeOK, DriverConfig, process
  <2>2. ProcessOK(q)
    BY DEF WindowsInv
  <2>3. FifoOK(q)'
    BY <2>1, <2>2 DEF ProcessOK, FifoOK, WantsFifo, HasTurned, Turns, Way
  <2> QED
    BY <2>1, <2>2, <2>3 DEF ProcessOK, AtRest, InLibrary, InDriver
<1> QED
  BY <1>1, <1>2 DEF WindowsInv

LEMMA WindowsNext == WindowsInv /\ [Next]_vars => WindowsInv'
<1> SUFFICES ASSUME WindowsInv, [Next]_vars PROVE WindowsInv'
  OBVIOUS
<1>1. ASSUME NEW p \in Processes, NEW c \in Calls, Library(p, c) PROVE WindowsInv'
  BY <1>1, EnterStep
<1>2. ASSUME NEW p \in Processes, Refuse(p) PROVE WindowsInv'
  BY <1>2, RefuseStep
<1>3. ASSUME NEW p \in Processes, Start(p) PROVE WindowsInv'
  BY <1>3, StartStep
<1>4. ASSUME NEW p \in Processes, Access(p) PROVE WindowsInv'
  BY <1>4, AccessStep
<1>5. ASSUME NEW p \in Processes, Oops(p) PROVE WindowsInv'
  BY <1>5, OopsStep
<1>6. ASSUME NEW p \in Processes, Finish(p) PROVE WindowsInv'
  BY <1>6, FinishStep
<1>7. ASSUME NEW p \in Processes, Leave(p) PROVE WindowsInv'
  BY <1>7, LeaveStep
<1>8. ASSUME NEW p \in Processes, NEW mode \in Modes, DriverConfig(p, mode) PROVE WindowsInv'
  BY <1>8, DriverConfigStep
<1>9. CASE UNCHANGED vars
  <2>1. TypeOK'
    BY <1>9 DEF WindowsInv, TypeOK, vars, process
  <2>2. ASSUME NEW q \in Processes PROVE ProcessOK(q)'
    BY <1>9, Bystander DEF WindowsInv, vars, process
  <2> QED
    BY <2>1, <2>2 DEF WindowsInv
<1> QED
  BY <1>1, <1>2, <1>3, <1>4, <1>5, <1>6, <1>7, <1>8, <1>9 DEF Next, Modes

-----------------------------------------------------------------------------
\* The theorems

\* Every variable has its type, and every call is where its plan says.
THEOREM WindowsInvariant == Spec => []WindowsInv
<1>1. Init => WindowsInv
  BY WindowsInit
<1>2. WindowsInv /\ [Next]_vars => WindowsInv'
  BY WindowsNext
<1> QED
  BY <1>1, <1>2, PTL DEF Spec

\* The words of a call go forward from its offset, one width at a time at most,
\* for any processes that set the mode meanwhile.
THEOREM WordsAreInOrder == Spec => []WordsInOrder
<1>1. WindowsInv => WordsInOrder
  BY DEF WindowsInv, ProcessOK, InDriver, InOrder, WordsInOrder, Moving
<1> QED
  BY <1>1, WindowsInvariant, PTL

\* A call that reports success, and whose mode was left alone, has moved the words
\* it was asked for.
THEOREM CallsDoTheirWork == Spec => []DoesItsWork
<1>1. WindowsInv => DoesItsWork
  BY DEF WindowsInv, ProcessOK, InLibrary, DoesItsWork
<1> QED
  BY <1>1, WindowsInvariant, PTL

\* On a card whose space 0 reaches the FIFO's register, the words of a block pass
\* a FIFO turned their way, unless the block has run over the register or another
\* call turned the FIFO the other way meanwhile.
THEOREM FifoIsTurned == Spec => []FifoTurnedItsWay
<1>1. WindowsInv => FifoTurnedItsWay
  BY DEF WindowsInv, TypeOK, ProcessOK, FifoOK, WantsFifo, HasTurned, FifoTurnedItsWay, Moving
<1> QED
  BY <1>1, WindowsInvariant, PTL
=============================================================================
