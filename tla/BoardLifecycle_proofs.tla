------------------------ MODULE BoardLifecycle_proofs ------------------------
(***************************************************************************)
(* Proofs about BoardLifecycle, for any cards, any number of slots and     *)
(* whichever kernel calls fail: what the driver's table says of a board    *)
(* and what the kernel holds for it stay in step while boards are set up,  *)
(* used and taken down.                                                    *)
(***************************************************************************)
EXTENDS BoardLifecycle, SequenceTheorems, TLAPS

\* What the proofs need of the constants
LEMMA Constants ==
  /\ PCI_MAX_DEV \in Nat \ {0} /\ PCI_MAX_NUM_REGS \in Nat /\ Len(Devices) \in Nat
  /\ \A d \in 1 .. Len(Devices) :
       Devices[d] \in [irq : BOOLEAN, plx9054 : BOOLEAN, regions : SUBSET Regions]
<1> DEFINE Cards == [irq : BOOLEAN, plx9054 : BOOLEAN, regions : SUBSET Regions]
<1>1. Devices \in Seq(Cards)
  BY BoardLifecycleAssumption
<1> HIDE DEF Cards
<1>2. \A d \in 1 .. Len(Devices) : Devices[d] \in Cards
  BY <1>1, ElementOfSeq
<1> QED
  BY <1>1, <1>2, LenProperties, BoardLifecycleAssumption DEF Cards

USE Constants

-----------------------------------------------------------------------------
\* The inductive invariant

\* Where SIPLX_board_init is at work; where the board of the slot card_num holds
\* nothing; where the slot has its card; and where boards are taken down.
SettingUp == {"regions", "work"} \cup Dma
Bare == {"scan", "add", "enable", "exit", "in"}
AtBoard == {"add", "enable", "undo", "oops"} \cup SettingUp
Cleanup == {"free_irq", "free_mem"}

\* The slots before card_num are initialised, and hold one card each, in the
\* order of the bus.
SlotsOK ==
  /\ \A n \in Slots : pdx[n].init <=> n < card_num
  /\ \A n \in Slots : n < card_num => pdx[n].dev \in 1 .. from
  /\ \A m, n \in Slots : m < n /\ n < card_num => pdx[m].dev < pdx[n].dev
  /\ \A m \in Slots : m < card_num /\ card_num \in Slots /\ pdx[card_num].mem # {} =>
                       pdx[m].dev < pdx[card_num].dev
  /\ pc \in AtBoard =>
       /\ card_num < PCI_MAX_DEV /\ from > 0 /\ pdx[card_num].dev = from
       /\ \A n \in Slots : n < card_num => pdx[n].dev < from
  /\ pc \in Cleanup => cnt <= PCI_MAX_DEV

\* The regions of the card that the loop of SIPLX_board_init has come past
Passed == {r \in Device.regions : r < cnt}

\* What the table says of each board: the regions of its card once it is
\* initialised, those passed so far while it is set up, and nothing before.
BoardOK(n) ==
  /\ n < card_num => pdx[n].mem = Devices[pdx[n].dev].regions
  /\ n > card_num => pdx[n] = NoBoard
  /\ n = card_num =>
       /\ pc \in Bare => pdx[n].mem = {} /\ pdx[n].dma = {}
       /\ pc \in {"regions", "undo"} => pdx[n].dma = {}
       /\ pc = "regions" => /\ cnt <= PCI_MAX_NUM_REGS
                            /\ pdx[n].mem = Passed
       /\ pc \in {"work", "oops"} \cup Dma => pdx[n].mem = Device.regions
       /\ pc \notin {"work", "oops"} \cup Dma => ~ pdx[n].irq

\* Interrupts: those of the table, until they are freed.
IrqsOK ==
  /\ \A n \in irqs : pdx[n].irq
  /\ pc \notin Cleanup \cup {"out"} => \A n \in Slots : pdx[n].irq => n \in irqs
  /\ pc = "free_irq" => \A n \in Slots : IF n < cnt THEN n \notin irqs
                                         ELSE HasIrq(n) => n \in irqs
  /\ pc = "free_mem" => irqs = {}

\* The kernel holds what the table says a board has.
Held(n) ==
  /\ RegionsOf(n) \subseteq regions /\ DmaOf(n) \subseteq dma
  /\ clean => RegionsOf(n) \subseteq mapped

\* The slots that module_cleanup has not come to
ToCome(n) == pc = "free_mem" => n >= cnt

HeldOK ==
  /\ pc # "out" => \A n \in Slots : ToCome(n) => Held(n)
  /\ pc = "out" => \A n \in irqs : Held(n)

FilesOK == \A n \in files : pdx[n].init

\* Where nothing was refused, the kernel holds nothing else.
CdevsOf(n) ==
  IF \/ pc = "free_irq" /\ cnt <= n /\ n < card_num
     \/ pc \notin Cleanup \cup {"out"} /\ n < card_num
     \/ pc \in AtBoard \ {"add"} /\ n = card_num
  THEN 1 ELSE 0

CleanOK ==
  /\ pc # "undo"
  /\ result # 0 => card_num = 0 /\ pc \in Cleanup \cup {"out"}
  /\ \A n \in Slots : n < card_num => pdx[n].irq
  /\ pc \in {"work"} \cup Dma => pdx[card_num].irq
  /\ \A n \in Slots : cdevs[n] = CdevsOf(n)
  /\ pc \in Cleanup => \A n \in Slots : n >= card_num => pdx[n].mem = {} /\ pdx[n].dma = {}
  /\ pc # "out" => \A h \in regions : \E n \in Slots : ToCome(n) /\ h \in RegionsOf(n)
  /\ pc # "out" => \A h \in dma : \E n \in Slots : ToCome(n) /\ h \in DmaOf(n)
  /\ pc = "out" => NothingHeld
  /\ pc = "free_mem" => ~ chrdev
  /\ pc \in Cleanup \cup {"out"} => files = {}

\* Whatever was refused, the kernel holds nothing but what the table says, of the
\* boards that module_cleanup has not come to.  It comes to all but the one that
\* SIPLX_board_init failed on.
RestOK ==
  /\ pc # "out" => \A h \in regions : \E n \in Slots : ToCome(n) /\ h \in RegionsOf(n)
  /\ pc # "out" => \A h \in dma : \E n \in Slots : ToCome(n) /\ h \in DmaOf(n)
  /\ pc \notin Cleanup \cup {"out"} => chrdev
  /\ pc = "undo" => result # 0
  /\ pc = "free_mem" => ~ chrdev
  /\ pc \in Cleanup => \A n \in Slots : n >= card_num =>
       /\ pdx[n].dma = {}
       /\ pdx[n].mem # {} => result # 0 /\ pdx[n].dev = from
  /\ CleanupGivesBack

LifecycleInv ==
  /\ TypeOK /\ SlotsOK /\ (\A n \in Slots : BoardOK(n)) /\ IrqsOK /\ HeldOK /\ FilesOK
  /\ clean => CleanOK

-----------------------------------------------------------------------------
\* Lemmas

\* A board with another card in its slot
LEMMA OtherCard ==
  ASSUME NEW b \in Board, NEW d \in 0 .. Len(Devices)
  PROVE  /\ [b EXCEPT !.dev = d] \in Board
         /\ [b EXCEPT !.dev = d].dev = d /\ [b EXCEPT !.dev = d].init = b.init
         /\ [b EXCEPT !.dev = d].irq = b.irq /\ [b EXCEPT !.dev = d].mem = b.mem
         /\ [b EXCEPT !.dev = d].dma = b.dma
  BY DEF Board

\* A slot's number, and the card of an initialised board or of one set up.
LEMMA Numbers ==
  ASSUME LifecycleInv
  PROVE  /\ card_num \in Nat /\ from \in Nat /\ cnt \in Nat
         /\ \A n \in Slots : n \in Nat
         /\ pc \in AtBoard => card_num \in Slots /\ from \in 1 .. Len(Devices)
  BY DEF LifecycleInv, TypeOK, SlotsOK, Slots

-----------------------------------------------------------------------------
\* Initial states, and the actions of processes

LEMMA InitInv == Init => LifecycleInv
<1> SUFFICES ASSUME Init PROVE LifecycleInv
  OBVIOUS
<1>1. TypeOK
  <2>1. NoBoard \in Board
    BY DEF NoBoard, Board
  <2>2. pdx \in [Slots -> Board] /\ cdevs \in [Slots -> Nat]
    BY <2>1 DEF Init
  <2>3. card_num \in 0 .. PCI_MAX_DEV /\ from \in 0 .. Len(Devices) /\ cnt \in Nat
    BY DEF Init
  <2>4. regions \subseteq (1 .. Len(Devices)) \X Regions /\ dma \subseteq Slots \X Dma
    BY DEF Init
  <2>5. mapped \subseteq regions
    BY DEF Init
  <2>6. pc \in {"out"} /\ result \in {0, -1} /\ chrdev \in BOOLEAN /\ clean \in BOOLEAN
    BY DEF Init
  <2> QED
    BY <2>1, <2>2, <2>3, <2>4, <2>5, <2>6 DEF Init, TypeOK
<1>2. SlotsOK /\ IrqsOK /\ HeldOK /\ FilesOK
  BY DEF Init, SlotsOK, IrqsOK, HeldOK, FilesOK, NoBoard, Slots, AtBoard, SettingUp,
         Cleanup, Dma
<1>3. \A n \in Slots : BoardOK(n)
  BY DEF Init, BoardOK, NoBoard, Slots, Bare, Dma
<1>4. CleanOK
  BY DEF Init, CleanOK, NothingHeld, CdevsOf, Slots, AtBoard, SettingUp, Dma, Cleanup
<1> QED
  BY <1>1, <1>2, <1>3, <1>4 DEF LifecycleInv

LEMMA ProcessInv ==
  ASSUME LifecycleInv, NEW m \in Slots,
         SIPLX_open(m) \/ SIPLX_release(m)
  PROVE  LifecycleInv'
<1> USE DEF SIPLX_open, SIPLX_release
<1>1. UNCHANGED <<pc, card_num, from, cnt, result, pdx, resources, clean>>
  OBVIOUS
<1>2. TypeOK'
  BY DEF LifecycleInv, TypeOK, resources
<1>3. /\ SlotsOK' /\ IrqsOK' /\ HeldOK'
      /\ \A n \in Slots : BoardOK(n)'
  BY <1>1 DEF LifecycleInv, SlotsOK, BoardOK, Device, Passed, IrqsOK, HasIrq, HeldOK, Held, ToCome,
              RegionsOf, DmaOf, resources
<1>4. FilesOK'
  BY DEF LifecycleInv, FilesOK
<1>5. ASSUME clean' PROVE CleanOK'
  <2>1. pc \in Cleanup \cup {"out"} => files' = {}
    <3>1. SIPLX_open(m) => pc \notin Cleanup \cup {"out"}
      BY <1>5 DEF LifecycleInv, CleanOK, SlotsOK, Cleanup, Live, Slots, TypeOK
    <3> QED
      BY <1>5, <3>1 DEF LifecycleInv, CleanOK
  <2> QED
    BY <1>1, <1>5, <2>1 DEF LifecycleInv, CleanOK, CdevsOf, ToCome, RegionsOf, DmaOf,
                            NothingHeld, resources
<1> QED
  BY <1>2, <1>3, <1>4, <1>5 DEF LifecycleInv

LEMMA InsmodInv ==
  ASSUME LifecycleInv, Insmod
  PROVE  LifecycleInv'
<1> USE Numbers DEF Insmod, NothingHeld, NoBoard, Board, AtBoard, SettingUp, Cleanup, Dma
<1>1. TypeOK'
  BY DEF LifecycleInv, TypeOK, resources
<1>2. SlotsOK'
  BY DEF LifecycleInv, TypeOK, SlotsOK, Board, NoBoard
<1>3. ASSUME NEW n \in Slots PROVE BoardOK(n)'
  BY DEF LifecycleInv, TypeOK, SlotsOK, BoardOK, Board, NoBoard, Device, Bare
<1>4. IrqsOK'
  BY DEF LifecycleInv, TypeOK, SlotsOK, BoardOK, IrqsOK, HasIrq, Board, resources
<1>5. HeldOK'
  BY DEF LifecycleInv, TypeOK, SlotsOK, BoardOK, IrqsOK, HeldOK, Held, ToCome, RegionsOf, DmaOf, Board,
         Bare, resources
<1>6. FilesOK'
  BY DEF LifecycleInv, TypeOK, FilesOK, Board
<1>7. ASSUME clean' PROVE CleanOK'
  BY <1>7 DEF LifecycleInv, TypeOK, SlotsOK, BoardOK, IrqsOK, FilesOK, CleanOK, CdevsOf, ToCome,
     RegionsOf, DmaOf, NothingHeld, Board, Bare, resources
<1> QED
  BY <1>1, <1>2, <1>3, <1>4, <1>5, <1>6, <1>7 DEF LifecycleInv

LEMMA TakeDeviceInv ==
  ASSUME LifecycleInv, TakeDevice
  PROVE  LifecycleInv'
<1> USE Numbers DEF TakeDevice, AtBoard, SettingUp, Cleanup, Dma
<1>a. card_num \in Slots /\ from + 1 \in 1 .. Len(Devices) /\ from + 1 \in 0 .. Len(Devices)
  BY SMTT(20) DEF LifecycleInv, TypeOK, Slots
<1>b. \A n \in Slots : /\ pdx[n] \in Board
                       /\ pdx'[n] = IF n = card_num THEN [pdx[n] EXCEPT !.dev = from + 1] ELSE pdx[n]
  BY <1>a DEF LifecycleInv, TypeOK
<1>c. \A n \in Slots : /\ pdx'[n].init = pdx[n].init /\ pdx'[n].irq = pdx[n].irq
                       /\ pdx'[n].mem = pdx[n].mem /\ pdx'[n].dma = pdx[n].dma
                       /\ pdx'[n].dev = IF n = card_num THEN from + 1 ELSE pdx[n].dev
  <2> SUFFICES ASSUME NEW n \in Slots
               PROVE  /\ pdx'[n].init = pdx[n].init /\ pdx'[n].irq = pdx[n].irq
                      /\ pdx'[n].mem = pdx[n].mem /\ pdx'[n].dma = pdx[n].dma
                      /\ pdx'[n].dev = IF n = card_num THEN from + 1 ELSE pdx[n].dev
    OBVIOUS
  <2> HIDE DEF TakeDevice
  <2> DEFINE d == from + 1
  <2>1. d \in 0 .. Len(Devices) /\ pdx[n] \in Board
    BY <1>a, <1>b
  <2>2. pdx'[n] = IF n = card_num THEN [pdx[n] EXCEPT !.dev = d] ELSE pdx[n]
    BY <1>b
  <2> HIDE DEF d
  <2>3. /\ [pdx[n] EXCEPT !.dev = d].dev = d /\ [pdx[n] EXCEPT !.dev = d].init = pdx[n].init
        /\ [pdx[n] EXCEPT !.dev = d].irq = pdx[n].irq /\ [pdx[n] EXCEPT !.dev = d].mem = pdx[n].mem
        /\ [pdx[n] EXCEPT !.dev = d].dma = pdx[n].dma
    BY <2>1, OtherCard
  <2> QED
    BY <2>2, <2>3 DEF d
<1>1. TypeOK'
  <2>1. pdx' \in [Slots -> Board]
    BY <1>a, <1>b, OtherCard DEF LifecycleInv, TypeOK
  <2> QED
    BY <1>a, <2>1 DEF LifecycleInv, TypeOK, resources
<1>2. SlotsOK'
  <2>1. /\ pc' = "add" /\ from' = from + 1 /\ card_num' = card_num /\ pc = "scan"
        /\ card_num < PCI_MAX_DEV
    OBVIOUS
  <2>2. SlotsOK /\ from \in Nat
    BY DEF LifecycleInv, TypeOK
  <2> HIDE DEF TakeDevice
  <2>3. \A n \in Slots : n < card_num => pdx'[n].dev = pdx[n].dev
    BY <1>c DEF Slots
  <2>4. /\ \A n \in Slots : pdx'[n].init <=> n < card_num'
        /\ \A n \in Slots : n < card_num' => pdx'[n].dev \in 1 .. from'
    BY <1>c, <2>1, <2>2, <2>3 DEF SlotsOK
  <2>5. \A m, n \in Slots : m < n /\ n < card_num' => pdx'[m].dev < pdx'[n].dev
    BY <2>1, <2>2, <2>3 DEF SlotsOK
  <2>6. /\ pdx'[card_num'].dev = from'
        /\ \A n \in Slots : n < card_num' => pdx'[n].dev < from'
    BY <1>a, <1>c, <2>1, <2>2, <2>3 DEF SlotsOK
  <2> QED
    BY <2>1, <2>2, <2>4, <2>5, <2>6 DEF SlotsOK
<1>3. ASSUME NEW n \in Slots PROVE BoardOK(n)'
  BY <1>a, <1>b, <1>c DEF LifecycleInv, BoardOK, SlotsOK, Bare
<1>4. IrqsOK'
  BY DEF LifecycleInv, TypeOK, SlotsOK, BoardOK, IrqsOK, HasIrq, Board, resources
<1>5. HeldOK'
  BY DEF LifecycleInv, TypeOK, SlotsOK, BoardOK, IrqsOK, HeldOK, Held, ToCome, RegionsOf, DmaOf, Board,
         Bare, resources
<1>6. FilesOK'
  BY DEF LifecycleInv, TypeOK, FilesOK, Board
<1>7. ASSUME clean' PROVE CleanOK'
  BY <1>7 DEF LifecycleInv, TypeOK, SlotsOK, BoardOK, IrqsOK, FilesOK, CleanOK, CdevsOf, ToCome,
     RegionsOf, DmaOf, NothingHeld, Board, Bare, resources
<1> QED
  BY <1>1, <1>2, <1>3, <1>4, <1>5, <1>6, <1>7 DEF LifecycleInv

LEMMA NoMoreDevicesInv ==
  ASSUME LifecycleInv, NoMoreDevices
  PROVE  LifecycleInv'
<1> USE Numbers DEF NoMoreDevices, AtBoard, SettingUp, Cleanup, Dma
<1>b. \A n \in Slots : /\ pdx[n] \in Board
                       /\ pdx'[n] = IF n = card_num THEN [pdx[n] EXCEPT !.dev = 0] ELSE pdx[n]
  BY DEF LifecycleInv, TypeOK
<1>c. \A n \in Slots : /\ pdx'[n].init = pdx[n].init /\ pdx'[n].irq = pdx[n].irq
                       /\ pdx'[n].mem = pdx[n].mem /\ pdx'[n].dma = pdx[n].dma
                       /\ pdx'[n].dev = IF n = card_num THEN 0 ELSE pdx[n].dev
  BY <1>b, OtherCard
<1>1. TypeOK'
  <2>1. \A n \in Slots : pdx'[n] \in Board
    BY <1>b, OtherCard
  <2>2. pdx' \in [Slots -> Board]
    BY <2>1
  <2> QED
    BY <2>2 DEF LifecycleInv, TypeOK, resources
<1>2. SlotsOK'
  <2>1. card_num \in Slots => pdx'[card_num].mem = {}
    BY <1>c DEF LifecycleInv, BoardOK, Bare
  <2>2. SlotsOK /\ card_num' = card_num /\ from' = from /\ pc' \in {"free_irq", "exit"}
        /\ (pc' = "free_irq" => cnt' = 0)
    BY DEF LifecycleInv
  <2> HIDE DEF NoMoreDevices
  <2>3. /\ \A n \in Slots : pdx'[n].init <=> n < card_num'
        /\ \A n \in Slots : n < card_num' => pdx'[n].dev = pdx[n].dev
    BY <1>c, <2>2 DEF SlotsOK, Slots
  <2>4. /\ \A n \in Slots : n < card_num' => pdx'[n].dev \in 1 .. from'
        /\ \A m, n \in Slots : m < n /\ n < card_num' => pdx'[m].dev < pdx'[n].dev
    BY <2>2, <2>3 DEF SlotsOK, Slots
  <2> QED
    BY <2>1, <2>2, <2>3, <2>4 DEF SlotsOK
<1>3. ASSUME NEW n \in Slots PROVE BoardOK(n)'
  BY <1>b, <1>c DEF LifecycleInv, BoardOK, SlotsOK, Bare
<1>4. IrqsOK'
  BY DEF LifecycleInv, TypeOK, SlotsOK, BoardOK, IrqsOK, HasIrq, Board, resources
<1>5. HeldOK'
  BY DEF LifecycleInv, TypeOK, SlotsOK, BoardOK, IrqsOK, HeldOK, Held, ToCome, RegionsOf, DmaOf, Board,
         Bare, resources
<1>6. FilesOK'
  BY DEF LifecycleInv, TypeOK, FilesOK, Board
<1>7. ASSUME clean' PROVE CleanOK'
  <2>1. \A n \in Slots : RegionsOf(n)' = RegionsOf(n) /\ DmaOf(n)' = DmaOf(n)
    BY <1>c DEF LifecycleInv, BoardOK, RegionsOf, DmaOf, Bare
  <2>2. \A n \in Slots : n >= card_num => pdx[n].mem = {} /\ pdx[n].dma = {}
    BY DEF LifecycleInv, BoardOK, NoBoard, Bare
  <2>3. card_num = 0 => files = {}
    BY DEF LifecycleInv, TypeOK, FilesOK, SlotsOK, Slots
  <2> QED
    BY <1>7, <1>c, <2>1, <2>2, <2>3 DEF LifecycleInv, TypeOK, CleanOK, CdevsOf, ToCome, resources
<1> QED
  BY <1>1, <1>2, <1>3, <1>4, <1>5, <1>6, <1>7 DEF LifecycleInv

LEMMA ExitInv ==
  ASSUME LifecycleInv, Exit
  PROVE  LifecycleInv'
<1> USE Numbers DEF Exit, AtBoard, SettingUp, Cleanup, Dma
<1>1. TypeOK'
  BY DEF LifecycleInv, TypeOK, resources
<1>2. SlotsOK'
  BY DEF LifecycleInv, TypeOK, SlotsOK, Board, NoBoard
<1>3. ASSUME NEW n \in Slots PROVE BoardOK(n)'
  BY DEF LifecycleInv, TypeOK, SlotsOK, BoardOK, Board, NoBoard, Device, Bare
<1>4. IrqsOK'
  BY DEF LifecycleInv, TypeOK, SlotsOK, BoardOK, IrqsOK, HasIrq, Board, resources
<1>5. HeldOK'
  BY DEF LifecycleInv, TypeOK, SlotsOK, BoardOK, IrqsOK, HeldOK, Held, ToCome, RegionsOf, DmaOf, Board,
         Bare, resources
<1>6. FilesOK'
  BY DEF LifecycleInv, TypeOK, FilesOK, Board
<1>7. ASSUME clean' PROVE CleanOK'
  BY <1>7 DEF LifecycleInv, TypeOK, SlotsOK, BoardOK, IrqsOK, FilesOK, CleanOK, CdevsOf, ToCome,
     RegionsOf, DmaOf, NothingHeld, Board, Bare, resources
<1> QED
  BY <1>1, <1>2, <1>3, <1>4, <1>5, <1>6, <1>7 DEF LifecycleInv

LEMMA AddCdevInv ==
  ASSUME LifecycleInv, AddCdev
  PROVE  LifecycleInv'
<1> USE Numbers DEF AddCdev, Outcomes, AtBoard, SettingUp, Cleanup, Dma
<1>1. TypeOK'
  BY DEF LifecycleInv, TypeOK, resources
<1>2. SlotsOK'
  BY DEF LifecycleInv, TypeOK, SlotsOK, Board, NoBoard
<1>3. ASSUME NEW n \in Slots PROVE BoardOK(n)'
  BY DEF LifecycleInv, TypeOK, SlotsOK, BoardOK, Board, NoBoard, Device, Bare
<1>4. IrqsOK'
  BY DEF LifecycleInv, TypeOK, SlotsOK, BoardOK, IrqsOK, HasIrq, Board, resources
<1>5. HeldOK'
  BY DEF LifecycleInv, TypeOK, SlotsOK, BoardOK, IrqsOK, HeldOK, Held, ToCome, RegionsOf, DmaOf, Board,
         Bare, resources
<1>6. FilesOK'
  BY DEF LifecycleInv, TypeOK, FilesOK, Board
<1>7. ASSUME clean' PROVE CleanOK'
  BY <1>7 DEF LifecycleInv, TypeOK, SlotsOK, BoardOK, IrqsOK, FilesOK, CleanOK, CdevsOf, ToCome,
     RegionsOf, DmaOf, NothingHeld, Board, Bare, resources
<1> QED
  BY <1>1, <1>2, <1>3, <1>4, <1>5, <1>6, <1>7 DEF LifecycleInv

LEMMA EnableInv ==
  ASSUME LifecycleInv, Enable
  PROVE  LifecycleInv'
<1> USE Numbers DEF Enable, Outcomes, AtBoard, SettingUp, Cleanup, Dma
<1>1. TypeOK'
  BY DEF LifecycleInv, TypeOK, resources
<1>2. SlotsOK'
  BY DEF LifecycleInv, TypeOK, SlotsOK, Board, NoBoard
<1>3. ASSUME NEW n \in Slots PROVE BoardOK(n)'
  <2>1. n = card_num => Passed' = {}
    BY DEF LifecycleInv, SlotsOK, Device, Regions, Passed
  <2>2. BoardOK(n) /\ pc = "enable" /\ cnt' = 0 /\ pc' \in {"scan", "regions"}
    BY DEF LifecycleInv
  <2>3. UNCHANGED <<card_num, pdx>>
    OBVIOUS
  <2> HIDE DEF Enable
  <2>4. CASE pc' = "scan"
    BY <2>2, <2>3, <2>4 DEF BoardOK, Bare
  <2>5. CASE pc' = "regions"
    <3>1. pdx[n] = pdx'[n] /\ n \in Nat /\ 0 <= PCI_MAX_NUM_REGS
      BY <2>3
    <3>2. n = card_num => pdx[n].mem = Passed' /\ pdx[n].dma = {} /\ ~ pdx[n].irq
      BY <2>1, <2>2 DEF BoardOK, Bare
    <3> HIDE Constants, Numbers
    <3> QED
      BY <2>2, <2>3, <2>5, <3>1, <3>2 DEF BoardOK, Bare
  <2> QED
    BY <2>2, <2>4, <2>5
<1>4. IrqsOK'
  BY DEF LifecycleInv, TypeOK, SlotsOK, BoardOK, IrqsOK, HasIrq, Board, resources
<1>5. HeldOK'
  BY DEF LifecycleInv, TypeOK, SlotsOK, BoardOK, IrqsOK, HeldOK, Held, ToCome, RegionsOf, DmaOf, Board,
         Bare, resources
<1>6. FilesOK'
  BY DEF LifecycleInv, TypeOK, FilesOK, Board
<1>7. ASSUME clean' PROVE CleanOK'
  BY <1>7 DEF LifecycleInv, TypeOK, SlotsOK, BoardOK, IrqsOK, FilesOK, CleanOK, CdevsOf, ToCome,
     RegionsOf, DmaOf, NothingHeld, Board, Bare, resources
<1> QED
  BY <1>1, <1>2, <1>3, <1>4, <1>5, <1>6, <1>7 DEF LifecycleInv

LEMMA UndoInv ==
  ASSUME LifecycleInv, Undo
  PROVE  LifecycleInv'
<1> USE Numbers DEF Undo, Deleted, AtBoard, SettingUp, Cleanup, Dma
<1>1. TypeOK'
  BY DEF LifecycleInv, TypeOK, resources
<1>2. SlotsOK'
  BY DEF LifecycleInv, TypeOK, SlotsOK, Board, NoBoard
<1>3. ASSUME NEW n \in Slots PROVE BoardOK(n)'
  BY DEF LifecycleInv, TypeOK, SlotsOK, BoardOK, Board, NoBoard, Device, Bare
<1>4. IrqsOK'
  BY DEF LifecycleInv, TypeOK, SlotsOK, BoardOK, IrqsOK, HasIrq, Board, resources
<1>5. HeldOK'
  BY DEF LifecycleInv, TypeOK, SlotsOK, BoardOK, IrqsOK, HeldOK, Held, ToCome, RegionsOf, DmaOf, Board,
         Bare, resources
<1>6. FilesOK'
  BY DEF LifecycleInv, TypeOK, FilesOK, Board
<1>7. ASSUME clean' PROVE CleanOK'
  BY <1>7 DEF LifecycleInv, TypeOK, SlotsOK, BoardOK, IrqsOK, FilesOK, CleanOK, CdevsOf, ToCome,
     RegionsOf, DmaOf, NothingHeld, Board, Bare, resources
<1> QED
  BY <1>1, <1>2, <1>3, <1>4, <1>5, <1>6, <1>7 DEF LifecycleInv

LEMMA RmmodInv ==
  ASSUME LifecycleInv, Rmmod
  PROVE  LifecycleInv'
<1> USE Numbers DEF Rmmod, AtBoard, SettingUp, Cleanup, Dma
<1>1. TypeOK'
  BY DEF LifecycleInv, TypeOK, resources
<1>2. SlotsOK'
  BY DEF LifecycleInv, TypeOK, SlotsOK, Board, NoBoard
<1>3. ASSUME NEW n \in Slots PROVE BoardOK(n)'
  BY DEF LifecycleInv, TypeOK, SlotsOK, BoardOK, Board, NoBoard, Device, Bare
<1>4. IrqsOK'
  BY DEF LifecycleInv, TypeOK, SlotsOK, BoardOK, IrqsOK, HasIrq, Board, resources
<1>5. HeldOK'
  BY DEF LifecycleInv, TypeOK, SlotsOK, BoardOK, IrqsOK, HeldOK, Held, ToCome, RegionsOf, DmaOf, Board,
         Bare, resources
<1>6. FilesOK'
  BY DEF LifecycleInv, TypeOK, FilesOK, Board
<1>7. ASSUME clean' PROVE CleanOK'
  <2>1. \A n \in Slots : n >= card_num => pdx[n].mem = {} /\ pdx[n].dma = {}
    BY DEF LifecycleInv, BoardOK, NoBoard, Bare
  <2> QED
    BY <1>7, <2>1 DEF LifecycleInv, CleanOK, CdevsOf, ToCome, RegionsOf, DmaOf, resources
<1> QED
  BY <1>1, <1>2, <1>3, <1>4, <1>5, <1>6, <1>7 DEF LifecycleInv

LEMMA UnregisterChrdevInv ==
  ASSUME LifecycleInv, UnregisterChrdev
  PROVE  LifecycleInv'
<1> USE Numbers DEF UnregisterChrdev, AtBoard, SettingUp, Cleanup, Dma
<1>1. TypeOK'
  BY DEF LifecycleInv, TypeOK, resources
<1>2. SlotsOK'
  BY DEF LifecycleInv, TypeOK, SlotsOK, Board, NoBoard
<1>3. ASSUME NEW n \in Slots PROVE BoardOK(n)'
  BY DEF LifecycleInv, TypeOK, SlotsOK, BoardOK, Board, NoBoard, Device, Bare
<1>4. IrqsOK'
  <2>1. \A n \in Slots : n < PCI_MAX_DEV
    BY DEF Slots
  <2> QED
    BY <2>1 DEF LifecycleInv, TypeOK, IrqsOK, resources
<1>5. HeldOK'
  BY DEF LifecycleInv, TypeOK, SlotsOK, BoardOK, IrqsOK, HeldOK, Held, ToCome, RegionsOf, DmaOf, Board,
         Bare, resources
<1>6. FilesOK'
  BY DEF LifecycleInv, TypeOK, FilesOK, Board
<1>7. ASSUME clean' PROVE CleanOK'
  BY <1>7 DEF LifecycleInv, TypeOK, SlotsOK, BoardOK, IrqsOK, FilesOK, CleanOK, CdevsOf, ToCome,
     RegionsOf, DmaOf, NothingHeld, Board, Bare, resources
<1> QED
  BY <1>1, <1>2, <1>3, <1>4, <1>5, <1>6, <1>7 DEF LifecycleInv

LEMMA CleanupDoneInv ==
  ASSUME LifecycleInv, CleanupDone
  PROVE  LifecycleInv'
<1> USE Numbers DEF CleanupDone, AtBoard, SettingUp, Cleanup, Dma
<1>1. TypeOK'
  BY DEF LifecycleInv, TypeOK, resources
<1>2. SlotsOK'
  BY DEF LifecycleInv, TypeOK, SlotsOK, Board, NoBoard
<1>3. ASSUME NEW n \in Slots PROVE BoardOK(n)'
  BY DEF LifecycleInv, TypeOK, SlotsOK, BoardOK, Board, NoBoard, Device, Bare
<1>4. IrqsOK'
  BY DEF LifecycleInv, TypeOK, SlotsOK, BoardOK, IrqsOK, HasIrq, Board, resources
<1>5. HeldOK'
  BY DEF LifecycleInv, TypeOK, SlotsOK, BoardOK, IrqsOK, HeldOK, Held, ToCome, RegionsOf, DmaOf, Board,
         Bare, resources
<1>6. FilesOK'
  BY DEF LifecycleInv, TypeOK, FilesOK, Board
<1>7. ASSUME clean' PROVE CleanOK'
  <2>1. \A n \in Slots : n >= cnt => n >= card_num
    <3>1. \A n \in Slots : n >= cnt => cnt \in Slots
      BY DEF Slots
    <3> QED
      BY <3>1 DEF LifecycleInv, SlotsOK, Slots
  <2>2. regions = {} /\ dma = {}
    BY <1>7, <2>1 DEF LifecycleInv, CleanOK, ToCome, RegionsOf, DmaOf
  <2> QED
    BY <1>7, <2>2 DEF LifecycleInv, CleanOK, CdevsOf, IrqsOK, NothingHeld, resources
<1> QED
  BY <1>1, <1>2, <1>3, <1>4, <1>5, <1>6, <1>7 DEF LifecycleInv

-----------------------------------------------------------------------------
\* SIPLX_board_init

LEMMA SkipRegionInv ==
  ASSUME LifecycleInv, SkipRegion
  PROVE  LifecycleInv'
<1> USE Numbers DEF SkipRegion, AtBoard, SettingUp, Cleanup, Dma
<1>1. TypeOK'
  BY DEF LifecycleInv, TypeOK, resources
<1>2. SlotsOK' /\ IrqsOK' /\ HeldOK' /\ FilesOK'
  BY DEF LifecycleInv, SlotsOK, IrqsOK, HeldOK, Held, ToCome, RegionsOf, DmaOf, FilesOK, resources
<1>3. ASSUME NEW n \in Slots PROVE BoardOK(n)'
  <2>1. n = card_num => Passed' = Passed
    BY DEF LifecycleInv, SlotsOK, Device, Regions, Passed
  <2> QED
    BY <2>1 DEF LifecycleInv, BoardOK, Device, Bare
<1>4. ASSUME clean' PROVE CleanOK'
  BY <1>4 DEF LifecycleInv, CleanOK, CdevsOf, ToCome, RegionsOf, DmaOf, resources
<1> QED
  BY <1>1, <1>2, <1>3, <1>4 DEF LifecycleInv

LEMMA RequestRegionInv ==
  ASSUME LifecycleInv, RequestRegion
  PROVE  LifecycleInv'
<1> USE Numbers DEF AtBoard, SettingUp, Cleanup, Dma
<1> DEFINE d == pdx[card_num].dev
<1>1. /\ pc = "regions" /\ cnt \in Regions /\ cnt \in Device.regions
      /\ card_num \in Slots /\ d \in 1 .. Len(Devices) /\ d = from
      /\ UNCHANGED <<card_num, from, chrdev, cdevs, irqs, dma, files>>
  BY DEF RequestRegion, LifecycleInv, SlotsOK, Regions
<1>a. Device.regions \subseteq Regions /\ Device.regions \subseteq Nat
  BY <1>1 DEF Device, Regions
<1>2. CASE /\ regions' = regions \cup {<<d, cnt>>}
           /\ Ioremap
           /\ pdx' = [pdx EXCEPT ![card_num].mem = @ \cup {cnt}]
           /\ cnt' = cnt + 1
           /\ UNCHANGED <<pc, result>>
  <2>0. \A n \in Slots :
          /\ pdx'[n] \in Board
          /\ (pdx'[n].init <=> pdx[n].init) /\ (pdx'[n].irq <=> pdx[n].irq)
          /\ pdx'[n].dev = pdx[n].dev /\ pdx'[n].dma = pdx[n].dma
          /\ pdx'[n].mem = IF n = card_num THEN pdx[n].mem \cup {cnt} ELSE pdx[n].mem
          /\ n # card_num => pdx'[n] = pdx[n]
    BY <1>1, <1>2 DEF LifecycleInv, TypeOK, Board
  <2>a. /\ mapped' \subseteq regions' /\ clean' \in BOOLEAN
        /\ clean' => clean /\ mapped' = mapped \cup {<<d, cnt>>}
    BY <1>2 DEF Ioremap, LifecycleInv, TypeOK
  <2>b. /\ \A n \in Slots : RegionsOf(n)' = IF n = card_num THEN RegionsOf(n) \cup {<<d, cnt>>}
                                            ELSE RegionsOf(n)
        /\ \A n \in Slots : DmaOf(n)' = DmaOf(n)
    <3>1. ASSUME NEW n \in Slots
          PROVE  RegionsOf(n)' = IF n = card_num THEN RegionsOf(n) \cup {<<d, cnt>>}
                                 ELSE RegionsOf(n)
      <4>1. CASE n # card_num
        <5>1. pdx'[n] = pdx[n]
          BY <2>0, <4>1
        <5> QED
          BY <4>1, <5>1 DEF RegionsOf
      <4>2. CASE n = card_num
        <5>1. pdx'[n].dev = d /\ pdx[n].dev = d /\ pdx'[n].mem = pdx[n].mem \cup {cnt}
          BY <2>0, <4>2
        <5> HIDE DEF d
        <5> QED
          BY <4>2, <5>1 DEF RegionsOf
      <4> QED
        BY <4>1, <4>2
    <3> QED
      BY <2>0, <3>1 DEF DmaOf
  <2>1. TypeOK'
    <3>1. pdx' \in [Slots -> Board]
      BY <1>2, <2>0 DEF LifecycleInv, TypeOK
    <3>2. regions' \subseteq (1 .. Len(Devices)) \X Regions
      BY <1>1, <1>2 DEF LifecycleInv, TypeOK
    <3>3. cnt' \in Nat
      BY <1>2
    <3> HIDE DEF d
    <3> QED
      BY <1>1, <1>2, <2>a, <3>1, <3>2, <3>3 DEF LifecycleInv, TypeOK
  <2>2. SlotsOK' /\ IrqsOK' /\ FilesOK'
    BY <1>1, <1>2, <2>0, SMTT(20)
    DEF LifecycleInv, TypeOK, SlotsOK, IrqsOK, HasIrq, FilesOK
  <2>3. ASSUME NEW n \in Slots PROVE BoardOK(n)'
    <3>1. cnt' <= PCI_MAX_NUM_REGS /\ Device' = Device
      BY <1>1, <1>2, <2>0 DEF Regions, Device
    <3>2. Passed' = Passed \cup {cnt}
      BY <1>1, <1>2, <1>a, <3>1 DEF Passed
    <3>3. BoardOK(n) /\ cnt' = cnt + 1 /\ pc' = "regions"
      BY <1>1, <1>2 DEF LifecycleInv
    <3> HIDE DEF d
    <3>4. CASE n = card_num
      <4>1. pdx'[n].mem = Passed' /\ pdx'[n].dma = {} /\ ~ pdx'[n].irq
        BY <1>1, <2>0, <3>2, <3>3, <3>4 DEF BoardOK
      <4>2. n = card_num' /\ n \in Nat
        BY <1>1, <3>4 DEF Slots
      <4> QED
        BY <3>1, <3>3, <4>1, <4>2 DEF BoardOK, Bare
    <3>5. CASE n # card_num
      BY <1>1, <2>0, <3>3, <3>5 DEF BoardOK
    <3> QED
      BY <3>4, <3>5
  <2>4. HeldOK'
    <3>1. \A n \in Slots : Held(n)
      BY <1>1 DEF LifecycleInv, HeldOK, ToCome
    <3>2. \A n \in Slots : Held(n)'
      BY <1>1, <1>2, <2>a, <2>b, <3>1 DEF Held
    <3> QED
      BY <1>1, <1>2, <3>2 DEF HeldOK
  <2>5. ASSUME clean' PROVE CleanOK'
    <3>1. CleanOK
      BY <2>a, <2>5 DEF LifecycleInv
    <3>2. \A h \in regions' : \E n \in Slots : ToCome(n)' /\ h \in RegionsOf(n)'
      BY <1>1, <1>2, <2>b, <3>1 DEF CleanOK, ToCome
    <3>3. \A h \in dma' : \E n \in Slots : ToCome(n)' /\ h \in DmaOf(n)'
      BY <1>1, <1>2, <2>b, <3>1 DEF CleanOK, ToCome
    <3> HIDE DEF d
    <3> QED
      BY <1>1, <1>2, <2>0, <3>1, <3>2, <3>3 DEF CleanOK, CdevsOf
  <2> QED
    BY <2>1, <2>2, <2>3, <2>4, <2>5 DEF LifecycleInv
<1>3. CASE /\ pc' = "undo" /\ result' = -1 /\ clean' = FALSE
           /\ UNCHANGED <<regions, mapped, pdx, cnt>>
  <2>1. TypeOK'
    BY <1>1, <1>3 DEF LifecycleInv, TypeOK
  <2>2. SlotsOK' /\ IrqsOK' /\ FilesOK'
    BY <1>1, <1>3 DEF LifecycleInv, TypeOK, SlotsOK, IrqsOK, HasIrq, FilesOK
  <2>4. HeldOK'
    BY <1>1, <1>3 DEF LifecycleInv, HeldOK, Held, ToCome, RegionsOf, DmaOf
  <2>3. \A n \in Slots : BoardOK(n)'
    BY <1>1, <1>3 DEF LifecycleInv, BoardOK, Device, Bare
  <2> QED
    BY <1>3, <2>1, <2>2, <2>3, <2>4 DEF LifecycleInv
<1> QED
  BY <1>2, <1>3 DEF RequestRegion

\* A board that is set up gets its slot, and the next one is looked for.
LEMMA BoardUsed ==
  ASSUME LifecycleInv, pc \in SettingUp, NEW b \in Board, NextBoard(b),
         b.dev = pdx[card_num].dev, b.mem = Device.regions,
         UNCHANGED <<from, files>>
  PROVE  /\ SlotsOK' /\ (\A n \in Slots : BoardOK(n)') /\ FilesOK'
         /\ pdx' \in [Slots -> Board] /\ card_num \in Slots
         /\ pc' = "scan" /\ card_num' = card_num + 1 /\ card_num' \in 0 .. PCI_MAX_DEV
         /\ result' = 0
         /\ \A n \in Slots : n # card_num => pdx'[n] = pdx[n]
         /\ pdx'[card_num].irq = b.irq /\ pdx'[card_num].mem = b.mem
         /\ pdx'[card_num].dma = b.dma /\ pdx'[card_num].dev = b.dev
<1> USE Numbers DEF AtBoard, SettingUp, Cleanup, Dma
<1> DEFINE u == [b EXCEPT !.init = TRUE]
<1>1. /\ u \in Board /\ u.init /\ u.irq = b.irq /\ u.mem = b.mem /\ u.dma = b.dma
      /\ u.dev = b.dev
  BY DEF Board
<1>2. card_num \in Slots /\ pc' = "scan" /\ card_num' = card_num + 1 /\ result' = 0
  BY DEF NextBoard
<1>3. /\ pdx' = [pdx EXCEPT ![card_num] = u] /\ pdx \in [Slots -> Board]
  BY DEF NextBoard, LifecycleInv, TypeOK
<1> HIDE DEF u
<1>4. /\ pdx' \in [Slots -> Board] /\ pdx'[card_num] = u
      /\ \A n \in Slots : n # card_num => pdx'[n] = pdx[n]
  BY <1>1, <1>2, <1>3
<1>5. SlotsOK'
  <2>1. /\ \A n \in Slots : pdx'[n].init <=> n < card_num'
        /\ \A n \in Slots : n < card_num' => pdx'[n].dev \in 1 .. from'
    BY <1>1, <1>2, <1>4, SMTT(20) DEF LifecycleInv, SlotsOK
  <2>2. \A m, n \in Slots : m < n /\ n < card_num' => pdx'[m].dev < pdx'[n].dev
    BY <1>1, <1>2, <1>4, SMTT(20) DEF LifecycleInv, SlotsOK
  <2>3. card_num' \in Slots => pdx'[card_num'].mem = {}
    BY <1>2, <1>4 DEF LifecycleInv, BoardOK, NoBoard
  <2> QED
    BY <1>2, <2>1, <2>2, <2>3 DEF SlotsOK
<1>6. ASSUME NEW n \in Slots PROVE BoardOK(n)'
  BY <1>1, <1>2, <1>4 DEF LifecycleInv, BoardOK, Device, Bare, NoBoard
<1>7. FilesOK'
  BY <1>1, <1>4 DEF LifecycleInv, TypeOK, FilesOK
<1>8. card_num' \in 0 .. PCI_MAX_DEV
  BY <1>2 DEF Slots
<1> QED
  BY <1>1, <1>2, <1>4, <1>5, <1>6, <1>7, <1>8

LEMMA RequestIrqInv ==
  ASSUME LifecycleInv, RequestIrq
  PROVE  LifecycleInv'
<1> USE Numbers DEF AtBoard, SettingUp, Cleanup, Dma
<1>1. /\ pc = "regions" /\ cnt = PCI_MAX_NUM_REGS /\ card_num \in Slots
      /\ pdx[card_num] \in Board /\ pdx[card_num].dev \in 1 .. Len(Devices)
      /\ UNCHANGED <<from, cnt, chrdev, cdevs, regions, mapped, dma, files>>
  BY DEF RequestIrq, LifecycleInv, TypeOK, SlotsOK
<1>2. pdx[card_num].mem = Device.regions /\ ~ pdx[card_num].irq
  <2>1. Passed = Device.regions
    BY <1>1 DEF Passed, Device, Regions
  <2> QED
    BY <1>1, <2>1 DEF LifecycleInv, BoardOK
<1>3. CASE Device.irq
  <2>1. PICK ok \in Outcomes("request_irq") :
          /\ irqs' = IF ok THEN irqs \cup {card_num} ELSE irqs
          /\ pdx' = [pdx EXCEPT ![card_num].irq = ok]
          /\ clean' = (clean /\ ok)
          /\ pc' = "work"
          /\ UNCHANGED <<card_num, result>>
    BY <1>3 DEF RequestIrq
  <2>2. ok \in BOOLEAN
    BY DEF Outcomes
  <2>3. /\ pdx' \in [Slots -> Board]
        /\ \A n \in Slots : n # card_num => pdx'[n] = pdx[n]
        /\ pdx'[card_num].dev = pdx[card_num].dev /\ pdx'[card_num].mem = pdx[card_num].mem
        /\ pdx'[card_num].dma = pdx[card_num].dma /\ (pdx'[card_num].irq <=> ok)
        /\ (pdx'[card_num].init <=> pdx[card_num].init)
    BY <1>1, <2>1, <2>2 DEF LifecycleInv, TypeOK, Board
  <2>4. Device' = Device /\ \A n \in Slots : RegionsOf(n)' = RegionsOf(n) /\ DmaOf(n)' = DmaOf(n)
    BY <2>1, <2>3 DEF Device, RegionsOf, DmaOf
  <2>5. TypeOK'
    BY <1>1, <2>1, <2>2, <2>3 DEF LifecycleInv, TypeOK
  <2>6. SlotsOK' /\ FilesOK'
    BY <1>1, <2>1, <2>3 DEF LifecycleInv, TypeOK, SlotsOK, FilesOK
  <2>7. ASSUME NEW n \in Slots PROVE BoardOK(n)'
    BY <1>1, <1>2, <2>1, <2>3, <2>4 DEF LifecycleInv, BoardOK, Bare
  <2>8. IrqsOK'
    BY <1>1, <1>2, <2>1, <2>2, <2>3 DEF LifecycleInv, IrqsOK
  <2>9. HeldOK'
    BY <1>1, <2>1, <2>2, <2>4 DEF LifecycleInv, HeldOK, Held, ToCome
  <2>10. ASSUME clean' PROVE CleanOK'
    BY <1>1, <2>1, <2>2, <2>3, <2>4, <2>10 DEF LifecycleInv, TypeOK, CleanOK, CdevsOf, ToCome
  <2> QED
    BY <2>5, <2>6, <2>7, <2>8, <2>9, <2>10 DEF LifecycleInv
<1>4. CASE ~ Device.irq
  <2>1. NextBoard(pdx[card_num]) /\ clean' = FALSE /\ UNCHANGED irqs
    BY <1>4 DEF RequestIrq
  <2>2. /\ SlotsOK' /\ (\A n \in Slots : BoardOK(n)') /\ FilesOK'
        /\ pdx' \in [Slots -> Board] /\ pc' = "scan" /\ card_num' \in 0 .. PCI_MAX_DEV
        /\ result' = 0
        /\ \A n \in Slots : n # card_num => pdx'[n] = pdx[n]
        /\ pdx'[card_num].irq = pdx[card_num].irq /\ pdx'[card_num].mem = pdx[card_num].mem
        /\ pdx'[card_num].dma = pdx[card_num].dma /\ pdx'[card_num].dev = pdx[card_num].dev
    BY <1>1, <1>2, <2>1, BoardUsed
  <2>3. \A n \in Slots : RegionsOf(n)' = RegionsOf(n) /\ DmaOf(n)' = DmaOf(n)
    BY <2>2 DEF RegionsOf, DmaOf
  <2>4. TypeOK'
    BY <1>1, <2>1, <2>2 DEF LifecycleInv, TypeOK
  <2>5. IrqsOK' /\ HeldOK'
    BY <1>1, <2>1, <2>2, <2>3, SMTT(20) DEF LifecycleInv, TypeOK, IrqsOK, HeldOK, Held, ToCome
  <2> QED
    BY <2>1, <2>2, <2>4, <2>5 DEF LifecycleInv
<1> QED
  BY <1>3, <1>4

LEMMA InitWorkInv ==
  ASSUME LifecycleInv, InitWork
  PROVE  LifecycleInv'
<1> USE Numbers DEF AtBoard, SettingUp, Cleanup, Dma
<1>1. /\ pc = "work" /\ card_num \in Slots
      /\ pdx[card_num] \in Board /\ pdx[card_num].dev \in 1 .. Len(Devices)
      /\ pdx[card_num].mem = Device.regions
      /\ UNCHANGED <<from, cnt, chrdev, cdevs, irqs, regions, mapped, dma, files, clean>>
  BY DEF InitWork, LifecycleInv, TypeOK, SlotsOK, BoardOK, resources
<1>2. CASE Device.plx9054
  <2>1. pc' = "pmem" /\ UNCHANGED <<card_num, result, pdx>>
    BY <1>2 DEF InitWork
  <2>2. TypeOK' /\ SlotsOK' /\ FilesOK'
    BY <1>1, <2>1 DEF LifecycleInv, TypeOK, SlotsOK, FilesOK
  <2>3. ASSUME NEW n \in Slots PROVE BoardOK(n)'
    BY <1>1, <2>1 DEF LifecycleInv, BoardOK, Bare, Device
  <2>4. IrqsOK' /\ HeldOK'
    BY <1>1, <2>1 DEF LifecycleInv, IrqsOK, HeldOK, Held, ToCome, RegionsOf, DmaOf
  <2>5. ASSUME clean' PROVE CleanOK'
    BY <1>1, <2>1, <2>5 DEF LifecycleInv, CleanOK, CdevsOf, ToCome, RegionsOf, DmaOf
  <2> QED
    BY <2>2, <2>3, <2>4, <2>5 DEF LifecycleInv
<1>3. CASE ~ Device.plx9054
  <2>1. NextBoard(pdx[card_num])
    BY <1>3 DEF InitWork
  <2>2. /\ SlotsOK' /\ (\A n \in Slots : BoardOK(n)') /\ FilesOK'
        /\ pdx' \in [Slots -> Board] /\ pc' = "scan" /\ card_num' \in 0 .. PCI_MAX_DEV
        /\ card_num' = card_num + 1 /\ result' = 0
        /\ \A n \in Slots : n # card_num => pdx'[n] = pdx[n]
        /\ pdx'[card_num].irq = pdx[card_num].irq /\ pdx'[card_num].mem = pdx[card_num].mem
        /\ pdx'[card_num].dma = pdx[card_num].dma /\ pdx'[card_num].dev = pdx[card_num].dev
    BY <1>1, <2>1, BoardUsed
  <2>3. \A n \in Slots : RegionsOf(n)' = RegionsOf(n) /\ DmaOf(n)' = DmaOf(n)
    BY <2>2 DEF RegionsOf, DmaOf
  <2>4. TypeOK'
    BY <1>1, <2>2 DEF LifecycleInv, TypeOK
  <2>5. IrqsOK' /\ HeldOK'
    BY <1>1, <2>2, <2>3, SMTT(20) DEF LifecycleInv, TypeOK, IrqsOK, HeldOK, Held, ToCome
  <2>6. ASSUME clean' PROVE CleanOK'
    BY <1>1, <2>2, <2>3, <2>6 DEF LifecycleInv, CleanOK, CdevsOf, ToCome
  <2> QED
    BY <2>2, <2>4, <2>5, <2>6 DEF LifecycleInv
<1> QED
  BY <1>2, <1>3

\* One block of DMA memory, or none, and on to the next block or the next card
LEMMA AllocatedInv ==
  ASSUME LifecycleInv, NEW member \in Dma, pc = member,
         NEW got \in SUBSET {member}, NEW b \in Board, Allocated(member, b),
         b.dev = pdx[card_num].dev, b.init <=> pdx[card_num].init,
         b.irq <=> pdx[card_num].irq, b.mem = pdx[card_num].mem,
         b.dma = pdx[card_num].dma \cup got,
         dma' = dma \cup {<<card_num, m>> : m \in got},
         clean' \in BOOLEAN, clean' => clean,
         UNCHANGED <<from, cnt, chrdev, cdevs, irqs, regions, mapped, files>>
  PROVE  LifecycleInv'
<1> USE Numbers DEF AtBoard, SettingUp, Cleanup, Dma
<1> DEFINE blocks == {<<card_num, m>> : m \in got}
<1>1. /\ card_num \in Slots /\ pdx[card_num] \in Board /\ pdx \in [Slots -> Board]
      /\ pdx[card_num].mem = Device.regions
      /\ pc \in SettingUp
  BY DEF LifecycleInv, TypeOK, BoardOK
<1>2. /\ SlotsOK' /\ (\A n \in Slots : BoardOK(n)') /\ FilesOK'
      /\ pdx' \in [Slots -> Board] /\ card_num' \in 0 .. PCI_MAX_DEV
      /\ result' \in {0, -1}
      /\ \A n \in Slots : n # card_num => pdx'[n] = pdx[n]
      /\ (pdx'[card_num].irq <=> b.irq) /\ pdx'[card_num].mem = b.mem
      /\ pdx'[card_num].dma = b.dma /\ pdx'[card_num].dev = b.dev
      /\ \/ pc' = "scan" /\ card_num' = card_num + 1 /\ result' = 0
         \/ pc' \in {"rpdscrpt", "wpdscrpt"} /\ UNCHANGED <<card_num, result>>
  <2>1. CASE member = "wpdscrpt"
    <3>1. NextBoard(b)
      BY <2>1 DEF Allocated
    <3> QED
      BY <1>1, <3>1, BoardUsed
  <2>2. CASE member # "wpdscrpt"
    <3>1. /\ pdx' = [pdx EXCEPT ![card_num] = b]
          /\ pc' \in {"rpdscrpt", "wpdscrpt"} /\ UNCHANGED <<card_num, result>>
      BY <2>2 DEF Allocated
    <3>2. /\ pdx' \in [Slots -> Board] /\ pdx'[card_num] = b
          /\ \A n \in Slots : n # card_num => pdx'[n] = pdx[n]
      BY <1>1, <3>1
    <3>3. SlotsOK' /\ FilesOK'
      BY <1>1, <3>1, <3>2 DEF LifecycleInv, TypeOK, SlotsOK, FilesOK
    <3>4. ASSUME NEW n \in Slots PROVE BoardOK(n)'
      BY <1>1, <3>1, <3>2 DEF LifecycleInv, BoardOK, Device, Bare
    <3>5. card_num \in 0 .. PCI_MAX_DEV /\ result \in {0, -1}
      BY DEF LifecycleInv, TypeOK
    <3> QED
      BY <3>1, <3>2, <3>3, <3>4, <3>5
  <2> QED
    BY <2>1, <2>2
<1>3. /\ \A n \in Slots : RegionsOf(n)' = RegionsOf(n)
      /\ \A n \in Slots : DmaOf(n)' = IF n = card_num THEN DmaOf(n) \cup blocks ELSE DmaOf(n)
  <2>1. ASSUME NEW n \in Slots, n # card_num
        PROVE  RegionsOf(n)' = RegionsOf(n) /\ DmaOf(n)' = DmaOf(n)
    BY <1>2, <2>1 DEF RegionsOf, DmaOf
  <2>2. ASSUME NEW n \in Slots, n = card_num
        PROVE  RegionsOf(n)' = RegionsOf(n) /\ DmaOf(n)' = DmaOf(n) \cup blocks
    <3>1. /\ pdx'[n].dev = pdx[n].dev /\ pdx'[n].mem = pdx[n].mem
          /\ pdx'[n].dma = pdx[n].dma \cup got
      BY <1>1, <1>2, <2>2
    <3>2. RegionsOf(n)' = RegionsOf(n)
      BY <3>1 DEF RegionsOf
    <3>3. DmaOf(n)' = {<<n, m>> : m \in pdx[n].dma \cup got}
      BY <3>1 DEF DmaOf
    <3> QED
      BY <2>2, <3>2, <3>3 DEF DmaOf
  <2> QED
    BY <2>1, <2>2
<1>4. TypeOK'
  <2>1. dma' \subseteq Slots \X Dma
    BY <1>1 DEF LifecycleInv, TypeOK
  <2> QED
    BY <1>2, <2>1 DEF LifecycleInv, TypeOK
<1>5. IrqsOK'
  BY <1>1, <1>2 DEF LifecycleInv, TypeOK, IrqsOK
<1>6. HeldOK'
  BY <1>1, <1>2, <1>3 DEF LifecycleInv, HeldOK, Held, ToCome
<1>7. ASSUME clean' PROVE CleanOK'
  <2>1. CleanOK
    BY <1>7 DEF LifecycleInv
  <2>2. \A h \in dma' : \E n \in Slots : ToCome(n)' /\ h \in DmaOf(n)'
    BY <1>1, <1>2, <1>3, <2>1 DEF CleanOK, ToCome
  <2>3. \A h \in regions' : \E n \in Slots : ToCome(n)' /\ h \in RegionsOf(n)'
    BY <1>1, <1>2, <1>3, <2>1 DEF CleanOK, ToCome
  <2>4. \A n \in Slots : n < card_num' => pdx'[n].irq
    BY <1>1, <1>2, <2>1 DEF CleanOK
  <2>5. \A n \in Slots : cdevs'[n] = CdevsOf(n)'
    BY <1>1, <1>2, <2>1 DEF CleanOK, CdevsOf
  <2> HIDE DEF blocks
  <2> QED
    BY <1>1, <1>2, <2>1, <2>2, <2>3, <2>4, <2>5 DEF CleanOK
<1> QED
  BY <1>2, <1>4, <1>5, <1>6, <1>7 DEF LifecycleInv

LEMMA MemAllocInv ==
  ASSUME LifecycleInv, NEW member \in Dma, SI_MemAlloc_Cont(member)
  PROVE  LifecycleInv'
<1> USE Numbers DEF AtBoard, SettingUp, Cleanup, Dma
<1> DEFINE board == pdx[card_num]
           more == [board EXCEPT !.dma = @ \cup {member}]
<1>1. PICK ok \in Outcomes("__get_free_pages"), oops \in BOOLEAN :
        /\ clean' = (clean /\ ok)
        /\ IF ok
           THEN /\ dma' = dma \cup {<<card_num, member>>}
                /\ Allocated(member, more)
           ELSE /\ UNCHANGED dma
                /\ IF oops THEN pc' = "oops" /\ UNCHANGED <<card_num, result, pdx>>
                           ELSE Allocated(member, board)
  BY DEF SI_MemAlloc_Cont
<1>2. /\ pc = member /\ ok \in BOOLEAN
      /\ card_num \in Slots /\ board \in Board
      /\ clean' \in BOOLEAN /\ (clean' => clean)
      /\ UNCHANGED <<from, cnt, chrdev, cdevs, irqs, regions, mapped, files>>
  BY <1>1 DEF SI_MemAlloc_Cont, Outcomes, LifecycleInv, TypeOK
<1>3. /\ more \in Board /\ more.dev = board.dev /\ (more.init <=> board.init)
      /\ (more.irq <=> board.irq) /\ more.mem = board.mem
      /\ more.dma = board.dma \cup {member}
  BY <1>2 DEF Board
<1> HIDE DEF more
<1>4. CASE ok
  <2>1. dma' = dma \cup {<<card_num, m>> : m \in {member}}
    BY <1>1, <1>4
  <2> QED
    BY <1>1, <1>2, <1>3, <1>4, <2>1, AllocatedInv DEF board
<1>5. CASE ~ ok /\ ~ oops
  <2>1. dma' = dma \cup {<<card_num, m>> : m \in {}} /\ board.dma = board.dma \cup {}
    BY <1>1, <1>5
  <2> QED
    BY <1>1, <1>2, <1>5, <2>1, AllocatedInv DEF board
<1>6. CASE ~ ok /\ oops
  <2>1. pc' = "oops" /\ ~ clean' /\ UNCHANGED <<card_num, result, pdx, dma>>
    BY <1>1, <1>6
  <2>2. TypeOK' /\ SlotsOK' /\ FilesOK'
    BY <1>2, <2>1 DEF LifecycleInv, TypeOK, SlotsOK, FilesOK
  <2>3. ASSUME NEW n \in Slots PROVE BoardOK(n)'
    BY <1>2, <2>1 DEF LifecycleInv, BoardOK, Bare, Device
  <2>4. IrqsOK' /\ HeldOK'
    BY <1>2, <2>1 DEF LifecycleInv, TypeOK, IrqsOK, HeldOK, Held, ToCome, RegionsOf, DmaOf
  <2> QED
    BY <2>1, <2>2, <2>3, <2>4 DEF LifecycleInv
<1> QED
  BY <1>4, <1>5, <1>6, <1>2

LEMMA OrderOutOfRangeInv ==
  ASSUME LifecycleInv, OrderOutOfRange
  PROVE  LifecycleInv'
<1>1. /\ pc = "pmem" /\ "pmem" \in Dma
      /\ card_num \in Slots /\ pdx[card_num] \in Board /\ clean \in BOOLEAN
      /\ Allocated("pmem", pdx[card_num])
      /\ UNCHANGED <<from, cnt, chrdev, cdevs, irqs, regions, mapped, dma, files, clean>>
  BY Numbers DEF OrderOutOfRange, resources, LifecycleInv, TypeOK, Dma, AtBoard, SettingUp
<1>2. /\ pdx[card_num].dma = pdx[card_num].dma \cup {}
      /\ dma' = dma \cup {<<card_num, m>> : m \in {}}
  BY <1>1
<1> QED
  BY <1>1, <1>2, AllocatedInv

-----------------------------------------------------------------------------
\* module_cleanup, one board at a time

LEMMA FreeIrqInv ==
  ASSUME LifecycleInv, FreeIrq
  PROVE  LifecycleInv'
<1> USE Numbers DEF AtBoard, SettingUp, Cleanup, Dma
<1>1. /\ pc = "free_irq" /\ pc' = "free_irq" /\ cnt \in Slots /\ cnt' = cnt + 1
      /\ irqs' = IF HasIrq(cnt) THEN irqs \ {cnt} ELSE irqs
      /\ cdevs' = IF HasIrq(cnt) THEN Deleted(cnt) ELSE cdevs
      /\ UNCHANGED <<card_num, from, result, pdx, chrdev, regions, mapped, dma, files, clean>>
  BY DEF FreeIrq, LifecycleInv, TypeOK, Slots
<1>2. /\ cdevs' \in [Slots -> Nat]
      /\ \A n \in Slots : cdevs'[n] = IF n = cnt /\ HasIrq(cnt) /\ cdevs[n] # 0
                                      THEN cdevs[n] - 1 ELSE cdevs[n]
  BY <1>1 DEF LifecycleInv, TypeOK, Deleted
<1>3. TypeOK'
  BY <1>1, <1>2, SMTT(20) DEF LifecycleInv, TypeOK
<1>4. SlotsOK' /\ FilesOK' /\ \A n \in Slots : BoardOK(n)'
  BY <1>1, SMTT(20) DEF LifecycleInv, SlotsOK, FilesOK, BoardOK, Device, Bare, Slots
<1>5. IrqsOK'
  <2>1. \A n \in Slots : n < cnt' <=> n < cnt \/ n = cnt
    BY <1>1
  <2>2. \A n \in Slots : HasIrq(n)' = HasIrq(n)
    BY <1>1 DEF HasIrq
  <2>3. cnt \in irqs => HasIrq(cnt)
    BY <1>1 DEF LifecycleInv, IrqsOK, SlotsOK, BoardOK, HasIrq, NoBoard
  <2> QED
    BY <1>1, <2>1, <2>2, <2>3 DEF LifecycleInv, TypeOK, IrqsOK
<1>6. HeldOK'
  BY <1>1 DEF LifecycleInv, HeldOK, Held, ToCome, RegionsOf, DmaOf
<1>7. ASSUME clean' PROVE CleanOK'
  <2>1. CleanOK
    BY <1>1, <1>7 DEF LifecycleInv
  <2>2. HasIrq(cnt) <=> cnt < card_num
    BY <1>1, <2>1 DEF LifecycleInv, SlotsOK, CleanOK, HasIrq
  <2>3. \A n \in Slots : cdevs'[n] = CdevsOf(n)'
    BY <1>1, <1>2, <2>1, <2>2 DEF CleanOK, CdevsOf
  <2> QED
    BY <1>1, <2>1, <2>3 DEF CleanOK, ToCome, RegionsOf, DmaOf
<1> QED
  BY <1>3, <1>4, <1>5, <1>6, <1>7 DEF LifecycleInv

\* Two boards have nothing in common.
LEMMA Apart ==
  ASSUME LifecycleInv, NEW m \in Slots, NEW n \in Slots, m # n, pdx[m].init
  PROVE  DmaOf(m) \cap DmaOf(n) = {} /\ RegionsOf(m) \cap RegionsOf(n) = {}
<1>1. DmaOf(m) \cap DmaOf(n) = {}
  BY DEF DmaOf
<1>2. CASE pdx[n].mem = {}
  BY <1>1, <1>2 DEF RegionsOf
<1>3. CASE pdx[n].mem # {}
  <2>1. m < card_num /\ m \in Nat /\ n \in Nat /\ card_num \in Nat
    BY Numbers DEF LifecycleInv, SlotsOK
  <2>2. n < card_num \/ n = card_num
    BY <1>3, <2>1 DEF LifecycleInv, BoardOK, NoBoard
  <2>3. pdx[m].dev \in Nat /\ pdx[n].dev \in Nat
    BY DEF LifecycleInv, TypeOK, Board
  <2>4. pdx[m].dev # pdx[n].dev
    BY <1>3, <2>1, <2>2, <2>3 DEF LifecycleInv, SlotsOK
  <2> QED
    BY <1>1, <2>4 DEF RegionsOf
<1> QED
  BY <1>2, <1>3

LEMMA FreeMemInv ==
  ASSUME LifecycleInv, FreeMem
  PROVE  LifecycleInv'
<1> USE Numbers DEF AtBoard, SettingUp, Cleanup, Dma
<1>1. /\ pc = "free_mem" /\ pc' = "free_mem" /\ cnt \in Slots /\ cnt' = cnt + 1 /\ pdx[cnt].init
      /\ regions' = regions \ RegionsOf(cnt)
      /\ mapped' = mapped \ RegionsOf(cnt)
      /\ dma' = dma \ DmaOf(cnt)
      /\ UNCHANGED <<card_num, from, result, pdx, chrdev, cdevs, irqs, files, clean>>
  BY DEF FreeMem, LifecycleInv, TypeOK, Slots
<1>2. \A n \in Slots : /\ RegionsOf(n)' = RegionsOf(n) /\ DmaOf(n)' = DmaOf(n)
                       /\ ToCome(n)' => ToCome(n) /\ n # cnt
                       /\ ToCome(n) /\ n # cnt => ToCome(n)'
  BY <1>1 DEF RegionsOf, DmaOf, ToCome
<1>3. TypeOK'
  BY <1>1 DEF LifecycleInv, TypeOK
<1>4. SlotsOK' /\ FilesOK' /\ IrqsOK'
  BY <1>1 DEF LifecycleInv, SlotsOK, FilesOK, IrqsOK, Slots
<1>5. \A n \in Slots : BoardOK(n)'
  BY <1>1 DEF LifecycleInv, BoardOK, Device, Bare
<1>6. HeldOK'
  <2>1. ASSUME NEW n \in Slots, ToCome(n)' PROVE Held(n)'
    <3>1. Held(n) /\ n # cnt
      BY <1>1, <1>2, <2>1 DEF LifecycleInv, HeldOK
    <3>2. RegionsOf(n) \cap RegionsOf(cnt) = {} /\ DmaOf(n) \cap DmaOf(cnt) = {}
      BY <1>1, <3>1, Apart
    <3> QED
      BY <1>1, <1>2, <3>1, <3>2 DEF Held
  <2> QED
    BY <1>1, <2>1 DEF HeldOK
<1>7. ASSUME clean' PROVE CleanOK'
  <2>1. CleanOK
    BY <1>1, <1>7 DEF LifecycleInv
  <2>2. \A h \in regions' : \E n \in Slots : ToCome(n)' /\ h \in RegionsOf(n)'
    BY <1>1, <1>2, <2>1 DEF CleanOK
  <2>3. \A h \in dma' : \E n \in Slots : ToCome(n)' /\ h \in DmaOf(n)'
    BY <1>1, <1>2, <2>1 DEF CleanOK
  <2> QED
    BY <1>1, <2>1, <2>2, <2>3 DEF CleanOK, CdevsOf
<1> QED
  BY <1>3, <1>4, <1>5, <1>6, <1>7 DEF LifecycleInv

-----------------------------------------------------------------------------
\* What is left when a load fails

\* While module_entry is at work the table only grows, and with it what the
\* kernel holds.
LEMMA RestGrows ==
  ASSUME RestOK, pc \notin Cleanup \cup {"out"}, pc' \notin Cleanup \cup {"out"},
         pc' = "undo" => result' # 0, chrdev' = chrdev,
         \A n \in Slots : RegionsOf(n) \subseteq RegionsOf(n)' /\ DmaOf(n) \subseteq DmaOf(n)',
         \A h \in regions' : h \in regions \/ \E n \in Slots : h \in RegionsOf(n)',
         \A h \in dma' : h \in dma \/ \E n \in Slots : h \in DmaOf(n)'
  PROVE  RestOK'
<1>1. \A n \in Slots : ToCome(n) /\ ToCome(n)'
  BY DEF ToCome, Cleanup
<1>2. \A h \in regions' : \E n \in Slots : h \in RegionsOf(n)'
  BY DEF RestOK, Cleanup
<1>3. \A h \in dma' : \E n \in Slots : h \in DmaOf(n)'
  BY DEF RestOK, Cleanup
<1> QED
  BY <1>1, <1>2, <1>3 DEF RestOK, CleanupGivesBack, Cleanup

LEMMA KeepsWhatItHas ==
  ASSUME NEW n \in Slots, pdx'[n].dev = pdx[n].dev \/ pdx[n].mem = {},
         pdx[n].mem \subseteq pdx'[n].mem, pdx[n].dma \subseteq pdx'[n].dma
  PROVE  RegionsOf(n) \subseteq RegionsOf(n)' /\ DmaOf(n) \subseteq DmaOf(n)'
<1>1. DmaOf(n) \subseteq DmaOf(n)'
  BY DEF DmaOf
<1>2. CASE pdx[n].mem = {}
  BY <1>1, <1>2 DEF RegionsOf
<1>3. CASE pdx'[n].dev = pdx[n].dev
  BY <1>1, <1>3 DEF RegionsOf
<1> QED
  BY <1>1, <1>2, <1>3

\* An action that leaves the table and what the kernel holds for it alone
LEMMA RestSame ==
  ASSUME RestOK, pc \notin Cleanup \cup {"out"}, pc' \notin Cleanup \cup {"out"},
         pc' = "undo" => result' # 0, UNCHANGED <<pdx, chrdev, regions, dma>>
  PROVE  RestOK'
  BY RestGrows DEF RegionsOf, DmaOf

\* A board that gets its slot keeps what it has.
LEMMA RestNextBoard ==
  ASSUME LifecycleInv, RestOK, pc \in SettingUp, NEW b \in Board,
         b.dev = pdx[card_num].dev, b.mem = pdx[card_num].mem,
         pdx[card_num].dma \subseteq b.dma,
         pdx' = [pdx EXCEPT ![card_num] = b] \/ NextBoard(b),
         pc' \notin Cleanup \cup {"out", "undo"},
         \A h \in dma' : h \in dma \/ \E m \in b.dma : h = <<card_num, m>>,
         UNCHANGED <<chrdev, regions>>
  PROVE  RestOK'
<1>1. card_num \in Slots /\ pdx \in [Slots -> Board]
  BY Numbers DEF AtBoard, LifecycleInv, TypeOK
<1> DEFINE u == [b EXCEPT !.init = TRUE]
<1>2. u.dev = b.dev /\ u.mem = b.mem /\ u.dma = b.dma
  BY DEF Board
<1>3. pdx' = [pdx EXCEPT ![card_num] = u] \/ pdx' = [pdx EXCEPT ![card_num] = b]
  BY DEF NextBoard
<1> HIDE DEF u
<1>4. ASSUME NEW n \in Slots
      PROVE  /\ pdx'[n].dev = pdx[n].dev /\ pdx'[n].mem = pdx[n].mem
             /\ pdx[n].dma \subseteq pdx'[n].dma
             /\ n = card_num => pdx'[n].dma = b.dma
  BY <1>1, <1>2, <1>3
<1>5. \A n \in Slots : RegionsOf(n) \subseteq RegionsOf(n)' /\ DmaOf(n) \subseteq DmaOf(n)'
  BY <1>4, KeepsWhatItHas
<1>6. \A n \in Slots : n = card_num => \A m \in b.dma : <<n, m>> \in DmaOf(n)'
  BY <1>4 DEF DmaOf
<1>7. \A h \in dma' : h \in dma \/ \E n \in Slots : h \in DmaOf(n)'
  BY <1>1, <1>6
<1>8. pc \notin Cleanup \cup {"out"}
  BY DEF SettingUp, Cleanup, Dma
<1> QED
  BY <1>5, <1>7, <1>8, RestGrows

LEMMA RestTakeDevice ==
  ASSUME LifecycleInv, RestOK, TakeDevice
  PROVE  RestOK'
<1>1. /\ card_num \in Slots /\ pdx \in [Slots -> Board]
      /\ pdx[card_num].mem = {}
  BY DEF TakeDevice, LifecycleInv, TypeOK, Slots, BoardOK, Bare
<1>2. \A n \in Slots : /\ pdx'[n].mem = pdx[n].mem /\ pdx'[n].dma = pdx[n].dma
                       /\ n # card_num => pdx'[n].dev = pdx[n].dev
  BY <1>1 DEF TakeDevice, Board
<1>3. ASSUME NEW n \in Slots
      PROVE  RegionsOf(n) \subseteq RegionsOf(n)' /\ DmaOf(n) \subseteq DmaOf(n)'
  <2>1. /\ pdx'[n].dev = pdx[n].dev \/ pdx[n].mem = {}
        /\ pdx[n].mem \subseteq pdx'[n].mem /\ pdx[n].dma \subseteq pdx'[n].dma
    BY <1>1, <1>2
  <2> QED
    BY <2>1, KeepsWhatItHas
<1> QED
  BY <1>3, RestGrows DEF TakeDevice, resources, Cleanup

LEMMA RestNoMoreDevices ==
  ASSUME LifecycleInv, RestOK, NoMoreDevices
  PROVE  RestOK'
<1>1. /\ pc = "scan" /\ pdx \in [Slots -> Board]
      /\ card_num \in Nat /\ \A n \in Slots : n \in Nat
      /\ UNCHANGED <<card_num, from, chrdev, regions, dma>>
  BY Numbers DEF NoMoreDevices, LifecycleInv, TypeOK, resources
<1>2. ASSUME NEW n \in Slots, n >= card_num
      PROVE  pdx[n].mem = {} /\ pdx[n].dma = {}
  <2>1. BoardOK(n) /\ (n = card_num \/ n > card_num)
    BY <1>1, <1>2 DEF LifecycleInv
  <2> QED
    BY <1>1, <2>1 DEF BoardOK, Bare, NoBoard
<1>3. ASSUME NEW n \in Slots
      PROVE  /\ pdx'[n].mem = pdx[n].mem /\ pdx'[n].dma = pdx[n].dma
             /\ n # card_num => pdx'[n].dev = pdx[n].dev
  BY <1>1 DEF NoMoreDevices, Board
<1>4. \A n \in Slots : n = card_num => pdx[n].mem = {}
  <2>1. \A n \in Slots : n = card_num => n >= card_num
    BY <1>1
  <2> QED
    BY <1>2, <2>1
<1>5. \A n \in Slots : RegionsOf(n) \subseteq RegionsOf(n)' /\ DmaOf(n) \subseteq DmaOf(n)'
  BY <1>3, <1>4, KeepsWhatItHas
<1>6. CASE card_num = 0
  <2>1. pc' = "free_irq"
    BY <1>6 DEF NoMoreDevices
  <2>2. \A n \in Slots : ToCome(n) /\ ToCome(n)'
    BY <1>1, <2>1 DEF ToCome
  <2>3. /\ \A h \in regions' : \E n \in Slots : ToCome(n)' /\ h \in RegionsOf(n)'
        /\ \A h \in dma' : \E n \in Slots : ToCome(n)' /\ h \in DmaOf(n)'
    BY <1>1, <1>5, <2>2 DEF RestOK
  <2>4. ASSUME NEW n \in Slots, n >= card_num'
        PROVE  pdx'[n].mem = {} /\ pdx'[n].dma = {}
    <3>1. n >= card_num
      BY <1>1, <2>4
    <3> QED
      BY <1>2, <1>3, <3>1
  <2> QED
    BY <2>1, <2>3, <2>4 DEF RestOK, CleanupGivesBack, Cleanup
<1>7. CASE card_num # 0
  <2>1. pc' = "exit"
    BY <1>7 DEF NoMoreDevices
  <2>2. pc \notin Cleanup \cup {"out"} /\ pc' \notin Cleanup \cup {"out", "undo"}
    BY <1>1, <2>1 DEF Cleanup
  <2> QED
    BY <1>1, <1>5, <2>2, RestGrows
<1> QED
  BY <1>6, <1>7

\* The kernel frees a module whose load failed with boards in use, and its device
\* numbers stay.
LEMMA RestExit ==
  ASSUME RestOK, Exit
  PROVE  RestOK'
<1>1. pc = "exit" /\ chrdev /\ UNCHANGED <<pdx, chrdev, regions, dma>>
  BY DEF Exit, RestOK, resources, Cleanup
<1>2. CASE pc' = "in"
  BY <1>1, <1>2, RestSame DEF Cleanup
<1>3. CASE pc' = "out"
  BY <1>1, <1>3 DEF RestOK, CleanupGivesBack, Cleanup
<1> QED
  BY <1>2, <1>3 DEF Exit

LEMMA RestRequestRegion ==
  ASSUME LifecycleInv, RestOK, RequestRegion
  PROVE  RestOK'
<1> DEFINE got == <<pdx[card_num].dev, cnt>>
<1>1. /\ pc = "regions" /\ card_num \in Slots /\ pdx \in [Slots -> Board]
      /\ UNCHANGED <<chrdev, dma>>
  BY Numbers DEF RequestRegion, LifecycleInv, TypeOK, AtBoard, SettingUp
<1>2. CASE /\ regions' = regions \cup {got}
           /\ pdx' = [pdx EXCEPT ![card_num].mem = @ \cup {cnt}]
           /\ UNCHANGED <<pc, result>>
  <2>1. \A n \in Slots : /\ pdx'[n].dev = pdx[n].dev /\ pdx'[n].dma = pdx[n].dma
                         /\ pdx[n].mem \subseteq pdx'[n].mem
                         /\ n = card_num => cnt \in pdx'[n].mem
    BY <1>1, <1>2 DEF Board
  <2>2. ASSUME NEW n \in Slots
        PROVE  RegionsOf(n) \subseteq RegionsOf(n)' /\ DmaOf(n) \subseteq DmaOf(n)'
    <3>1. /\ pdx'[n].dev = pdx[n].dev
          /\ pdx[n].mem \subseteq pdx'[n].mem /\ pdx[n].dma \subseteq pdx'[n].dma
      BY <2>1
    <3> QED
      BY <3>1, KeepsWhatItHas
  <2>3. ASSUME NEW n \in Slots, n = card_num
        PROVE  <<pdx[n].dev, cnt>> \in RegionsOf(n)'
    <3>1. pdx'[n].dev = pdx[n].dev /\ cnt \in pdx'[n].mem
      BY <2>1, <2>3
    <3> QED
      BY <3>1 DEF RegionsOf
  <2>4. \A h \in regions' : h \in regions \/ \E n \in Slots : h \in RegionsOf(n)'
    BY <1>1, <1>2, <2>3
  <2>5. pc \notin Cleanup \cup {"out"} /\ pc' \notin Cleanup \cup {"out", "undo"}
    BY <1>1, <1>2 DEF Cleanup
  <2> QED
    BY <1>1, <2>2, <2>4, <2>5, RestGrows
<1>3. CASE pc' = "undo" /\ result' = -1 /\ UNCHANGED <<regions, pdx>>
  BY <1>1, <1>3, RestSame DEF Cleanup
<1> QED
  BY <1>2, <1>3 DEF RequestRegion

LEMMA RestRequestIrq ==
  ASSUME LifecycleInv, RestOK, RequestIrq
  PROVE  RestOK'
<1>1. /\ pc = "regions" /\ card_num \in Slots /\ pdx \in [Slots -> Board]
      /\ pdx[card_num] \in Board /\ UNCHANGED <<chrdev, dma, regions>>
  BY Numbers DEF RequestIrq, LifecycleInv, TypeOK, AtBoard, SettingUp
<1>2. CASE pc' = "work" /\ \E ok \in BOOLEAN : pdx' = [pdx EXCEPT ![card_num].irq = ok]
  <2>1. \A n \in Slots : /\ pdx'[n].dev = pdx[n].dev /\ pdx'[n].mem = pdx[n].mem
                         /\ pdx'[n].dma = pdx[n].dma
    BY <1>1, <1>2 DEF Board
  <2>2. \A n \in Slots : RegionsOf(n)' = RegionsOf(n) /\ DmaOf(n)' = DmaOf(n)
    BY <2>1 DEF RegionsOf, DmaOf
  <2> QED
    BY <1>1, <1>2, <2>2, RestGrows DEF Cleanup
<1>3. CASE NextBoard(pdx[card_num])
  <2>1. pc \in SettingUp /\ pc' \notin Cleanup \cup {"out", "undo"}
    BY <1>1, <1>3 DEF SettingUp, NextBoard, Cleanup
  <2> QED
    BY <1>1, <1>3, <2>1, RestNextBoard
<1> QED
  BY <1>2, <1>3 DEF RequestIrq, Outcomes

LEMMA RestInitWork ==
  ASSUME LifecycleInv, RestOK, InitWork
  PROVE  RestOK'
<1>1. /\ pc = "work" /\ card_num \in Slots /\ pdx[card_num] \in Board
      /\ UNCHANGED <<chrdev, dma, regions>>
  BY Numbers DEF InitWork, LifecycleInv, TypeOK, AtBoard, SettingUp, resources
<1>2. CASE pc' = "pmem" /\ UNCHANGED pdx
  BY <1>1, <1>2, RestSame DEF Cleanup
<1>3. CASE NextBoard(pdx[card_num])
  <2>1. pc \in SettingUp /\ pc' \notin Cleanup \cup {"out", "undo"}
    BY <1>1, <1>3 DEF SettingUp, NextBoard, Cleanup
  <2> QED
    BY <1>1, <1>3, <2>1, RestNextBoard
<1> QED
  BY <1>2, <1>3 DEF InitWork

\* A block of DMA memory, or none
LEMMA RestAllocated ==
  ASSUME LifecycleInv, RestOK, NEW member \in Dma, pc = member,
         NEW b \in Board, Allocated(member, b),
         b.dev = pdx[card_num].dev, b.mem = pdx[card_num].mem,
         pdx[card_num].dma \subseteq b.dma,
         \A h \in dma' : h \in dma \/ \E m \in b.dma : h = <<card_num, m>>,
         UNCHANGED <<chrdev, regions>>
  PROVE  RestOK'
<1>1. pc \in SettingUp
  BY DEF SettingUp
<1>2. /\ pdx' = [pdx EXCEPT ![card_num] = b] \/ NextBoard(b)
      /\ pc' \notin Cleanup \cup {"out", "undo"}
  BY DEF Allocated, NextBoard, Cleanup, Dma
<1> QED
  BY <1>1, <1>2, RestNextBoard

LEMMA RestMemAlloc ==
  ASSUME LifecycleInv, RestOK, NEW member \in Dma, SI_MemAlloc_Cont(member)
  PROVE  RestOK'
<1> DEFINE board == pdx[card_num]
           more == [board EXCEPT !.dma = @ \cup {member}]
<1>1. /\ pc = member /\ board \in Board /\ UNCHANGED <<chrdev, regions>>
  BY Numbers DEF SI_MemAlloc_Cont, LifecycleInv, TypeOK, AtBoard, SettingUp
<1>2. /\ more \in Board /\ more.dev = board.dev /\ more.mem = board.mem
      /\ more.dma = board.dma \cup {member}
  BY <1>1 DEF Board
<1> HIDE DEF more
<1>3. CASE dma' = dma \cup {<<card_num, member>>} /\ Allocated(member, more)
  <2>1. \A h \in dma' : h \in dma \/ \E m \in more.dma : h = <<card_num, m>>
    BY <1>2, <1>3
  <2>2. board.dma \subseteq more.dma
    BY <1>2
  <2> QED
    BY <1>1, <1>2, <1>3, <2>1, <2>2, RestAllocated
<1>4. CASE dma' = dma /\ Allocated(member, board)
  BY <1>1, <1>4, RestAllocated
<1>5. CASE dma' = dma /\ pc' = "oops" /\ UNCHANGED <<result, pdx>>
  BY <1>1, <1>5, RestSame DEF Cleanup, Dma
<1> QED
  BY <1>3, <1>4, <1>5 DEF SI_MemAlloc_Cont, more

LEMMA RestOrderOutOfRange ==
  ASSUME LifecycleInv, RestOK, OrderOutOfRange
  PROVE  RestOK'
<1>1. /\ pc = "pmem" /\ "pmem" \in Dma /\ pdx[card_num] \in Board
      /\ Allocated("pmem", pdx[card_num]) /\ UNCHANGED <<chrdev, regions, dma>>
  BY Numbers DEF OrderOutOfRange, resources, LifecycleInv, TypeOK, Dma, AtBoard, SettingUp
<1> QED
  BY <1>1, RestAllocated

\* Cleaning up begins: no board but the one that failed holds anything from
\* card_num on.
LEMMA RestBegins ==
  ASSUME LifecycleInv, RestOK, Undo \/ Rmmod
  PROVE  RestOK'
<1>1. /\ pc \in {"undo", "in"} /\ pc' = "free_irq"
      /\ UNCHANGED <<card_num, from, result, pdx, chrdev, regions, dma>>
  BY DEF Undo, Rmmod, resources
<1>2. \A n \in Slots : n >= card_num =>
        /\ pdx[n].dma = {}
        /\ pdx[n].mem # {} => pc = "undo" /\ n = card_num
  BY <1>1, Numbers DEF LifecycleInv, BoardOK, NoBoard, Bare
<1>3. pc = "undo" => result # 0 /\ pdx[card_num].dev = from
  BY DEF RestOK, LifecycleInv, SlotsOK, AtBoard
<1>4. \A n \in Slots : ToCome(n) /\ ToCome(n)' /\ RegionsOf(n)' = RegionsOf(n) /\ DmaOf(n)' = DmaOf(n)
  BY <1>1 DEF ToCome, RegionsOf, DmaOf
<1>5. /\ \A h \in regions' : \E n \in Slots : ToCome(n)' /\ h \in RegionsOf(n)'
      /\ \A h \in dma' : \E n \in Slots : ToCome(n)' /\ h \in DmaOf(n)'
  BY <1>1, <1>4 DEF RestOK
<1>6. (\A n \in Slots : n >= card_num =>
         pdx[n].dma = {} /\ (pdx[n].mem # {} => result # 0 /\ pdx[n].dev = from))'
  BY <1>1, <1>2, <1>3
<1> QED
  BY <1>1, <1>5, <1>6 DEF RestOK, CleanupGivesBack, Cleanup

\* The first loop, and the device numbers
LEMMA RestIrqs ==
  ASSUME LifecycleInv, RestOK, FreeIrq \/ UnregisterChrdev
  PROVE  RestOK'
<1>1. /\ pc = "free_irq" /\ UNCHANGED <<card_num, from, result, pdx, regions, dma>>
      /\ \/ pc' = "free_irq"
         \/ pc' = "free_mem" /\ cnt' = 0 /\ ~ chrdev'
  BY DEF FreeIrq, UnregisterChrdev
<1>2. \A n \in Slots : ToCome(n)' /\ RegionsOf(n)' = RegionsOf(n) /\ DmaOf(n)' = DmaOf(n)
  BY <1>1 DEF ToCome, RegionsOf, DmaOf, Slots
<1>3. /\ \A h \in regions' : \E n \in Slots : ToCome(n)' /\ h \in RegionsOf(n)'
      /\ \A h \in dma' : \E n \in Slots : ToCome(n)' /\ h \in DmaOf(n)'
  BY <1>1, <1>2 DEF RestOK
<1>4. (\A n \in Slots : n >= card_num =>
         pdx[n].dma = {} /\ (pdx[n].mem # {} => result # 0 /\ pdx[n].dev = from))'
  BY <1>1 DEF RestOK, Cleanup
<1> QED
  BY <1>1, <1>3, <1>4 DEF RestOK, CleanupGivesBack, Cleanup

LEMMA RestFreeMem ==
  ASSUME LifecycleInv, RestOK, FreeMem
  PROVE  RestOK'
<1>1. /\ pc = "free_mem" /\ pc' = "free_mem" /\ cnt \in Slots /\ cnt' = cnt + 1
      /\ regions' = regions \ RegionsOf(cnt) /\ dma' = dma \ DmaOf(cnt)
      /\ UNCHANGED <<card_num, from, result, pdx, chrdev>>
  BY DEF FreeMem, LifecycleInv, TypeOK, Slots
<1>2. \A n \in Slots : /\ RegionsOf(n)' = RegionsOf(n) /\ DmaOf(n)' = DmaOf(n)
                       /\ ToCome(n) /\ n # cnt => ToCome(n)'
  BY <1>1, Numbers DEF RegionsOf, DmaOf, ToCome
<1>3. /\ \A h \in regions' : \E n \in Slots : ToCome(n)' /\ h \in RegionsOf(n)'
      /\ \A h \in dma' : \E n \in Slots : ToCome(n)' /\ h \in DmaOf(n)'
  <2>1. ASSUME NEW h \in regions' PROVE \E n \in Slots : ToCome(n)' /\ h \in RegionsOf(n)'
    <3>1. PICK n \in Slots : ToCome(n) /\ h \in RegionsOf(n)
      BY <1>1, <2>1 DEF RestOK
    <3>2. n # cnt
      BY <1>1, <2>1, <3>1
    <3>3. ToCome(n)' /\ h \in RegionsOf(n)'
      BY <1>2, <3>1, <3>2
    <3> QED
      BY <3>3
  <2>2. ASSUME NEW h \in dma' PROVE \E n \in Slots : ToCome(n)' /\ h \in DmaOf(n)'
    <3>1. PICK n \in Slots : ToCome(n) /\ h \in DmaOf(n)
      BY <1>1, <2>2 DEF RestOK
    <3>2. n # cnt
      BY <1>1, <2>2, <3>1
    <3>3. ToCome(n)' /\ h \in DmaOf(n)'
      BY <1>2, <3>1, <3>2
    <3> QED
      BY <3>3
  <2> QED
    BY <2>1, <2>2
<1>4. (\A n \in Slots : n >= card_num =>
         pdx[n].dma = {} /\ (pdx[n].mem # {} => result # 0 /\ pdx[n].dev = from))'
  BY <1>1 DEF RestOK, Cleanup
<1> QED
  BY <1>1, <1>3, <1>4 DEF RestOK, CleanupGivesBack, Cleanup

\* The second loop has come to every board that is initialised.
LEMMA RestCleanupDone ==
  ASSUME LifecycleInv, RestOK, CleanupDone
  PROVE  RestOK'
<1>1. /\ pc = "free_mem" /\ pc' = "out" /\ ~ chrdev /\ irqs = {}
      /\ UNCHANGED <<from, result, chrdev, irqs, regions, dma>>
  BY DEF CleanupDone, RestOK, LifecycleInv, IrqsOK, resources, Cleanup
<1>2. \A n \in Slots : ToCome(n) => n >= card_num
  <2>1. \A n \in Slots : n >= cnt => cnt \in Slots
    BY Numbers DEF Slots
  <2>2. cnt \in Slots => cnt >= card_num
    BY Numbers DEF CleanupDone, LifecycleInv, SlotsOK, Slots
  <2> QED
    BY <1>1, <2>1, <2>2, Numbers DEF ToCome
<1>3. dma = {}
  BY <1>1, <1>2 DEF RestOK, DmaOf, Cleanup
<1>4. \A h \in regions : result # 0 /\ h[1] = from
  <2> SUFFICES ASSUME NEW h \in regions PROVE result # 0 /\ h[1] = from
    OBVIOUS
  <2>1. PICK n \in Slots : n >= card_num /\ h \in RegionsOf(n)
    BY <1>1, <1>2 DEF RestOK
  <2>2. pdx[n].mem # {} /\ h[1] = pdx[n].dev
    BY <2>1 DEF RegionsOf
  <2> QED
    BY <1>1, <2>1, <2>2 DEF RestOK, Cleanup
<1> QED
  BY <1>1, <1>3, <1>4 DEF RestOK, CleanupGivesBack, Cleanup

LEMMA RestStep ==
  ASSUME LifecycleInv, RestOK, [Next]_vars
  PROVE  RestOK'
<1>1. CASE Insmod
  BY <1>1 DEF Insmod, NothingHeld, RestOK, CleanupGivesBack, Cleanup
<1>2. CASE module_entry
  <2>1. CASE TakeDevice \/ NoMoreDevices \/ Exit
    BY <2>1, RestTakeDevice, RestNoMoreDevices, RestExit
  <2>2. CASE AddCdev \/ Enable
    <3>1. /\ pc \in {"add", "enable"} /\ pc' \in {"enable", "regions", "scan"}
          /\ UNCHANGED <<pdx, chrdev, regions, dma>>
      BY <2>2 DEF AddCdev, Enable, resources
    <3> QED
      BY <3>1, RestSame DEF Cleanup
  <2>3. CASE SkipRegion
    BY <2>3, RestSame DEF SkipRegion, resources, Cleanup
  <2>4. CASE SIPLX_board_init /\ ~ SkipRegion
    BY <2>4, RestRequestRegion, RestRequestIrq, RestInitWork, RestMemAlloc,
       RestOrderOutOfRange DEF SIPLX_board_init
  <2> QED
    BY <1>2, <2>1, <2>2, <2>3, <2>4, RestBegins DEF module_entry
<1>3. CASE Rmmod \/ module_cleanup
  BY <1>3, RestBegins, RestIrqs, RestFreeMem, RestCleanupDone DEF module_cleanup
<1>4. ASSUME UNCHANGED <<pc, card_num, from, cnt, result, pdx, resources>>
      PROVE  RestOK'
  BY <1>4 DEF RestOK, CleanupGivesBack, ToCome, RegionsOf, DmaOf, resources
<1>5. CASE \E n \in Slots : SIPLX_open(n) \/ SIPLX_release(n)
  BY <1>4, <1>5 DEF SIPLX_open, SIPLX_release
<1>6. CASE UNCHANGED vars
  BY <1>4, <1>6 DEF vars
<1> QED
  BY <1>1, <1>2, <1>3, <1>5, <1>6 DEF Next

-----------------------------------------------------------------------------
\* The invariant, and what follows from it

LEMMA LifecycleStep == LifecycleInv /\ [Next]_vars => LifecycleInv'
<1> SUFFICES ASSUME LifecycleInv, [Next]_vars PROVE LifecycleInv'
  OBVIOUS
<1>1. CASE Insmod
  BY <1>1, InsmodInv
<1>2. CASE module_entry
  <2>1. CASE TakeDevice \/ NoMoreDevices \/ Exit
    BY <2>1, TakeDeviceInv, NoMoreDevicesInv, ExitInv
  <2>2. CASE AddCdev \/ Enable \/ Undo
    BY <2>2, AddCdevInv, EnableInv, UndoInv
  <2>3. CASE SIPLX_board_init
    BY <2>3, SkipRegionInv, RequestRegionInv, RequestIrqInv, InitWorkInv, MemAllocInv,
       OrderOutOfRangeInv DEF SIPLX_board_init
  <2> QED
    BY <1>2, <2>1, <2>2, <2>3 DEF module_entry
<1>3. CASE Rmmod \/ module_cleanup
  BY <1>3, RmmodInv, FreeIrqInv, UnregisterChrdevInv, FreeMemInv, CleanupDoneInv
     DEF module_cleanup
<1>4. CASE \E n \in Slots : SIPLX_open(n) \/ SIPLX_release(n)
  BY <1>4, ProcessInv
<1>5. CASE UNCHANGED vars
  <2>1. UNCHANGED <<pc, card_num, from, cnt, result, pdx, chrdev, cdevs, irqs, regions, mapped,
                    dma, files, clean>>
    BY <1>5 DEF vars, resources
  <2>2. TypeOK' /\ SlotsOK' /\ \A n \in Slots : BoardOK(n)'
    BY <2>1 DEF LifecycleInv, TypeOK, SlotsOK, BoardOK, Passed, Device
  <2>3. IrqsOK' /\ HeldOK' /\ FilesOK'
    BY <2>1 DEF LifecycleInv, IrqsOK, HasIrq, HeldOK, Held, ToCome, RegionsOf, DmaOf, FilesOK
  <2>4. clean' => CleanOK'
    BY <2>1 DEF LifecycleInv, CleanOK, CdevsOf, ToCome, RegionsOf, DmaOf, NothingHeld
  <2> QED
    BY <2>2, <2>3, <2>4 DEF LifecycleInv
<1> QED
  BY <1>1, <1>2, <1>3, <1>4, <1>5 DEF Next

\* The driver's table, what the kernel holds for the driver and the files that
\* are open agree in every state, whichever calls of module_entry and
\* SIPLX_board_init fail (main.c, init.c).
THEOREM LifecycleInvariant == Spec => []LifecycleInv
<1> QED
  BY InitInv, LifecycleStep, PTL DEF Spec

\* Every variable keeps its type; the slot that module_entry works on stays
\* within the table.
THEOREM LifecycleTypeCorrect == Spec => []TypeOK
<1>1. LifecycleInv => TypeOK
  BY DEF LifecycleInv
<1> QED
  BY <1>1, LifecycleInvariant, PTL

\* module_cleanup frees an interrupt, a region or a block of memory only when the
\* driver has it, and so never twice and never one that was refused.
THEOREM CleanupReleasesWhatItHolds == Spec => []ReleasesWhatItHolds
<1>1. LifecycleInv => ReleasesWhatItHolds
  <2> SUFFICES ASSUME LifecycleInv PROVE ReleasesWhatItHolds
    OBVIOUS
  <2>1. cnt < PCI_MAX_DEV => cnt \in Slots
    BY Numbers, Constants DEF Slots
  <2>2. pc = "free_irq" /\ cnt < PCI_MAX_DEV /\ HasIrq(cnt) => cnt \in irqs
    BY <2>1, Numbers DEF LifecycleInv, IrqsOK
  <2>3. pc = "free_mem" /\ cnt < PCI_MAX_DEV =>
          RegionsOf(cnt) \subseteq regions /\ DmaOf(cnt) \subseteq dma
    BY <2>1, Numbers DEF LifecycleInv, HeldOK, ToCome, Held
  <2> QED
    BY <2>2, <2>3 DEF ReleasesWhatItHolds
<1> QED
  BY <1>1, LifecycleInvariant, PTL

\* SIPLX_board_init installs the interrupt handler after the card's regions and
\* module_cleanup takes it away before them: a handler that runs in between finds
\* its registers.
THEOREM HandlerFindsRegisters == Spec => []HandlerHasRegisters
<1>1. LifecycleInv => HandlerHasRegisters
  <2> SUFFICES ASSUME LifecycleInv, NEW n \in irqs
               PROVE  /\ RegistersOf(n) \subseteq regions
                      /\ clean => RegistersOf(n) \subseteq mapped
    BY DEF HandlerHasRegisters
  <2>1. n \in Slots /\ pdx[n].irq /\ pdx[n] # NoBoard
    BY DEF LifecycleInv, TypeOK, IrqsOK, NoBoard
  <2>2. RegionsOf(n) = RegistersOf(n)
    <3>1. pdx[n].mem = Devices[pdx[n].dev].regions
      BY <2>1, Numbers DEF LifecycleInv, BoardOK, Device
    <3> QED
      BY <3>1 DEF RegionsOf, RegistersOf
  <2>3. Held(n)
    BY <2>1 DEF LifecycleInv, IrqsOK, HeldOK, ToCome
  <2> QED
    BY <2>2, <2>3 DEF Held
<1> QED
  BY <1>1, LifecycleInvariant, PTL

\* A file is open only on a board whose regions are mapped: SIPLX_open refuses a
\* board that is not initialised, and module_cleanup runs when no file is open.
THEOREM OpenFilesHaveRegisters == Spec => []FilesHaveRegisters
<1>1. LifecycleInv => FilesHaveRegisters
  <2> SUFFICES ASSUME LifecycleInv, clean, NEW n \in files
               PROVE  RegistersOf(n) \subseteq mapped
    BY DEF FilesHaveRegisters
  <2>1. n \in Slots /\ n < card_num /\ pc \notin Cleanup \cup {"out"}
    BY DEF LifecycleInv, TypeOK, FilesOK, SlotsOK, CleanOK
  <2>2. RegionsOf(n) = RegistersOf(n)
    BY <2>1 DEF LifecycleInv, BoardOK, RegionsOf, RegistersOf
  <2> QED
    BY <2>1, <2>2 DEF LifecycleInv, HeldOK, ToCome, Held, Cleanup
<1> QED
  BY <1>1, LifecycleInvariant, PTL

\* When no call was refused and every board has an interrupt, a module that is
\* not loaded has given everything back: the device numbers, each cdev, each
\* interrupt, region and block of DMA memory.
THEOREM CleanUnloadHoldsNothing == Spec => []UnloadedHoldsNothing
<1>1. LifecycleInv => UnloadedHoldsNothing
  BY DEF LifecycleInv, CleanOK, UnloadedHoldsNothing
<1> QED
  BY <1>1, LifecycleInvariant, PTL

\* Whichever kernel call fails, and for whichever card, once module_cleanup has run
\* nothing is held but the regions of the card that SIPLX_board_init failed on: the
\* second loop ends at the first board that is not initialised, and every board
\* set up before it is.
THEOREM CleanupGivesBackTheRest == Spec => []CleanupGivesBack
<1>1. Init => RestOK
  BY DEF Init, RestOK, CleanupGivesBack, Cleanup
<1>2. LifecycleInv /\ RestOK /\ [Next]_vars => RestOK'
  BY RestStep
<1>3. RestOK => CleanupGivesBack
  BY DEF RestOK
<1> QED
  BY <1>1, <1>2, <1>3, LifecycleInvariant, PTL DEF Spec
=============================================================================
