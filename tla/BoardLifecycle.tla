--------------------------- MODULE BoardLifecycle ---------------------------
(***************************************************************************)
(* Loading and unloading the module: module_entry looks for cards, adds a  *)
(* character device for each and calls SIPLX_board_init, which requests    *)
(* the card's regions, its interrupt and its DMA memory; module_cleanup    *)
(* gives them back (main.c, init.c).  Meanwhile processes open and close   *)
(* the devices that are there.                                             *)
(***************************************************************************)
EXTENDS Integers, Sequences

CONSTANTS
  PCI_MAX_DEV,
  PCI_MAX_NUM_REGS,
  Devices,    \* the cards on the bus: [irq, plx9054, regions]
  Failures    \* the kernel calls that may fail

Regions == 0 .. PCI_MAX_NUM_REGS - 1
Calls == {"cdev_add", "pci_enable_device", "request_region", "request_irq",
          "ioremap", "__get_free_pages"}
Dma == {"pmem", "rpdscrpt", "wpdscrpt"}

ASSUME BoardLifecycleAssumption ==
  /\ PCI_MAX_DEV \in Nat \ {0}
  /\ PCI_MAX_NUM_REGS \in Nat
  /\ Devices \in Seq([irq : BOOLEAN, plx9054 : BOOLEAN, regions : SUBSET Regions])
  /\ Failures \subseteq Calls

VARIABLES
  pc,        \* where module_entry or module_cleanup is; "out" and "in" between
  card_num,
  from,      \* the device pci_get_device returned last, 0 at first
  cnt,       \* the loops' counter
  result,    \* 0, or an error
  pdx,       \* the driver's table of boards
  chrdev,    \* what the kernel holds for the module: the device numbers,
  cdevs,     \*   how often each slot's cdev is added,
  irqs,      \*   the slots whose handler is installed,
  regions,   \*   the regions requested, <<device, region>>,
  mapped,    \*   those of them that are mapped,
  dma,       \*   the blocks of DMA memory, <<slot, member>>
  files,     \* the slots on which a file is open
  clean      \* no call was refused, and every board has an interrupt (history)

resources == <<chrdev, cdevs, irqs, regions, mapped, dma>>
vars == <<pc, card_num, from, cnt, result, pdx, resources, files, clean>>

Slots == 0 .. PCI_MAX_DEV - 1

\* whether a kernel call succeeds
Outcomes(call) == IF call \in Failures THEN BOOLEAN ELSE {TRUE}

NoBoard == [dev |-> 0, init |-> FALSE, irq |-> FALSE, mem |-> {}, dma |-> {}]

Init ==
  /\ pc = "out"
  /\ card_num = 0 /\ from = 0 /\ cnt = 0 /\ result = 0
  /\ pdx = [n \in Slots |-> NoBoard]
  /\ chrdev = FALSE
  /\ cdevs = [n \in Slots |-> 0]
  /\ irqs = {} /\ regions = {} /\ mapped = {} /\ dma = {}
  /\ files = {}
  /\ clean = TRUE

NothingHeld ==
  ~ chrdev /\ (\A n \in Slots : cdevs[n] = 0) /\ irqs = {} /\ regions = {} /\ dma = {}

Device == Devices[pdx[card_num].dev]

-----------------------------------------------------------------------------
\* module_entry

\* On a machine where nothing was left behind.  When alloc_chrdev_region fails,
\* module_entry returns and nothing changes.
Insmod ==
  /\ pc = "out"
  /\ NothingHeld /\ files = {}
  /\ pc' = "scan"
  /\ chrdev' = TRUE
  /\ pdx' = [n \in Slots |-> NoBoard]
  /\ card_num' = 0 /\ from' = 0 /\ result' = 0
  /\ clean' = TRUE
  /\ UNCHANGED <<cnt, cdevs, irqs, regions, mapped, dma, files>>

MutantTakeDevice ==
  /\ pc = "scan"
  /\ card_num < PCI_MAX_DEV /\ from < Len(Devices)
  /\ pdx' = [pdx EXCEPT ![card_num].dev = from + 1]
  /\ pc' = "add"
  /\ UNCHANGED <<card_num, from, cnt, result, resources, files, clean>>

TakeDevice ==
  /\ pc = "scan"
  /\ card_num < PCI_MAX_DEV /\ from < Len(Devices)
  /\ pdx' = [pdx EXCEPT ![card_num].dev = from + 1]
  /\ from' = from + 1
  /\ pc' = "add"
  /\ UNCHANGED <<card_num, cnt, result, resources, files, clean>>

\* The loop ends; without a board the driver is unloaded.
NoMoreDevices ==
  /\ pc = "scan"
  /\ card_num = PCI_MAX_DEV \/ from = Len(Devices)
  /\ pdx' = [n \in Slots |-> IF n = card_num THEN [pdx[n] EXCEPT !.dev = 0] ELSE pdx[n]]
  /\ IF card_num = 0
     THEN pc' = "free_irq" /\ cnt' = 0 /\ result' = -1
     ELSE pc' = "exit" /\ UNCHANGED <<cnt, result>>
  /\ UNCHANGED <<card_num, from, resources, files, clean>>

\* The kernel keeps a module whose init returned 0, and frees one that did not.
Exit ==
  /\ pc = "exit"
  /\ pc' = IF result = 0 THEN "in" ELSE "out"
  /\ UNCHANGED <<card_num, from, cnt, result, pdx, resources, files, clean>>

AddCdev ==
  /\ pc = "add"
  /\ \E ok \in Outcomes("cdev_add") :
       /\ cdevs' = IF ok THEN [cdevs EXCEPT ![card_num] = @ + 1] ELSE cdevs
       /\ result' = IF ok THEN 0 ELSE -1
       /\ clean' = (clean /\ ok)
  /\ pc' = "enable"
  /\ UNCHANGED <<card_num, from, cnt, pdx, chrdev, irqs, regions, mapped, dma, files>>

\* A card that cannot be enabled is passed over, and its slot used again.
Enable ==
  /\ pc = "enable"
  /\ \E ok \in Outcomes("pci_enable_device") :
       /\ pc' = IF ok THEN "regions" ELSE "scan"
       /\ clean' = (clean /\ ok)
  /\ cnt' = 0
  /\ UNCHANGED <<card_num, from, result, pdx, resources, files>>

-----------------------------------------------------------------------------
\* SIPLX_board_init

SkipRegion ==
  /\ pc = "regions" /\ cnt < PCI_MAX_NUM_REGS
  /\ cnt \notin Device.regions
  /\ cnt' = cnt + 1
  /\ UNCHANGED <<pc, card_num, from, result, pdx, resources, files, clean>>

\* The address that ioremap returns is taken as it is.
Ioremap ==
  \E ok \in Outcomes("ioremap") :
    /\ mapped' = IF ok THEN mapped \cup {<<pdx[card_num].dev, cnt>>} ELSE mapped
    /\ clean' = (clean /\ ok)

MutantRequestRegion ==
  /\ pc = "regions" /\ cnt < PCI_MAX_NUM_REGS
  /\ cnt \in Device.regions
  /\ \E ok \in Outcomes("request_region") :
       /\ regions' = IF ok THEN regions \cup {<<pdx[card_num].dev, cnt>>} ELSE regions
       /\ mapped' = IF ok THEN mapped \cup {<<pdx[card_num].dev, cnt>>} ELSE mapped
       /\ clean' = (clean /\ ok)
  /\ pdx' = [pdx EXCEPT ![card_num].mem = @ \cup {cnt}]
  /\ cnt' = cnt + 1
  /\ UNCHANGED <<pc, card_num, from, result, chrdev, cdevs, irqs, dma, files>>

RequestRegion ==
  /\ pc = "regions" /\ cnt < PCI_MAX_NUM_REGS
  /\ cnt \in Device.regions
  /\ \E ok \in Outcomes("request_region") :
       IF ok
       THEN /\ regions' = regions \cup {<<pdx[card_num].dev, cnt>>}
            /\ Ioremap
            /\ pdx' = [pdx EXCEPT ![card_num].mem = @ \cup {cnt}]
            /\ cnt' = cnt + 1
            /\ UNCHANGED <<pc, result>>
       ELSE /\ pc' = "undo"
            /\ result' = -1
            /\ clean' = FALSE
            /\ UNCHANGED <<regions, mapped, pdx, cnt>>
  /\ UNCHANGED <<card_num, from, chrdev, cdevs, irqs, dma, files>>

MutantNextBoard(b) ==
  /\ pdx' = [pdx EXCEPT ![card_num] = [b EXCEPT !.init = b.irq]]
  /\ pc' = "scan"
  /\ card_num' = card_num + 1
  /\ result' = 0

\* board_init returns 0 with the board in use.
NextBoard(b) ==
  /\ pdx' = [pdx EXCEPT ![card_num] = [b EXCEPT !.init = TRUE]]
  /\ pc' = "scan"
  /\ card_num' = card_num + 1
  /\ result' = 0

RequestIrq ==
  /\ pc = "regions" /\ cnt = PCI_MAX_NUM_REGS
  /\ IF Device.irq
     THEN \E ok \in Outcomes("request_irq") :
            /\ irqs' = IF ok THEN irqs \cup {card_num} ELSE irqs
            /\ pdx' = [pdx EXCEPT ![card_num].irq = ok]
            /\ clean' = (clean /\ ok)
            /\ pc' = "work"
            /\ UNCHANGED <<card_num, result>>
     ELSE NextBoard(pdx[card_num]) /\ clean' = FALSE /\ UNCHANGED irqs
  /\ UNCHANGED <<from, cnt, chrdev, cdevs, regions, mapped, dma, files>>

InitWork ==
  /\ pc = "work"
  /\ IF Device.plx9054
     THEN pc' = "pmem" /\ UNCHANGED <<card_num, result, pdx>>
     ELSE NextBoard(pdx[card_num])
  /\ UNCHANGED <<from, cnt, resources, files, clean>>

\* SI_MemAlloc_Cont returns 1 or -1, both true.  When there is no memory it
\* tests ptr where it means *ptr, and writes to the page of a null pointer, an
\* oops or a write to some other page's flags.  The block of the card's own
\* memory may be out of range, and is then not allocated.
Allocated(member, b) ==
  IF member = "wpdscrpt"
  THEN NextBoard(b)
  ELSE /\ pdx' = [pdx EXCEPT ![card_num] = b]
       /\ pc' = IF member = "pmem" THEN "rpdscrpt" ELSE "wpdscrpt"
       /\ UNCHANGED <<card_num, result>>

SI_MemAlloc_Cont(member) ==
  LET board == pdx[card_num]
  IN /\ pc = member
     /\ \E ok \in Outcomes("__get_free_pages"), oops \in BOOLEAN :
          /\ clean' = (clean /\ ok)
          /\ IF ok
             THEN /\ dma' = dma \cup {<<card_num, member>>}
                  /\ Allocated(member, [board EXCEPT !.dma = @ \cup {member}])
             ELSE /\ UNCHANGED dma
                  /\ IF oops THEN pc' = "oops" /\ UNCHANGED <<card_num, result, pdx>>
                             ELSE Allocated(member, board)
     /\ UNCHANGED <<from, cnt, chrdev, cdevs, irqs, regions, mapped, files>>

OrderOutOfRange ==
  /\ pc = "pmem"
  /\ Allocated("pmem", pdx[card_num])
  /\ UNCHANGED <<from, cnt, resources, files, clean>>

SIPLX_board_init ==
  \/ SkipRegion \/ RequestRegion \/ RequestIrq \/ InitWork
  \/ \E member \in Dma : SI_MemAlloc_Cont(member)
  \/ OrderOutOfRange

MutantDeleted(n) == [cdevs EXCEPT ![n] = @ - 1]

\* cdev_del of a cdev that was never added takes nothing away.
Deleted(n) == [cdevs EXCEPT ![n] = IF @ = 0 THEN 0 ELSE @ - 1]

\* module_entry, after a board that could not be initialised
Undo ==
  /\ pc = "undo"
  /\ cdevs' = Deleted(card_num)
  /\ pc' = "free_irq"
  /\ cnt' = 0
  /\ UNCHANGED <<card_num, from, result, pdx, chrdev, irqs, regions, mapped, dma, files, clean>>

-----------------------------------------------------------------------------
\* module_cleanup

Rmmod ==
  /\ pc = "in" /\ files = {}   \* an open file keeps the module
  /\ pc' = "free_irq"
  /\ cnt' = 0
  /\ UNCHANGED <<card_num, from, result, pdx, resources, files, clean>>

MutantHasIrq(n) == pdx[n].init

HasIrq(n) == pdx[n].init /\ pdx[n].irq

FreeIrq ==
  /\ pc = "free_irq" /\ cnt < PCI_MAX_DEV
  /\ irqs' = IF HasIrq(cnt) THEN irqs \ {cnt} ELSE irqs
  /\ cdevs' = IF HasIrq(cnt) THEN Deleted(cnt) ELSE cdevs
  /\ cnt' = cnt + 1
  /\ UNCHANGED <<pc, card_num, from, result, pdx, chrdev, regions, mapped, dma, files, clean>>

UnregisterChrdev ==
  /\ pc = "free_irq" /\ cnt = PCI_MAX_DEV
  /\ chrdev' = FALSE
  /\ pc' = "free_mem"
  /\ cnt' = 0
  /\ UNCHANGED <<card_num, from, result, pdx, cdevs, irqs, regions, mapped, dma, files, clean>>

RegionsOf(n) == {<<pdx[n].dev, r>> : r \in pdx[n].mem}
MutantDmaOf(n) == {<<n, member>> : member \in pdx[n].dma \ {"wpdscrpt"}}

DmaOf(n) == {<<n, member>> : member \in pdx[n].dma}

FreeMem ==
  /\ pc = "free_mem" /\ cnt < PCI_MAX_DEV
  /\ pdx[cnt].init
  /\ regions' = regions \ RegionsOf(cnt)
  /\ mapped' = mapped \ RegionsOf(cnt)
  /\ dma' = dma \ DmaOf(cnt)
  /\ cnt' = cnt + 1
  /\ UNCHANGED <<pc, card_num, from, result, pdx, chrdev, cdevs, irqs, files, clean>>

\* The first slot that was not initialised ends the loop.
CleanupDone ==
  /\ pc = "free_mem"
  /\ cnt = PCI_MAX_DEV \/ (cnt < PCI_MAX_DEV /\ ~ pdx[cnt].init)
  /\ pc' = "out"
  /\ UNCHANGED <<card_num, from, cnt, result, pdx, resources, files, clean>>

-----------------------------------------------------------------------------
\* Processes

Live == pc \notin {"out", "oops"}

MutantOpen(n) ==
  /\ Live
  /\ cdevs[n] > 0 /\ n \notin files
  /\ result = 0 => pc \notin {"free_irq", "free_mem"}
  /\ files' = files \cup {n}
  /\ UNCHANGED <<pc, card_num, from, cnt, result, pdx, resources, clean>>

\* The kernel finds the cdev; open refuses a board that is not initialised.
SIPLX_open(n) ==
  /\ Live
  /\ cdevs[n] > 0 /\ n \notin files
  /\ result = 0 => pc \notin {"free_irq", "free_mem"}  \* rmmod lets nobody in
  /\ pdx[n].init
  /\ files' = files \cup {n}
  /\ UNCHANGED <<pc, card_num, from, cnt, result, pdx, resources, clean>>

SIPLX_release(n) ==
  /\ Live
  /\ n \in files
  /\ files' = files \ {n}
  /\ UNCHANGED <<pc, card_num, from, cnt, result, pdx, resources, clean>>

module_entry ==
  TakeDevice \/ NoMoreDevices \/ Exit \/ AddCdev \/ Enable \/ SIPLX_board_init \/ Undo

module_cleanup == FreeIrq \/ UnregisterChrdev \/ FreeMem \/ CleanupDone

Next ==
  \/ Insmod \/ module_entry
  \/ Rmmod \/ module_cleanup
  \/ \E n \in Slots : SIPLX_open(n) \/ SIPLX_release(n)

Spec == Init /\ [][Next]_vars

\* insmod and rmmod run on once they have begun.
FairSpec == Spec /\ WF_vars(module_entry) /\ WF_vars(module_cleanup)

-----------------------------------------------------------------------------
\* Properties

Board == [dev : 0 .. Len(Devices), init : BOOLEAN, irq : BOOLEAN,
          mem : SUBSET Regions, dma : SUBSET Dma]

TypeOK ==
  /\ pc \in {"out", "in", "scan", "add", "enable", "regions", "work", "exit", "undo",
             "free_irq", "free_mem", "oops"} \cup Dma
  /\ card_num \in 0 .. PCI_MAX_DEV
  /\ from \in 0 .. Len(Devices)
  /\ cnt \in Nat
  /\ result \in {0, -1}
  /\ pdx \in [Slots -> Board]
  /\ chrdev \in BOOLEAN
  /\ cdevs \in [Slots -> Nat]
  /\ irqs \subseteq Slots
  /\ mapped \subseteq regions /\ regions \subseteq (1 .. Len(Devices)) \X Regions
  /\ dma \subseteq Slots \X Dma
  /\ files \subseteq Slots
  /\ clean \in BOOLEAN

\* module_cleanup gives back only what the driver has: no interrupt, region or
\* block of memory that was refused, or was given back before, whichever call
\* failed while loading.
ReleasesWhatItHolds ==
  /\ pc = "free_irq" /\ cnt < PCI_MAX_DEV /\ HasIrq(cnt) => cnt \in irqs
  /\ pc = "free_mem" /\ cnt < PCI_MAX_DEV /\ pdx[cnt].init =>
       RegionsOf(cnt) \subseteq regions /\ DmaOf(cnt) \subseteq dma

RegistersOf(n) == {<<pdx[n].dev, r>> : r \in Devices[pdx[n].dev].regions}

\* The interrupt handler of a board, which may be called at any time once it is
\* installed, finds the board's registers requested, and mapped if no call failed.
HandlerHasRegisters ==
  \A n \in irqs : RegistersOf(n) \subseteq regions /\ (clean => RegistersOf(n) \subseteq mapped)

\* A file is open only on a board with its regions mapped, also while the cards
\* after it are being set up.
FilesHaveRegisters == clean => \A n \in files : RegistersOf(n) \subseteq mapped

\* Nothing is held for a module that is not loaded.
UnloadedHoldsNothing == pc = "out" /\ clean => NothingHeld

\* Whatever was refused and wherever loading stopped, module_cleanup gives back
\* every interrupt, every block of memory and every region, those of the boards set
\* up before the failure too, except the regions that SIPLX_board_init had got for
\* the card it failed on.  The device numbers are gone once module_cleanup has run.
CleanupGivesBack ==
  pc = "out" /\ ~ chrdev =>
    /\ irqs = {} /\ dma = {}
    /\ \A h \in regions : result # 0 /\ h[1] = from

\* Loading comes to an end.
LoadEnds == (pc \in {"scan", "add", "enable", "regions"}) ~> (pc \in {"in", "out", "oops"})
=============================================================================
