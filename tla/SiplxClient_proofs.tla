-------------------------- MODULE SiplxClient_proofs --------------------------
(***************************************************************************)
(* What a single process can rely on when it transfers through the         *)
(* library: a call returns when its own transfer is done, the card's FIFO  *)
(* stays turned while data moves, and its interrupt stays unmasked.        *)
(*                                                                         *)
(* The driver underneath is BusMaster, and its invariant IInv holds here   *)
(* too; with two processes the first property is false (early_return.cfg). *)
(***************************************************************************)
EXTENDS SiplxClient, BusMaster_proofs

USE BusMasterAssumption, SiplxClientAssumption

\* The limits: one process, mapped buffers, and buffers that fit unless they
\* are empty, which the library keeps from the driver.
ClientLimits ==
  /\ \A p, q \in Procs : p = q
  /\ "error" \notin PinResults
  /\ \A r \in Requests : r.count # 0 => Fits(r)

ClientTypeOK ==
  /\ at \in [Procs -> {"idle", "block", "driver", "returned", "spin", "addon"}]
  /\ call \in [Procs -> [kind : Channels \cup {"addon", "none"},
                         off : 0 .. PageSize - 1, count : Nat]]
  /\ wait_event \in [Procs -> BOOLEAN]
  /\ addonInitPointer \in [Procs -> BOOLEAN]
  /\ direction \in Channels \cup {"none"}
  /\ rings \in Nat
  /\ order \in {"none", "asked", "ring"}
  /\ stray \in [Procs -> BOOLEAN]

\* Where a process is in the driver agrees with where it is in the library.
PlaceOK(p) ==
  /\ at[p] = "driver" => pc[p] \in CallLabels /\ ChannelOf(p) = call[p].kind
  /\ at[p] = "addon" => pc[p] = "addon_write"
  /\ at[p] \notin {"driver", "addon"} => pc[p] = "idle"
  /\ at[p] \in {"block", "driver", "returned"} => call[p].kind \in Channels
  /\ at[p] = "spin" => call[p].kind # "none"
  /\ at[p] = "block" =>
       p \in Users[call[p].kind] /\ (call[p].count # 0 => Fits(Buffer(p)))

\* What a process has read of INTCSR, and is about to write back, is still so.
RegOK(p) ==
  /\ pc[p] = "mask_write" => reg[p] = intcsr \ {ChannelOf(p)}
  /\ pc[p] = "enable_write" => reg[p] = intcsr \cup {ChannelOf(p)}
  /\ pc[p] \in {"set_timer", "start"} => ChannelOf(p) \in intcsr
  /\ pc[p] = "addon_write" => reg[p] = intcsr \cup {"nonbus"}

\* The FIFO is turned for the block that is about to start.
TurnedFor(p) == at[p] \in {"block", "driver"} => direction = call[p].kind

\* Only channel k is in progress, and only for it the kernel works.
OnlyChannel(k) ==
  /\ ~ doorbell /\ ~ just_completed["nonbus"]
  /\ order = "none"
  /\ \A c \in Channels : in_progress[c] => c = k
  /\ isr.at # "idle" => isr.src = k
  /\ pc[Worker] \in {"idle", "bh"} \/ ChannelOf(Worker) = k

NoSignalYet(p) == sigio = {} /\ ~ wait_event[p] /\ pc[Worker] # "bh_signal"

\* A block transfer before its start has nothing that could end its wait, and
\* afterwards only what its own end brings.
BlockAlone(p) ==
  LET k == call[p].kind
  IN /\ OnlyChannel(k)
     /\ at[p] = "block" \/ (at[p] = "driver" /\ pc[p] \in BeforeClaim) =>
          ~ in_progress[k]
     /\ at[p] = "block" => sigio = {} /\ pc[Worker] \in {"idle", "bh"}
     /\ at[p] = "driver" => NoSignalYet(p)
     /\ in_progress[k] /\ at[p] \in {"returned", "spin"} => NoSignalYet(p)

\* An addon transfer has nothing that could end its wait until the DSP rings.
AddonAlone(p) ==
  /\ \A c \in Channels : ~ in_progress[c]
  /\ pc[Worker] \in {"idle", "bh"}
  /\ order # "none" =>
       /\ ~ doorbell /\ ~ just_completed["nonbus"] /\ isr.at = "idle"
       /\ sigio = {} /\ ~ wait_event[p]

\* A call that no stray signal can reach is alone with what it started.
CallAlone(p) ==
  at[p] \in {"block", "driver", "returned", "spin"} /\ ~ stray[p] =>
    IF call[p].kind = "addon" THEN AddonAlone(p) ELSE BlockAlone(p)

ProcessOK(p) == PlaceOK(p) /\ RegOK(p) /\ TurnedFor(p) /\ CallAlone(p)

LibraryInv ==
  /\ ClientTypeOK
  /\ IrqUnmasked
  /\ DirectionKept
  /\ \A p \in Procs : ProcessOK(p)

ClientInv == IInv /\ LibraryInv

-----------------------------------------------------------------------------
\* The limits of the driver are among the client's.
LEMMA DriverLimits ==
  ASSUME ClientLimits
  PROVE  Limits
<1>1. \A c \in Channels : Users[c] \subseteq Procs
  BY DEF BusMasterAssumption
<1> QED
  BY <1>1 DEF ClientLimits, Limits

\* A step that keeps the types and treats the one process well keeps the rest.
LEMMA OneProcess ==
  ASSUME ClientLimits, NEW p \in Procs,
         ClientTypeOK', IrqUnmasked', DirectionKept',
         PlaceOK(p)', RegOK(p)', TurnedFor(p)', CallAlone(p)'
  PROVE  LibraryInv'
<1>1. \A q \in Procs : q = p
  BY DEF ClientLimits
<1> QED
  BY <1>1 DEF LibraryInv, ProcessOK

LEMMA NoCallType == NoCall \in [kind : Channels \cup {"addon", "none"},
                                off : 0 .. PageSize - 1, count : Nat]
BY DEF NoCall, BusMasterAssumption

LEMMA ClientInitial ==
  ASSUME ClientLimits, ClientInit
  PROVE  ClientInv
<1>1. IInv
  BY TypeInit, SafeInit DEF ClientInit, IInv
<1>3. ClientTypeOK
  BY NoCallType DEF ClientTypeOK, ClientInit
<1>4. IrqUnmasked /\ DirectionKept
  BY DEF ClientInit, Init, IrqUnmasked, DirectionKept
<1>5. ASSUME NEW p \in Procs
      PROVE  ProcessOK(p)
  <2>1. at[p] = "idle" /\ pc[p] = "idle"
    BY DEF ClientInit, Init, Actors
  <2> QED
    BY <2>1 DEF ProcessOK, PlaceOK, RegOK, TurnedFor, CallAlone
<1> QED
  BY <1>1, <1>3, <1>4, <1>5 DEF ClientInv, LibraryInv

-----------------------------------------------------------------------------
\* The steps of the library that leave the driver alone

\* A call to P9054_DMAReadWriteBlock knows by InFlight whether it is alone.
LEMMA StartsBlock ==
  ASSUME ClientLimits, ClientInv, NEW p \in Procs, NEW c \in Channels,
         NEW r \in Requests, P9054_DMAReadWriteBlock(p, c, r)
  PROVE  LibraryInv'
<1> USE DEF ClientInv, LibraryInv, P9054_DMAReadWriteBlock, Move, Set
<1>0. /\ r \in [off : 0 .. PageSize - 1, count : Nat]
      /\ UNCHANGED vars
      /\ ProcessOK(p) /\ p \in Actors
  BY DEF BusMasterAssumption, Actors
<1>a. /\ at[p] = "idle" /\ at'[p] = "block"
      /\ call'[p] = [kind |-> c, off |-> r.off, count |-> r.count]
      /\ direction' = c
      /\ stray'[p] = InFlight
      /\ UNCHANGED <<wait_event, order>>
  BY DEF ClientTypeOK
<1>v. /\ UNCHANGED <<in_progress, just_completed, running, irq, doorbell, intcsr>>
      /\ UNCHANGED <<isr, sigio, pc, job, reg>>
  BY <1>0 DEF vars, xfer, plx, kern, act
<1>1. ClientTypeOK'
  BY <1>0 DEF ClientTypeOK, InFlight
<1>2. IrqUnmasked'
  BY <1>v DEF IrqUnmasked
<1>3. DirectionKept'
  <2>1. (\E d \in Channels : running[d]) => InFlight
    BY DEF IInv, OnePhase, Quiet, InFlight
  <2> QED
    BY <1>v, <1>a, <2>1 DEF DirectionKept
<1>4. PlaceOK(p)'
  <2>1. r.count # 0 => Fits(r)
    BY DEF ClientLimits
  <2>2. r.count # 0 => Fits(Buffer(p))'
    BY <1>0, <1>a, <2>1 DEF Buffer, Fits, NrPages, MaxSize
  <2> QED
    BY <1>0, <1>a, <1>v, <2>2 DEF ProcessOK, PlaceOK
<1>5. RegOK(p)'
  BY <1>0, <1>v DEF ProcessOK, RegOK, ChannelOf
<1>6. TurnedFor(p)'
  BY <1>a DEF TurnedFor
<1>7. CallAlone(p)'
  <2> SUFFICES ASSUME ~ InFlight PROVE BlockAlone(p)'
    BY <1>a DEF CallAlone, Channels
  <2>1. /\ sigio' = {} /\ pc'[Worker] = "idle" /\ order' = "none"
        /\ ~ doorbell' /\ ~ just_completed'["nonbus"] /\ isr'.at = "idle"
        /\ \A d \in Channels : ~ in_progress'[d]
    BY <1>a, <1>v DEF InFlight
  <2> QED
    BY <1>a, <2>1 DEF BlockAlone, OnlyChannel
<1> QED
  BY <1>1, <1>2, <1>3, <1>4, <1>5, <1>6, <1>7, OneProcess

\* So does a call to SI_PLX_AddonInit.
LEMMA StartsAddon ==
  ASSUME ClientLimits, ClientInv, NEW p \in Procs, SI_PLX_AddonInit(p)
  PROVE  LibraryInv'
<1> USE DEF ClientInv, LibraryInv, SI_PLX_AddonInit, Move, Set
<1>0. UNCHANGED vars /\ ProcessOK(p) /\ p \in Actors
  BY DEF Actors
<1>a. /\ at[p] = "idle" /\ at'[p] = "spin"
      /\ call'[p] = AddonCall
      /\ ~ wait_event'[p] /\ order' = "asked"
      /\ stray'[p] = InFlight
      /\ UNCHANGED direction
  BY DEF ClientTypeOK
<1>v. /\ UNCHANGED <<in_progress, just_completed, running, irq, doorbell, intcsr>>
      /\ UNCHANGED <<isr, sigio, pc, job, reg>>
  BY <1>0 DEF vars, xfer, plx, kern, act
<1>1. ClientTypeOK'
  <2>1. AddonCall \in [kind : Channels \cup {"addon", "none"},
                       off : 0 .. PageSize - 1, count : Nat]
    BY DEF AddonCall, BusMasterAssumption
  <2> QED
    BY <2>1 DEF ClientTypeOK, InFlight
<1>2. IrqUnmasked'
  BY <1>v DEF IrqUnmasked
<1>3. DirectionKept'
  <2>1. (\E d \in Channels : running[d]) => InFlight
    BY DEF IInv, OnePhase, Quiet, InFlight
  <2> QED
    BY <1>v, <1>a, <2>1 DEF DirectionKept
<1>4. PlaceOK(p)'
  BY <1>0, <1>a, <1>v DEF ProcessOK, PlaceOK, AddonCall
<1>5. RegOK(p)'
  BY <1>0, <1>v DEF ProcessOK, RegOK, ChannelOf
<1>6. TurnedFor(p)'
  BY <1>a DEF TurnedFor
<1>7. CallAlone(p)'
  <2> SUFFICES ASSUME ~ InFlight PROVE AddonAlone(p)'
    BY <1>a DEF CallAlone, AddonCall
  <2>1. /\ sigio' = {} /\ pc'[Worker] = "idle"
        /\ ~ doorbell' /\ ~ just_completed'["nonbus"] /\ isr'.at = "idle"
        /\ \A d \in Channels : ~ in_progress'[d]
    BY <1>v DEF InFlight
  <2> QED
    BY <1>a, <2>1 DEF AddonAlone
<1> QED
  BY <1>1, <1>2, <1>3, <1>4, <1>5, <1>6, <1>7, OneProcess

\* A call that returns without the driver leaves nothing behind but what stray
\* remembers.
LEMMA ReturnsAlone ==
  ASSUME ClientLimits, ClientInv, NEW p \in Procs, NEW place \in {"block", "spin"},
         ReturnFrom(p, place), UNCHANGED <<vars, addonInitPointer, card>>,
         wait_event' \in [Procs -> BOOLEAN]
  PROVE  LibraryInv'
<1> USE DEF ClientInv, LibraryInv, ReturnFrom, Move, Set, card
<1>0. ProcessOK(p) /\ p \in Actors
  BY DEF Actors
<1>a. /\ at[p] = place /\ at'[p] = "idle"
      /\ stray'[p] = (stray[p] /\ InFlight)
      /\ UNCHANGED direction
  BY DEF ClientTypeOK
<1>v. /\ UNCHANGED <<in_progress, just_completed, running, irq, doorbell, intcsr>>
      /\ UNCHANGED <<isr, sigio, pc, job, reg>>
  BY DEF vars, xfer, plx, kern, act
<1>1. ClientTypeOK'
  BY NoCallType DEF ClientTypeOK, InFlight
<1>2. IrqUnmasked'
  BY <1>v DEF IrqUnmasked
<1>3. DirectionKept'
  <2>1. (\E d \in Channels : running[d]) => InFlight
    BY DEF IInv, OnePhase, Quiet, InFlight
  <2>2. \A q \in Procs : q = p
    BY DEF ClientLimits
  <2> QED
    BY <1>v, <1>a, <2>1, <2>2 DEF DirectionKept
<1>4. PlaceOK(p)'
  BY <1>0, <1>a, <1>v DEF ProcessOK, PlaceOK
<1>5. RegOK(p)'
  BY <1>0, <1>v DEF ProcessOK, RegOK, ChannelOf
<1>6. TurnedFor(p)'
  BY <1>a DEF TurnedFor
<1>7. CallAlone(p)'
  BY <1>a DEF CallAlone
<1> QED
  BY <1>1, <1>2, <1>3, <1>4, <1>5, <1>6, <1>7, OneProcess
\* Back from the ioctl, the library goes to wait; the signal may have come.
LEMMA Waiting ==
  ASSUME ClientLimits, ClientInv, NEW p \in Procs, Wait(p)
  PROVE  LibraryInv'
<1> USE DEF ClientInv, LibraryInv, Wait, Move, card
<1>0. ProcessOK(p) /\ p \in Actors
  BY DEF Actors
<1>a. /\ at[p] = "returned" /\ at'[p] = "spin"
      /\ UNCHANGED <<call, wait_event, direction, order, stray>>
  BY DEF ClientTypeOK
<1>v. /\ UNCHANGED <<in_progress, just_completed, running, irq, doorbell, intcsr>>
      /\ UNCHANGED <<isr, sigio, pc, job, reg>>
  BY DEF vars, xfer, plx, kern, act
<1>1. ClientTypeOK'
  BY DEF ClientTypeOK
<1>2. IrqUnmasked'
  BY <1>v DEF IrqUnmasked
<1>3. DirectionKept'
  BY <1>a, <1>v DEF DirectionKept
<1>4. PlaceOK(p)'
  BY <1>0, <1>a, <1>v DEF ProcessOK, PlaceOK, Channels
<1>5. RegOK(p)'
  BY <1>0, <1>v DEF ProcessOK, RegOK, ChannelOf
<1>6. TurnedFor(p)'
  BY <1>a DEF TurnedFor
<1>7. CallAlone(p)'
  <2>1. call[p].kind # "addon"
    BY <1>0, <1>a DEF ProcessOK, PlaceOK, Channels
  <2>2. ~ stray[p] => BlockAlone(p)
    BY <1>0, <1>a, <2>1 DEF ProcessOK, CallAlone
  <2>3. ~ stray[p] => BlockAlone(p)'
    BY <1>a, <1>v, <2>2 DEF BlockAlone, OnlyChannel, NoSignalYet, ChannelOf
  <2> QED
    BY <1>a, <2>1, <2>3 DEF CallAlone
<1> QED
  BY <1>1, <1>2, <1>3, <1>4, <1>5, <1>6, <1>7, OneProcess

-----------------------------------------------------------------------------
\* The steps that enter the driver

\* A block transfer calls the driver with no signal pending.
LEMMA EntersDriver ==
  ASSUME ClientLimits, ClientInv, NEW p \in Procs, BlockDMA(p), call[p].count # 0
  PROVE  LibraryInv'
<1> USE DEF ClientInv, LibraryInv, BlockDMA, Move, Set, Call, Goto, card, kern
<1>0. ProcessOK(p) /\ p \in Actors /\ p # Worker /\ Worker \in Actors
  BY DEF Actors, BusMasterAssumption
<1>a. /\ at[p] = "block" /\ at'[p] = "driver"
      /\ ~ wait_event'[p]
      /\ UNCHANGED <<call, direction, order, stray>>
  BY DEF ClientTypeOK
<1>v. /\ UNCHANGED <<in_progress, just_completed, running, irq, doorbell, intcsr>>
      /\ UNCHANGED <<isr, sigio, reg>>
  BY DEF xfer, plx
<1>p. /\ pc'[p] = "spin" /\ ChannelOf(p)' = call[p].kind
      /\ pc'[Worker] = pc[Worker] /\ job'[Worker] = job[Worker]
  BY <1>0 DEF IInv, TypeOK, ChannelOf
<1>1. ClientTypeOK'
  BY DEF ClientTypeOK
<1>2. IrqUnmasked'
  BY <1>v DEF IrqUnmasked
<1>3. DirectionKept'
  BY <1>a, <1>v DEF DirectionKept
<1>4. PlaceOK(p)'
  BY <1>0, <1>a, <1>p DEF ProcessOK, PlaceOK, CallLabels, BeforeClaim
<1>5. RegOK(p)'
  BY <1>p DEF RegOK
<1>6. TurnedFor(p)'
  BY <1>0, <1>a DEF ProcessOK, TurnedFor
<1>7. CallAlone(p)'
  <2>1. call[p].kind # "addon"
    BY <1>0, <1>a DEF ProcessOK, PlaceOK, Channels
  <2>2. ~ stray[p] => BlockAlone(p)
    BY <1>0, <1>a, <2>1 DEF ProcessOK, CallAlone
  <2>3. ~ stray[p] => BlockAlone(p)'
    BY <1>a, <1>v, <1>p, <2>2 DEF BlockAlone, OnlyChannel, NoSignalYet, ChannelOf
  <2> QED
    BY <1>a, <2>1, <2>3 DEF CallAlone
<1> QED
  BY <1>1, <1>2, <1>3, <1>4, <1>5, <1>6, <1>7, OneProcess

\* GET_ADDON_ADDR reads INTCSR, and writes it back.
LEMMA GetsAddon ==
  ASSUME ClientLimits, ClientInv, NEW p \in Procs,
         SI_PLX_GetAddonBufferAddr(p) \/ GotAddonBufferAddr(p)
  PROVE  LibraryInv'
<1> USE DEF ClientInv, LibraryInv, Move, Set, Goto, Return, SI_PLX_GetAddonBufferAddr,
            GotAddonBufferAddr, SIPLX_GetAddOn, GetAddOnWrite, card, kern
<1>0. ProcessOK(p) /\ p \in Actors /\ p # Worker /\ Worker \in Actors
  BY DEF Actors, BusMasterAssumption
<1>a. /\ at'[p] \in {"addon", "idle"}
      /\ UNCHANGED <<direction, stray>>
  BY DEF ClientTypeOK
<1>v. UNCHANGED <<running, irq>>
  BY DEF plx
<1>p. /\ pc'[p] = IF at'[p] = "addon" THEN "addon_write" ELSE "idle"
      /\ pc'[p] = "addon_write" => reg'[p] = intcsr' \cup {"nonbus"}
  BY <1>0 DEF IInv, TypeOK, ClientTypeOK, plx
<1>1. ClientTypeOK'
  BY DEF ClientTypeOK
<1>2. IrqUnmasked'
  <2>1. intcsr \subseteq intcsr'
    BY <1>0 DEF ProcessOK, RegOK, plx
  <2> QED
    BY <1>v, <2>1 DEF IrqUnmasked
<1>3. DirectionKept'
  BY <1>a, <1>v DEF DirectionKept
<1>4. PlaceOK(p)'
  BY <1>a, <1>p DEF PlaceOK
<1>5. RegOK(p)'
  BY <1>a, <1>p DEF RegOK
<1>6. TurnedFor(p)'
  BY <1>a DEF TurnedFor
<1>7. CallAlone(p)'
  BY <1>a DEF CallAlone
<1> QED
  BY <1>1, <1>2, <1>3, <1>4, <1>5, <1>6, <1>7, OneProcess
-----------------------------------------------------------------------------
\* Signals and the DSP

\* The signal handler sets wait_event, and nothing of the driver's channels.
LEMMA HandlesSignal ==
  ASSUME ClientLimits, ClientInv, NEW p \in Procs, callback(p)
  PROVE  LibraryInv'
<1> USE DEF ClientInv, LibraryInv, callback, DeliverSignal, Set, card
<1>0. ProcessOK(p) /\ p \in Actors
  BY DEF Actors
<1>a. /\ p \in sigio /\ pc[p] = "idle"
      /\ UNCHANGED <<at, call, direction, order, stray>>
  OBVIOUS
<1>v. /\ UNCHANGED <<in_progress, just_completed, running, irq, doorbell, intcsr>>
      /\ UNCHANGED <<isr, pc, job, reg>>
  BY DEF xfer, plx, act
<1>1. ClientTypeOK'
  BY DEF ClientTypeOK
<1>2. IrqUnmasked'
  BY <1>v DEF IrqUnmasked
<1>3. DirectionKept'
  BY <1>a, <1>v DEF DirectionKept
<1>4. PlaceOK(p)'
  BY <1>0, <1>a, <1>v DEF ProcessOK, PlaceOK, ChannelOf, Buffer
<1>5. RegOK(p)'
  BY <1>0, <1>v DEF ProcessOK, RegOK, ChannelOf
<1>6. TurnedFor(p)'
  BY <1>0, <1>a DEF ProcessOK, TurnedFor
<1>7. CallAlone(p)'
  <2>1. AddonAlone(p) => AddonAlone(p)'
    BY <1>a, <1>v DEF AddonAlone
  <2>2. BlockAlone(p) => BlockAlone(p)'
    BY <1>a, <1>v DEF BlockAlone, OnlyChannel, NoSignalYet, ChannelOf
  <2> QED
    BY <1>0, <1>a, <2>1, <2>2 DEF ProcessOK, CallAlone
<1> QED
  BY <1>1, <1>2, <1>3, <1>4, <1>5, <1>6, <1>7, OneProcess

\* The DSP takes its order, and rings when it has done it; when it rings
\* unasked the call is no longer alone.
LEMMA CardRingsBell ==
  ASSUME ClientLimits, ClientInv, Obey \/ RingDone \/ RingUnasked
  PROVE  LibraryInv'
<1> USE DEF ClientInv, LibraryInv, Obey, RingDone, RingUnasked, Ring, lib
<1>a. UNCHANGED <<at, call, wait_event, direction>>
  OBVIOUS
<1>v. /\ UNCHANGED <<in_progress, just_completed, running, irq, intcsr>>
      /\ UNCHANGED <<isr, sigio, pc, job, reg>>
  BY DEF vars, xfer, plx, kern, act
<1>1. ClientTypeOK'
  BY DEF ClientTypeOK
<1>2. IrqUnmasked'
  BY <1>v DEF IrqUnmasked
<1>3. DirectionKept'
  BY <1>a, <1>v DEF DirectionKept, ClientTypeOK
<1>4. ASSUME NEW p \in Procs
      PROVE  ProcessOK(p)'
  <2>1. PlaceOK(p)' /\ RegOK(p)' /\ TurnedFor(p)'
    BY <1>a, <1>v DEF ProcessOK, PlaceOK, RegOK, TurnedFor, ChannelOf, Buffer
  <2>2. CASE at[p] = "idle"
    BY <1>a, <2>1, <2>2 DEF ProcessOK, CallAlone
  <2>3. CASE RingUnasked /\ at[p] # "idle"
    <3>1. stray'[p]
      BY <2>3 DEF ClientTypeOK
    <3> QED
      BY <2>1, <3>1 DEF ProcessOK, CallAlone
  <2>4. CASE Obey \/ RingDone
    <3>1. order # "none" /\ UNCHANGED stray
      BY <2>4
    <3>2. ~ BlockAlone(p)
      BY <3>1 DEF BlockAlone, OnlyChannel
    <3>3. AddonAlone(p) => AddonAlone(p)'
      BY <1>a, <1>v, <2>4 DEF AddonAlone, vars, plx
    <3> QED
      BY <1>a, <2>1, <3>1, <3>2, <3>3 DEF ProcessOK, CallAlone
  <2> QED
    BY <2>2, <2>3, <2>4
<1> QED
  BY <1>1, <1>2, <1>3, <1>4

-----------------------------------------------------------------------------
\* The driver's part of a block transfer

\* What a step of SIPLX_doBlockDMA changes of what the other actors see.
LEMMA TransferFrame ==
  ASSUME IInv, NEW p \in Procs, DoBlockDMA(p)
  PROVE  /\ UNCHANGED <<just_completed, irq, doorbell, isr, sigio>>
         /\ pc'[Worker] = pc[Worker] /\ job'[Worker] = job[Worker]
         /\ pc'[p] # "idle" => job'[p] = job[p]
         /\ pc'[p] \notin {"spin", "addon_write"}
         /\ pc'[p] = "claim" => pc[p] = "spin"
         /\ pc'[p] = "fail_free" => pc[p] = "fail"
         /\ \/ UNCHANGED in_progress /\ pc[p] \notin {"claim", "fail"}
            \/ pc[p] = "claim" /\ pc'[p] = "alloc"
               /\ \A d \in Channels : d # ChannelOf(p) => in_progress'[d] = in_progress[d]
            \/ pc[p] = "fail" /\ pc'[p] = "fail_free"
               /\ in_progress' = [in_progress EXCEPT ![ChannelOf(p)] = FALSE]
         /\ \/ UNCHANGED running
            \/ pc[p] = "start" /\ running' = [running EXCEPT ![ChannelOf(p)] = TRUE]
<1>0. p \in Actors /\ p # Worker /\ Worker \in Actors
  BY BusMasterAssumption DEF Actors
<1> QED
  BY <1>0 DEF IInv, TypeOK, DoBlockDMA, Spin, Claim, Kmalloc, KmallocNull, Build, Oops,
     Fail, FailFree, ReadToMask, WriteMasked, ReadToEnable, WriteEnabled, SetTimer,
     StartDMA, Goto, Return, ChannelOf, xfer, mem, plx, kern

\* No other process writes INTCSR between a transfer's reads and its writes,
\* so that a channel is let through when it starts, and the other one still is.
LEMMA TransferUnmasks ==
  ASSUME IInv, IrqUnmasked, NEW p \in Procs, RegOK(p), DoBlockDMA(p)
  PROVE  IrqUnmasked' /\ RegOK(p)'
<1> USE DEF Goto, Return, ChannelOf, xfer, mem, plx, kern
<1>0. /\ p \in Actors
      /\ pc[p] \in Filling => ~ running[ChannelOf(p)] /\ ~ irq[ChannelOf(p)]
  BY DEF Actors, IInv, TypeOK, OnePhase, Programming, Quiet, At, AfterClaim
<1>t. /\ pc \in [Actors -> Labels] /\ reg \in [Actors -> SUBSET Sources]
      /\ job \in [Actors -> [ch : Channels, off : 0 .. PageSize - 1, count : Int]]
      /\ running \in [Channels -> BOOLEAN] /\ irq \in [Channels -> BOOLEAN]
      /\ job[p].ch \in Channels
  BY <1>0 DEF IInv, TypeOK
<1>1. CASE ReadToMask(p)
  BY <1>0, <1>t, <1>1 DEF ReadToMask, RegOK, IrqUnmasked
<1>2. CASE WriteMasked(p)
  BY <1>0, <1>t, <1>2 DEF WriteMasked, RegOK, IrqUnmasked, Filling
<1>3. CASE ReadToEnable(p)
  BY <1>0, <1>t, <1>3 DEF ReadToEnable, RegOK, IrqUnmasked
<1>4. CASE WriteEnabled(p)
  BY <1>0, <1>t, <1>4 DEF WriteEnabled, RegOK, IrqUnmasked
<1>5. CASE SetTimer(p)
  BY <1>0, <1>t, <1>5 DEF SetTimer, RegOK, IrqUnmasked
<1>6. CASE StartDMA(p)
  BY <1>0, <1>t, <1>6 DEF StartDMA, RegOK, IrqUnmasked
<1>7. CASE \/ Spin(p) \/ Claim(p) \/ Kmalloc(p) \/ KmallocNull(p) \/ Build(p)
           \/ Oops(p) \/ Fail(p) \/ FailFree(p)
  <2>1. /\ UNCHANGED <<running, irq, intcsr>>
        /\ pc'[p] \notin {"mask_write", "enable_write", "set_timer", "start", "addon_write"}
    BY <1>0, <1>t, <1>7 DEF Spin, Claim, Kmalloc, KmallocNull, Build, Oops, Fail, FailFree
  <2> QED
    BY <2>1 DEF RegOK, IrqUnmasked
<1> QED
  BY <1>1, <1>2, <1>3, <1>4, <1>5, <1>6, <1>7 DEF DoBlockDMA
\* A step of the driver on behalf of a block transfer, and its return: to wait,
\* if the transfer was started or no page was pinned, or with an error.
LEMMA WorksInDriver ==
  ASSUME ClientLimits, ClientInv, IInv', NEW p \in Procs, InDriver(p)
  PROVE  LibraryInv'
<1> USE DEF ClientInv, LibraryInv, card
<1>0. /\ p \in Actors /\ p # Worker /\ Worker \in Actors
      /\ ProcessOK(p) /\ DoBlockDMA(p)
  BY BusMasterAssumption DEF Actors, InDriver, SIPLX_doBlockDMA_Read, SIPLX_doBlockDMA_Write
<1>c. PICK k \in Channels : k = ChannelOf(p)
  BY <1>0 DEF IInv, TypeOK, ChannelOf
<1>k. /\ k = call[p].kind
      /\ at[p] = "driver" /\ pc[p] \in CallLabels
  BY <1>0, <1>c DEF InDriver, ProcessOK, PlaceOK
<1>a. \/ /\ pc'[p] # "idle" /\ at'[p] = "driver"
         /\ UNCHANGED <<call, stray>>
      \/ /\ pc'[p] = "idle" /\ at'[p] = "returned"
         /\ UNCHANGED <<call, stray>>
      \/ /\ pc'[p] = "idle" /\ at'[p] = "idle"
         /\ stray'[p] = (stray[p] /\ InFlight)
  BY <1>k DEF InDriver, ReturnFrom, Move, Set, ClientTypeOK
<1>b. UNCHANGED <<wait_event, direction, order>>
  BY DEF InDriver
<1>f. /\ UNCHANGED <<just_completed, irq, doorbell, isr, sigio>>
      /\ pc'[Worker] = pc[Worker] /\ job'[Worker] = job[Worker]
      /\ pc'[p] # "idle" => job'[p] = job[p]
      /\ pc'[p] \notin {"spin", "addon_write"}
      /\ pc'[p] = "claim" => pc[p] = "spin"
      /\ pc'[p] = "fail_free" => pc[p] = "fail"
  BY <1>0, TransferFrame
<1>i. \/ UNCHANGED in_progress /\ pc[p] \notin {"claim", "fail"}
      \/ pc[p] = "claim" /\ pc'[p] = "alloc"
         /\ \A d \in Channels : d # k => in_progress'[d] = in_progress[d]
      \/ pc[p] = "fail" /\ pc'[p] = "fail_free"
         /\ in_progress' = [in_progress EXCEPT ![k] = FALSE]
  BY <1>0, <1>c, TransferFrame
<1>r. \/ UNCHANGED running
      \/ pc[p] = "start" /\ running' = [running EXCEPT ![k] = TRUE]
  BY <1>0, <1>c, TransferFrame
<1>t. /\ in_progress \in [Channels -> BOOLEAN] /\ running \in [Channels -> BOOLEAN]
      /\ isr \in [at : {"idle", "mark", "queue"}, src : Sources]
  BY DEF IInv, TypeOK
<1>1. ClientTypeOK'
  <2>1. at' \in [Procs -> {"idle", "block", "driver", "returned", "spin", "addon"}]
    BY DEF InDriver, ReturnFrom, Move, ClientTypeOK
  <2>2. call' = call \/ call' = [call EXCEPT ![p] = NoCall]
    BY DEF InDriver, ReturnFrom, Set
  <2>3. stray' = stray \/ stray' = [stray EXCEPT ![p] = stray[p] /\ InFlight]
    BY DEF InDriver, ReturnFrom, Set
  <2>4. UNCHANGED <<wait_event, addonInitPointer, direction, rings, order>>
    BY DEF InDriver
  <2>5. call' \in [Procs -> [kind : Channels \cup {"addon", "none"},
                            off : 0 .. PageSize - 1, count : Nat]]
    BY <2>2, NoCallType DEF ClientTypeOK
  <2>6. stray' \in [Procs -> BOOLEAN]
    BY <2>3 DEF ClientTypeOK
  <2> QED
    BY <2>1, <2>4, <2>5, <2>6 DEF ClientTypeOK
<1>2. IrqUnmasked' /\ RegOK(p)'
  BY <1>0, TransferUnmasks DEF ProcessOK
<1>3. DirectionKept'
  <2> SUFFICES ASSUME NEW d \in Channels, running'[d], direction # d
               PROVE  stray'[p]
    BY <1>b DEF DirectionKept
  <2>1. d # k
    BY <1>0, <1>k DEF ProcessOK, TurnedFor
  <2>2. running[d]
    BY <1>r, <1>t, <2>1
  <2>3. stray[p]
    BY <2>2 DEF DirectionKept, ClientLimits
  <2>4. InFlight
    BY <2>2 DEF IInv, OnePhase, Quiet, InFlight
  <2> QED
    BY <1>a, <2>3, <2>4
<1>4. PlaceOK(p)'
  <2>1. pc'[p] \in CallLabels \cup {"idle", "addon_write"}
    BY DEF IInv, PlacesOK
  <2>2. pc'[p] # "idle" => ChannelOf(p)' = k
    BY <1>c, <1>f DEF ChannelOf
  <2> QED
    BY <1>a, <1>f, <1>k, <2>1, <2>2 DEF PlaceOK, Channels
<1>6. TurnedFor(p)'
  BY <1>0, <1>a, <1>b, <1>k DEF ProcessOK, TurnedFor
<1>7. CallAlone(p)'
  <2> SUFFICES ASSUME at'[p] \in {"driver", "returned"}, ~ stray'[p]
               PROVE  BlockAlone(p)'
    BY <1>a, <1>k DEF CallAlone, Channels
  <2>1. BlockAlone(p) /\ call'[p].kind = k /\ k # "addon"
    BY <1>0, <1>a, <1>k DEF ProcessOK, CallAlone, Channels
  <2>2. OnlyChannel(k)'
    <3>1. OnlyChannel(k)
      BY <1>k, <2>1 DEF BlockAlone
    <3>2. \A d \in Channels : d # k => ~ in_progress'[d]
      BY <1>i, <1>t, <1>k, <3>1 DEF OnlyChannel
    <3> QED
      BY <1>b, <1>f, <3>1, <3>2 DEF OnlyChannel, ChannelOf
  <2>3. NoSignalYet(p)'
    BY <1>b, <1>f, <1>k, <2>1 DEF BlockAlone, NoSignalYet
  <2>4. pc'[p] \in BeforeClaim => ~ in_progress'[k]
    BY <1>f, <1>i, <1>k, <1>t, <2>1 DEF BlockAlone, BeforeClaim
  <2> QED
    BY <2>1, <2>2, <2>3, <2>4 DEF BlockAlone
<1> QED
  BY <1>1, <1>2, <1>3, <1>4, <1>6, <1>7, OneProcess

-----------------------------------------------------------------------------
\* The interrupt handler, the bottom half and the card

\* Their steps leave the processes, INTCSR and a pending order alone.
LEMMA KernelFrame ==
  ASSUME IInv, Kernel
  PROVE  /\ UNCHANGED <<lib, card, stray, intcsr>>
         /\ \A p \in Procs :
              pc'[p] = pc[p] /\ job'[p] = job[p] /\ reg'[p] = reg[p]
         /\ \A c \in Channels :
              /\ running'[c] => running[c]
              /\ irq'[c] => irq[c] \/ running[c]
              /\ in_progress'[c] => in_progress[c]
<1> USE DEF IInv, TypeOK, Goto, Return, xfer, mem, plx, kern, act
<1>0. Worker \in Actors /\ \A p \in Procs : p \in Actors /\ p # Worker
  BY BusMasterAssumption DEF Actors
<1>1. UNCHANGED <<lib, card, stray>>
  BY DEF Kernel
<1> DEFINE Frame ==
      /\ UNCHANGED intcsr
      /\ \A p \in Procs : pc'[p] = pc[p] /\ job'[p] = job[p] /\ reg'[p] = reg[p]
      /\ \A c \in Channels :
           /\ running'[c] => running[c]
           /\ irq'[c] => irq[c] \/ running[c]
           /\ in_progress'[c] => in_progress[c]
<1>2. ASSUME NEW s \in Sources, SIPLX_isr(s)
      PROVE  Frame
  BY <1>2 DEF SIPLX_isr
<1>3. ASSUME IsrMark \/ IsrQueue PROVE Frame
  BY <1>3 DEF IsrMark, IsrQueue
<1>6. ASSUME RunWork PROVE Frame
  BY <1>0, <1>6 DEF RunWork
<1>7. ASSUME ServeNonBus PROVE Frame
  BY <1>0, <1>7 DEF ServeNonBus
<1>4. ASSUME NEW c \in Channels, BottomHalf(c)
      PROVE  Frame
  <2>1. bytes_remaining[ChannelOf(Worker)] = 0
    BY <1>0 DEF NoTimeouts, ChannelOf
  <2> QED
    BY <1>0, <1>4, <2>1 DEF BottomHalf, Serve, StopTimer, Take, SIPLX_Unmap_Pages,
       FreePages, ClearInProgress, Signal
<1>5. ASSUME NEW c \in Channels, Complete(c)
      PROVE  Frame
  BY <1>5 DEF Complete
<1> QED
  BY <1>1, <1>2, <1>3, <1>4, <1>5, <1>6, <1>7
     DEF Kernel, Isr, ReadBottomHalf, WriteBottomHalf, Channels

\* While nothing is in progress and the DSP has not rung, the kernel has
\* nothing to signal.
LEMMA AddonStaysAlone ==
  ASSUME IInv, NEW p \in Procs, AddonAlone(p), Kernel
  PROVE  AddonAlone(p)'
<1> USE DEF IInv, TypeOK, AddonAlone, Goto, Return, xfer, plx, kern, act
<1>0. /\ Worker \in Actors
      /\ UNCHANGED <<order, wait_event>>
      /\ \A c \in Channels : ~ in_progress'[c]
  BY KernelFrame DEF Actors, lib, card
<1>1. \A c \in Channels : ~ running[c] /\ ~ just_completed[c]
  BY DEF OnePhase, Quiet
<1>2. ASSUME NEW s \in Sources, SIPLX_isr(s)
      PROVE  AddonAlone(p)'
  <2>1. order = "none"
    BY <1>2 DEF SIPLX_isr, Claims, Interrupts, Channels, Sources
  <2> QED
    BY <1>0, <1>2, <2>1 DEF SIPLX_isr
<1>3. ASSUME IsrMark \/ IsrQueue
      PROVE  AddonAlone(p)'
  <2>1. order = "none"
    BY <1>3 DEF IsrMark, IsrQueue
  <2> QED
    BY <1>0, <1>3, <2>1 DEF IsrMark, IsrQueue
<1>4. ASSUME RunWork
      PROVE  AddonAlone(p)'
  BY <1>0, <1>4 DEF RunWork
<1>5. ASSUME ServeNonBus
      PROVE  AddonAlone(p)'
  BY <1>0, <1>5 DEF ServeNonBus, Sources
<1>6. ASSUME NEW c \in Channels, BottomHalf(c)
      PROVE  FALSE
  BY <1>1, <1>6 DEF BottomHalf, Serve, StopTimer, Take, SIPLX_Unmap_Pages,
     FreePages, ClearInProgress, Signal
<1>7. ASSUME NEW c \in Channels, Complete(c)
      PROVE  FALSE
  BY <1>1, <1>7 DEF Complete
<1> QED
  BY <1>2, <1>3, <1>4, <1>5, <1>6, <1>7
     DEF Kernel, Isr, ReadBottomHalf, WriteBottomHalf, Channels

\* While one channel alone is in progress the kernel works for it only, and
\* signals only when it has cleared in_progress.
LEMMA BlockStaysAlone ==
  ASSUME IInv, NEW p \in Procs, PlaceOK(p), call[p].kind \in Channels,
         BlockAlone(p), Kernel
  PROVE  BlockAlone(p)'
<1> USE DEF IInv, TypeOK, OnlyChannel, NoSignalYet, ChannelOf, Goto, Return, xfer,
            plx, kern, act
<1>k. PICK k \in Channels : k = call[p].kind
  OBVIOUS
<1>0. /\ Worker \in Actors /\ "nonbus" \notin Channels
      /\ UNCHANGED <<at, call, order, wait_event>>
      /\ pc'[p] = pc[p]
      /\ \A c \in Channels : in_progress'[c] => in_progress[c]
  BY KernelFrame DEF Actors, Channels, lib, card
<1>1. \A c \in Channels :
        running[c] \/ irq[c] \/ just_completed[c] \/ TidyingUp(c) => in_progress[c]
  BY DEF OnePhase, Quiet
<1>2. at[p] = "driver" =>
        /\ ~ just_completed[k] /\ ~ TidyingUp(k)
        /\ pc[p] \notin BeforeClaim => Programming(k)
  BY <1>1, <1>k DEF PlaceOK, BlockAlone, OnePhase, Programming, Quiet, At, CallLabels
<1>b. /\ OnlyChannel(k)
      /\ at[p] = "block" \/ (at[p] = "driver" /\ pc[p] \in BeforeClaim) =>
           ~ in_progress[k]
      /\ at[p] = "block" => sigio = {} /\ pc[Worker] \in {"idle", "bh"}
      /\ at[p] = "driver" => NoSignalYet(p)
      /\ in_progress[k] /\ at[p] \in {"returned", "spin"} => NoSignalYet(p)
  BY <1>k DEF BlockAlone
<1> DEFINE Still ==
      /\ OnlyChannel(k)'
      /\ at[p] = "block" => sigio' = {} /\ pc'[Worker] \in {"idle", "bh"}
      /\ at[p] = "driver" => NoSignalYet(p)'
      /\ in_progress'[k] /\ at[p] \in {"returned", "spin"} => NoSignalYet(p)'
<1>3. Still => BlockAlone(p)'
  BY <1>0, <1>b, <1>k DEF BlockAlone
<1>4. ASSUME NEW s \in Sources, SIPLX_isr(s)
      PROVE  Still
  <2>1. s = k
    BY <1>1, <1>4, <1>b DEF SIPLX_isr, Claims, Interrupts, Sources
  <2> QED
    BY <1>0, <1>4, <1>b, <2>1 DEF SIPLX_isr
<1>5. ASSUME IsrMark
      PROVE  Still
  BY <1>0, <1>5, <1>b DEF IsrMark, Sources
<1>6. ASSUME IsrQueue
      PROVE  Still
  BY <1>0, <1>6, <1>b DEF IsrQueue
<1>7. ASSUME RunWork
      PROVE  Still
  BY <1>0, <1>7, <1>b DEF RunWork
<1>8. ASSUME ServeNonBus
      PROVE  Still
  BY <1>0, <1>8, <1>b DEF ServeNonBus, Sources
<1>9. ASSUME NEW c \in Channels, Serve(c)
      PROVE  Still
  <2>1. c = k /\ at[p] # "block"
    BY <1>1, <1>9, <1>b DEF Serve
  <2> QED
    BY <1>0, <1>9, <1>b, <2>1 DEF Serve
<1>10. ASSUME StopTimer \/ SIPLX_Unmap_Pages \/ FreePages
       PROVE  Still
  BY <1>0, <1>10, <1>b DEF StopTimer, SIPLX_Unmap_Pages, FreePages
<1>11. ASSUME Take
       PROVE  Still
  <2>1. bytes_remaining[ChannelOf(Worker)] = 0
    BY <1>0 DEF NoTimeouts
  <2> QED
    BY <1>0, <1>11, <1>b, <2>1 DEF Take, Sources
<1>12. ASSUME ClearInProgress
       PROVE  Still
  <2>1. at[p] \notin {"block", "driver"} /\ ~ in_progress'[k]
    BY <1>0, <1>2, <1>12, <1>b DEF ClearInProgress, TidyingUp, At
  <2> QED
    BY <1>0, <1>12, <1>b, <2>1 DEF ClearInProgress
<1>13. ASSUME Signal
       PROVE  Still
  <2>1. /\ at[p] \notin {"block", "driver"}
        /\ at[p] \in {"returned", "spin"} => ~ in_progress'[k]
    BY <1>0, <1>13, <1>b DEF Signal
  <2> QED
    BY <1>0, <1>13, <1>b, <2>1 DEF Signal, NoJob
<1>14. ASSUME NEW c \in Channels, Complete(c)
       PROVE  Still
  BY <1>0, <1>14, <1>b DEF Complete
<1> QED
  BY <1>3, <1>4, <1>5, <1>6, <1>7, <1>8, <1>9, <1>10, <1>11, <1>12, <1>13, <1>14
     DEF Kernel, Isr, ReadBottomHalf, WriteBottomHalf, BottomHalf, Channels
\* A step of the kernel keeps what holds of every process.
LEMMA KernelWorks ==
  ASSUME ClientLimits, ClientInv, Kernel
  PROVE  LibraryInv'
<1> USE DEF ClientInv, LibraryInv
<1>0. /\ UNCHANGED <<at, call, wait_event, addonInitPointer, direction, order,
                     rings, stray, intcsr>>
      /\ \A p \in Procs : pc'[p] = pc[p] /\ job'[p] = job[p] /\ reg'[p] = reg[p]
      /\ \A c \in Channels :
           /\ running'[c] => running[c]
           /\ irq'[c] => irq[c] \/ running[c]
  BY KernelFrame DEF lib, card
<1>1. ClientTypeOK'
  BY <1>0 DEF ClientTypeOK
<1>2. IrqUnmasked' /\ DirectionKept'
  BY <1>0 DEF IrqUnmasked, DirectionKept
<1>3. ASSUME NEW p \in Procs
      PROVE  ProcessOK(p)'
  <2>1. ProcessOK(p)
    OBVIOUS
  <2>2. PlaceOK(p)' /\ RegOK(p)' /\ TurnedFor(p)'
    BY <1>0, <2>1 DEF ProcessOK, PlaceOK, RegOK, TurnedFor, ChannelOf, Buffer
  <2>3. AddonAlone(p) => AddonAlone(p)'
    BY AddonStaysAlone
  <2>4. call[p].kind \in Channels /\ BlockAlone(p) => BlockAlone(p)'
    BY <2>1, BlockStaysAlone DEF ProcessOK
  <2>5. at[p] \in {"block", "driver", "returned", "spin"} =>
          call[p].kind \in Channels \cup {"addon"}
    BY <2>1 DEF ProcessOK, PlaceOK, ClientTypeOK
  <2> QED
    BY <1>0, <2>1, <2>2, <2>3, <2>4, <2>5 DEF ProcessOK, CallAlone
<1> QED
  BY <1>1, <1>2, <1>3

-----------------------------------------------------------------------------
\* The driver's invariant holds under the library.
LEMMA DriverKept ==
  ASSUME ClientLimits, ClientInv, [ClientNext]_cvars
  PROVE  IInv'
<1> USE DEF ClientInv, LibraryInv
<1>0. TypeOK /\ Limits
  BY DriverLimits DEF IInv
<1>1. ASSUME UNCHANGED vars
      PROVE  IInv'
  BY <1>0, <1>1 DEF IInv, TypeOK, PlacesOK, NoTimeouts, OnePhase, OwnershipOK, Quiet,
     Programming, Marking, TidyingUp, Owns, HasPinned, HasHeld, At, ChannelOf,
     vars, xfer, mem, plx, kern, act
<1>2. ASSUME NEW p \in Procs, BlockDMA(p)
      PROVE  IInv'
  <2>1. CASE call[p].count = 0
    BY <1>1, <1>2, <2>1 DEF BlockDMA
  <2>2. CASE call[p].count # 0
    <3>1. /\ at[p] = "block" /\ Call(p, call[p].kind, Buffer(p))
      BY <1>2, <2>2 DEF BlockDMA, Move
    <3>2. /\ call[p].kind \in Channels /\ Fits(Buffer(p))
          /\ Buffer(p) \in [off : 0 .. PageSize - 1, count : Nat]
      BY <2>2, <3>1 DEF ProcessOK, PlaceOK, ClientTypeOK, Buffer
    <3> QED
      BY <1>0, <3>1, <3>2, TypeCall, SafeCall DEF IInv
  <2> QED
    BY <2>1, <2>2
<1>3. ASSUME NEW p \in Procs, InDriver(p)
      PROVE  IInv'
  <2>1. DoBlockDMA(p) /\ p \in Actors
    BY <1>3 DEF InDriver, SIPLX_doBlockDMA_Read, SIPLX_doBlockDMA_Write, Actors
  <2> QED
    BY <1>0, <2>1, TypeDoBlockDMA, SafeDoBlockDMA DEF IInv
<1>4. ASSUME NEW p \in Procs, SI_PLX_GetAddonBufferAddr(p) \/ GotAddonBufferAddr(p)
      PROVE  IInv'
  <2>1. SIPLX_GetAddOn(p) \/ GetAddOnWrite(p)
    BY <1>4 DEF SI_PLX_GetAddonBufferAddr, GotAddonBufferAddr
  <2>2. Ioctl(p)
    BY <2>1 DEF Ioctl
  <2> QED
    BY <1>0, <2>1, <2>2, TypeIoctl, SafeGetAddOn DEF IInv
<1>5. ASSUME Ring \/ Deliver
      PROVE  IInv'
  BY <1>0, <1>5, TypeKernel, SafeCard DEF IInv
<1>6. ASSUME Kernel
      PROVE  IInv'
  BY <1>0, <1>6, TypeKernel, SafeCard, SafeBottomHalf DEF IInv, Kernel
<1>7. ASSUME NEW p \in Procs, callback(p)
      PROVE  IInv'
  BY <1>5, <1>7 DEF callback, Deliver
<1>8. ASSUME NEW p \in Procs, Process(p)
      PROVE  IInv'
  BY <1>1, <1>2, <1>3, <1>4, <1>7, <1>8
     DEF Process, P9054_DMAReadWriteBlock, SI_PLX_ReadBlockDMA, SI_PLX_WriteBlockDMA,
         Wait, SI_PLX_AddonInit, Poll
<1>9. ASSUME Obey \/ RingDone \/ RingUnasked \/ UNCHANGED cvars
      PROVE  IInv'
  BY <1>1, <1>5, <1>9 DEF Obey, RingDone, RingUnasked, cvars
<1> QED
  BY <1>6, <1>8, <1>9 DEF ClientNext

\* One step of a process, the card or the kernel keeps the invariant.
LEMMA ClientStep ==
  ASSUME ClientLimits, ClientInv, [ClientNext]_cvars
  PROVE  ClientInv'
<1>0. IInv'
  BY DriverKept
<1>1. ASSUME NEW p \in Procs, Process(p)
      PROVE  LibraryInv'
  <2>1. ASSUME BlockDMA(p)
        PROVE  LibraryInv'
    <3>1. CASE call[p].count # 0
      BY <2>1, <3>1, EntersDriver
    <3>2. CASE call[p].count = 0
      <4>1. ReturnFrom(p, "block") /\ UNCHANGED <<vars, addonInitPointer, card>>
        BY <2>1, <3>2 DEF BlockDMA
      <4>2. wait_event' \in [Procs -> BOOLEAN]
        BY <2>1 DEF BlockDMA, Set, ClientInv, LibraryInv, ClientTypeOK
      <4> QED
        BY <4>1, <4>2, ReturnsAlone
    <3> QED
      BY <3>1, <3>2
  <2>2. ASSUME Poll(p)
        PROVE  LibraryInv'
    <3>1. wait_event' \in [Procs -> BOOLEAN]
      BY <2>2 DEF Poll, ClientInv, LibraryInv, ClientTypeOK
    <3> QED
      BY <2>2, <3>1, ReturnsAlone DEF Poll
  <2> QED
    BY <1>0, <1>1, <2>1, <2>2, StartsBlock, WorksInDriver, Waiting, GetsAddon,
       StartsAddon, HandlesSignal
       DEF Process, SI_PLX_ReadBlockDMA, SI_PLX_WriteBlockDMA
<1>2. ASSUME UNCHANGED cvars
      PROVE  LibraryInv'
  BY <1>2 DEF ClientInv, LibraryInv, ClientTypeOK, IrqUnmasked, DirectionKept, ProcessOK,
     PlaceOK, RegOK, TurnedFor, CallAlone, AddonAlone, BlockAlone, OnlyChannel,
     NoSignalYet, ChannelOf, Buffer, cvars, lib, card, vars, xfer, plx, kern, act
<1>3. LibraryInv'
  BY <1>1, <1>2, CardRingsBell, KernelWorks DEF ClientNext
<1> QED
  BY <1>0, <1>3 DEF ClientInv

\* For one process the driver's invariant and what the library relies on hold
\* in every reachable state.
THEOREM ClientInvariant == ASSUME ClientLimits PROVE ClientSpec => []ClientInv
<1>1. ClientInit => ClientInv
  BY ClientInitial
<1>2. ClientInv /\ [ClientNext]_cvars => ClientInv'
  BY ClientStep
<1> QED
  BY <1>1, <1>2, PTL DEF ClientSpec

\* While the card moves a block for the one process, the FIFO is turned the
\* way the process asked for, or an earlier call had been ended by a stray signal.
THEOREM FifoStaysTurned == ASSUME ClientLimits PROVE ClientSpec => []DirectionKept
<1>1. ClientInv => DirectionKept
  BY DEF ClientInv, LibraryInv
<1> QED
  BY <1>1, ClientInvariant, PTL

\* While a transfer moves data, or its interrupt waits, INTCSR lets that
\* interrupt through: reads and writes of the register do not mix.
THEOREM InterruptsStayUnmasked == ASSUME ClientLimits PROVE ClientSpec => []IrqUnmasked
<1>1. ClientInv => IrqUnmasked
  BY DEF ClientInv, LibraryInv
<1> QED
  BY <1>1, ClientInvariant, PTL

\* A call that waits for its transfer returns only when that transfer is done,
\* unless a signal came that was not for it.
THEOREM CallsReturnWhenDone == ASSUME ClientLimits PROVE ClientSpec => ReturnsWhenDone
<1>1. ASSUME ClientInv, [ClientNext]_cvars, NEW p \in Procs,
             at[p] = "spin", at'[p] = "idle"
      PROVE  stray[p] \/ Done(p)
  <2>1. at \in [Procs -> {"idle", "block", "driver", "returned", "spin", "addon"}]
    BY <1>1 DEF ClientInv, LibraryInv, ClientTypeOK
  <2>2. \A q \in Procs : q = p
    BY DEF ClientLimits
  <2>3. Poll(p)
    <3>1. ~ UNCHANGED at
      BY <1>1
    <3>2. PICK q \in Procs : Process(q)
      BY <1>1, <3>1 DEF ClientNext, Obey, RingDone, RingUnasked, Kernel, cvars, lib
    <3>3. Process(p)
      BY <2>2, <3>2
    <3> QED
      BY <1>1, <2>1, <3>1, <3>3 DEF Process, P9054_DMAReadWriteBlock, SI_PLX_ReadBlockDMA,
         SI_PLX_WriteBlockDMA, BlockDMA, InDriver, ReturnFrom, Wait,
         SI_PLX_GetAddonBufferAddr, GotAddonBufferAddr, SI_PLX_AddonInit, callback, Move
  <2>4. wait_event[p] /\ CallAlone(p) /\ PlaceOK(p)
    BY <1>1, <2>3 DEF Poll, ClientInv, LibraryInv, ProcessOK
  <2> QED
    BY <1>1, <2>4 DEF CallAlone, AddonAlone, BlockAlone, NoSignalYet, Done
<1>2. ClientInv /\ [ClientNext]_cvars =>
        \A p \in Procs : at[p] = "spin" /\ at'[p] = "idle" => stray[p] \/ Done(p)
  BY <1>1
<1> QED
  BY <1>2, ClientInvariant, PTL DEF ClientSpec, ReturnsWhenDone
=============================================================================
