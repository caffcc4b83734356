----------------------------- MODULE SiplxClient -----------------------------
(***************************************************************************)
(* Processes that transfer through the user library (sicommon_plx_lnx.cpp  *)
(* and siabstract.cpp), over the driver of BusMaster: block transfers,     *)
(* which the driver starts, and addon-initiated ones, which the card's DSP *)
(* makes in the board's host buffer and reports with a doorbell.           *)
(*                                                                         *)
(* A process learns that its transfer is over from the signal handler      *)
(* only, which sets wait_event on any SIGIO of the board; every process    *)
(* that has the board open gets every signal.                              *)
(***************************************************************************)
EXTENDS BusMaster

CONSTANT Unasked  \* how often the DSP rings for reasons of its own

ASSUME SiplxClientAssumption == Unasked \in Nat

VARIABLES
  at,                \* where each process is in the library
  call,              \* the call it makes: an addon transfer, or a channel's and its buffer
  wait_event,        \* PLXDevice.wait_event is 1
  addonInitPointer,  \* PLXDevice.addonInitPointer is not NULL
  direction,         \* where the card's FIFO is turned, at 0x800000
  rings,             \* how often the DSP has rung unasked
  order,             \* the DSP was "asked" for a transfer, or is to "ring" when done
  stray              \* history: a signal that is not for the call may come

lib   == <<at, call, wait_event, addonInitPointer>>
card  == <<direction, order, rings>>
cvars == <<vars, lib, card, stray>>

AddonCall == [kind |-> "addon", off |-> 0, count |-> 0]
NoCall == [kind |-> "none", off |-> 0, count |-> 0]

ClientInit ==
  /\ Init
  /\ at = [p \in Procs |-> "idle"]
  /\ call = [p \in Procs |-> NoCall]
  /\ wait_event = [p \in Procs |-> FALSE]
  /\ addonInitPointer = [p \in Procs |-> FALSE]
  /\ direction = "none"
  /\ order = "none"
  /\ rings = 0
  /\ stray = [p \in Procs |-> FALSE]

Move(p, from, to) ==
  /\ at[p] = from
  /\ at' = [at EXCEPT ![p] = to]

Set(f, p, x) == [f EXCEPT ![p] = x]

\* Something has been started that has not ended.
InFlight ==
  \/ \E c \in Channels : in_progress[c]
  \/ doorbell \/ just_completed["nonbus"]
  \/ isr.at # "idle"
  \/ pc[Worker] # "idle"
  \/ sigio # {}
  \/ order # "none"

ReturnFrom(p, place) ==
  /\ Move(p, place, "idle")
  /\ call' = Set(call, p, NoCall)
  /\ stray' = Set(stray, p, stray[p] /\ InFlight)

-----------------------------------------------------------------------------
\* Block transfers

MutantTurnOnce(p, c, r) ==
  /\ p \in Users[c]
  /\ Move(p, "idle", "block")
  /\ call' = Set(call, p, [kind |-> c, off |-> r.off, count |-> r.count])
  /\ direction' = IF direction = "none" THEN c ELSE direction
  /\ stray' = Set(stray, p, InFlight)
  /\ UNCHANGED <<vars, wait_event, addonInitPointer, order, rings>>

\* The FIFO is turned for the transfer before the transfer is asked for.
P9054_DMAReadWriteBlock(p, c, r) ==
  /\ p \in Users[c]
  /\ Move(p, "idle", "block")
  /\ call' = Set(call, p, [kind |-> c, off |-> r.off, count |-> r.count])
  /\ direction' = c
  /\ stray' = Set(stray, p, InFlight)
  /\ UNCHANGED <<vars, wait_event, addonInitPointer, order, rings>>

Buffer(p) == [off |-> call[p].off, count |-> call[p].count]

MutantBlockDMA(p) ==
  /\ \/ /\ call[p].count = 0
        /\ ReturnFrom(p, "block")
        /\ UNCHANGED vars
     \/ /\ call[p].count # 0
        /\ Move(p, "block", "driver")
        /\ Call(p, call[p].kind, Buffer(p))
        /\ UNCHANGED <<call, stray>>
  /\ UNCHANGED <<wait_event, addonInitPointer, card>>

BlockDMA(p) ==
  /\ wait_event' = Set(wait_event, p, FALSE)
  /\ \/ /\ call[p].count = 0
        /\ ReturnFrom(p, "block")
        /\ UNCHANGED vars
     \/ /\ call[p].count # 0
        /\ Move(p, "block", "driver")
        /\ Call(p, call[p].kind, Buffer(p))
        /\ UNCHANGED <<call, stray>>
  /\ UNCHANGED <<addonInitPointer, card>>

SI_PLX_ReadBlockDMA(p)  == call[p].kind = "read" /\ BlockDMA(p)
SI_PLX_WriteBlockDMA(p) == call[p].kind = "write" /\ BlockDMA(p)

\* The ioctl returned 0, which it also does when get_user_pages pinned no page.
Waits(p) == pc[p] \in {"start", "fail_free"}

\* It returned -1: no memory, or some of several pages could not be pinned.
Refused(p) == pc[p] = "alloc" \/ (pc[p] = "fail_free" /\ NrPages(job[p]) > 1)

InDriver(p) ==
  /\ at[p] = "driver"
  /\ SIPLX_doBlockDMA_Read(p) \/ SIPLX_doBlockDMA_Write(p)
  /\ \/ pc'[p] # "idle" /\ UNCHANGED <<at, call, stray>>
     \/ pc'[p] = "idle" /\ Waits(p) /\ Move(p, "driver", "returned") /\ UNCHANGED <<call, stray>>
     \/ pc'[p] = "idle" /\ Refused(p) /\ ReturnFrom(p, "driver")
  /\ UNCHANGED <<wait_event, addonInitPointer, card>>

MutantWait(p) ==
  /\ Move(p, "returned", "spin")
  /\ wait_event' = Set(wait_event, p, FALSE)
  /\ UNCHANGED <<vars, call, addonInitPointer, card, stray>>

Wait(p) ==
  /\ Move(p, "returned", "spin")
  /\ UNCHANGED <<vars, call, wait_event, addonInitPointer, card, stray>>

-----------------------------------------------------------------------------
\* Addon-initiated transfers

SI_PLX_GetAddonBufferAddr(p) ==
  /\ Move(p, "idle", "addon")
  /\ SIPLX_GetAddOn(p)
  /\ addonInitPointer' = Set(addonInitPointer, p, FALSE)
  /\ UNCHANGED <<call, wait_event, card, stray>>

GotAddonBufferAddr(p) ==
  /\ Move(p, "addon", "idle")
  /\ GetAddOnWrite(p)
  /\ addonInitPointer' = Set(addonInitPointer, p, TRUE)
  /\ UNCHANGED <<call, wait_event, card, stray>>

\* SI_PLX_ReadAddonInit and SI_PLX_WriteAddonInit differ in which side of the
\* wait they copy the words on; both interrupt the DSP with what it is to do.
SI_PLX_AddonInit(p) ==
  /\ addonInitPointer[p]
  /\ Move(p, "idle", "spin")
  /\ call' = Set(call, p, AddonCall)
  /\ wait_event' = Set(wait_event, p, FALSE)
  /\ order' = "asked"
  /\ stray' = Set(stray, p, InFlight)
  /\ UNCHANGED <<vars, addonInitPointer, direction, rings>>

\* while (wait_event != 1);
Poll(p) ==
  /\ ReturnFrom(p, "spin")
  /\ wait_event[p]
  /\ UNCHANGED <<vars, wait_event, addonInitPointer, card>>

\* The signal handler; a process in the driver gets its signals on return.
callback(p) ==
  /\ pc[p] = "idle"
  /\ DeliverSignal(p)
  /\ wait_event' = Set(wait_event, p, TRUE)
  /\ UNCHANGED <<at, call, addonInitPointer, card, stray>>

-----------------------------------------------------------------------------
\* The card's DSP, and the rest of the driver

Obey ==
  /\ order = "asked"
  /\ order' = "ring"
  /\ UNCHANGED <<vars, lib, direction, rings, stray>>

RingDone ==
  /\ order = "ring"
  /\ Ring
  /\ order' = "none"
  /\ UNCHANGED <<lib, direction, rings, stray>>

\* The DSP may ring at any time, for reasons of its own.
RingUnasked ==
  /\ rings < Unasked
  /\ Ring
  /\ rings' = rings + 1
  /\ stray' = [p \in Procs |-> stray[p] \/ at[p] # "idle"]
  /\ UNCHANGED <<lib, direction, order>>

Kernel ==
  /\ \/ Isr
     \/ RunWork
     \/ ReadBottomHalf
     \/ WriteBottomHalf
     \/ ServeNonBus
     \/ \E c \in Channels : Complete(c)
  /\ UNCHANGED <<lib, card, stray>>

Process(p) ==
  \/ \E c \in Channels, r \in Requests : P9054_DMAReadWriteBlock(p, c, r)
  \/ SI_PLX_ReadBlockDMA(p)
  \/ SI_PLX_WriteBlockDMA(p)
  \/ InDriver(p)
  \/ Wait(p)
  \/ SI_PLX_GetAddonBufferAddr(p)
  \/ GotAddonBufferAddr(p)
  \/ SI_PLX_AddonInit(p)
  \/ Poll(p)
  \/ callback(p)

ClientNext ==
  \/ \E p \in Procs : Process(p)
  \/ Obey
  \/ RingDone
  \/ RingUnasked
  \/ Kernel

\* A process that spins on wait_event runs on (the library is built without
\* optimisation, so the field is read every time), signals are delivered, and
\* the DSP does what it was asked.
ClientFairness ==
  /\ \A p \in Procs : /\ WF_cvars(Poll(p))
                      /\ WF_cvars(callback(p))
                      /\ WF_cvars(BlockDMA(p))
                      /\ WF_cvars(Wait(p))
                      /\ WF_cvars(GotAddonBufferAddr(p))
  /\ WF_cvars(Obey)
  /\ WF_cvars(RingDone)

ClientSpec ==
  /\ ClientInit
  /\ [][ClientNext]_cvars
  /\ KernelFairness
  /\ CardFairness
  /\ ClientFairness

-----------------------------------------------------------------------------
\* Properties

\* What the call of p asked for has been done.
Done(p) ==
  IF call[p].kind = "addon" THEN order = "none" ELSE ~ in_progress[call[p].kind]

\* A call that waits returns when its own transfer is done, and not before,
\* unless a doorbell was rung that nobody asked for or an earlier call had
\* returned too soon (siabstract.cpp:199 "Successful Transfer, Data Read:").
ReturnsWhenDone ==
  [][\A p \in Procs : at[p] = "spin" /\ at'[p] = "idle" => stray[p] \/ Done(p)]_cvars

\* A call that waits for a transfer that was started, or for the doorbell of an
\* order that was given, returns: the signal is not lost between the library's
\* ioctl and its wait, nor in the driver, except a write completion that the
\* bottom half left behind because an earlier call had returned too soon.
CallReturns ==
  \A p \in Procs :
    at[p] \in {"returned", "spin"} /\ ~ Done(p)
      ~> at[p] = "idle" \/ (stray[p] /\ in_progress["write"])

\* While the card moves a block its FIFO stays turned the right way.
DirectionKept ==
  \A c \in Channels : running[c] /\ direction # c => \E p \in Procs : stray[p]

\* A process that waits for each of its transfers never has a write completion
\* left behind by the bottom half.
WriteEndsAlone ==
  in_progress["write"] ~> ~ in_progress["write"] \/ \E p \in Procs : stray[p]
=============================================================================
