------------------------------ MODULE AddonMap ------------------------------
(***************************************************************************)
(* The card's own buffer mapped for a process: the library's               *)
(* SI_PLX_GetAddonBufferAddr and -Release, the ioctl behind the first      *)
(* (SIPLX_GetAddOn, SIPLX_do_mmap), and the driver's mmap, which the       *)
(* kernel calls back (sicommon_plx_lnx.cpp, plx0206.c, main.c).  The       *)
(* threads of the process share its mmap_sem, which building a transfer's  *)
(* list takes as well (busmaster.c).                                       *)
(***************************************************************************)
EXTENDS Integers

CONSTANTS
  Threads,   \* of one process
  NoThread,
  MaxMapped  \* bounds mapped

VARIABLES
  pc,        \* where each thread is
  writer,    \* mmap_sem: the thread that holds it for writing, or NoThread,
  readers,   \*   and those that hold it for reading
  unlimited, \* the process may lock any amount of memory
  mapped,    \* how many mappings of the buffer there are
  uAdr,      \* what vm_mmap returned: "address" or "error"
  intsOn,    \* INTCSR has the Lint and doorbell interrupts enabled
  window     \* DMLBAM and DMPBAM point at the buffer

vars == <<pc, writer, readers, unlimited, mapped, uAdr, intsOn, window>>

Init ==
  /\ pc = [t \in Threads |-> "idle"]
  /\ writer = NoThread /\ readers = {}
  /\ unlimited = FALSE
  /\ mapped = 0
  /\ uAdr = [t \in Threads |-> "error"]
  /\ intsOn = FALSE /\ window = FALSE

Goto(t, from, to) == pc[t] = from /\ pc' = [pc EXCEPT ![t] = to]

-----------------------------------------------------------------------------
\* mmap_sem, which is not recursive

down_write(t) ==
  /\ writer = NoThread /\ readers = {}
  /\ writer' = t

up_write == writer' = NoThread

down_read(t) ==
  /\ writer = NoThread
  /\ readers' = readers \cup {t}

-----------------------------------------------------------------------------
\* SI_PLX_GetAddonBufferAddr, as far as the ioctl

GetAddonBufferAddr(t) ==
  /\ mapped < MaxMapped
  /\ Goto(t, "idle", "do_mmap")
  /\ UNCHANGED <<writer, readers, unlimited, mapped, uAdr, intsOn, window>>

\* SIPLX_do_mmap.  The two checks of the size cannot fail.
RaiseLimit(t) ==
  /\ Goto(t, "do_mmap", "down_write")
  /\ unlimited' = TRUE
  /\ UNCHANGED <<writer, readers, mapped, uAdr, intsOn, window>>

DownWrite(t) ==
  /\ Goto(t, "down_write", "vm_mmap")
  /\ down_write(t)
  /\ UNCHANGED <<readers, unlimited, mapped, uAdr, intsOn, window>>

\* vm_mmap takes mmap_sem for its caller.
VmMmap(t) ==
  /\ Goto(t, "vm_mmap", "mmap")
  /\ down_write(t)
  /\ UNCHANGED <<readers, unlimited, mapped, uAdr, intsOn, window>>

\* The mapping may fail, in remap_pfn_range or before.
SIPLX_mmap(t) ==
  /\ Goto(t, "mmap", "up_write")
  /\ \E result \in {"address", "error"} :
       /\ uAdr' = [uAdr EXCEPT ![t] = result]
       /\ mapped' = IF result = "address" THEN mapped + 1 ELSE mapped
  /\ up_write
  /\ UNCHANGED <<readers, unlimited, intsOn, window>>

\* An error is a large unsigned number, and is put where the address goes; -1
\* would be as true as 1.
UpWrite(t) ==
  /\ Goto(t, "up_write", "enable")
  /\ up_write
  /\ UNCHANGED <<readers, unlimited, mapped, uAdr, intsOn, window>>

EnableInts(t) ==
  /\ Goto(t, "enable", "window")
  /\ intsOn' = TRUE
  /\ UNCHANGED <<writer, readers, unlimited, mapped, uAdr, window>>

\* The two registers, and the return to the library, which asks for the size
\* and returns.
SetWindow(t) ==
  /\ Goto(t, "window", "idle")
  /\ window' = TRUE
  /\ UNCHANGED <<writer, readers, unlimited, mapped, uAdr, intsOn>>

GetAddOn(t) ==
  \/ RaiseLimit(t) \/ DownWrite(t) \/ VmMmap(t) \/ SIPLX_mmap(t) \/ UpWrite(t)
  \/ EnableInts(t) \/ SetWindow(t)

\* SI_PLX_ReleaseAddonBufferAddr: munmap holds mmap_sem as long as it takes.
ReleaseAddonBufferAddr(t) ==
  /\ pc[t] = "idle" /\ mapped > 0
  /\ writer = NoThread /\ readers = {}
  /\ mapped' = mapped - 1
  /\ UNCHANGED <<pc, writer, readers, unlimited, uAdr, intsOn, window>>

\* SIPLX_Build_SGL faults in the pages of a transfer.
FaultIn(t) ==
  /\ Goto(t, "idle", "get_user_pages")
  /\ down_read(t)
  /\ UNCHANGED <<writer, unlimited, mapped, uAdr, intsOn, window>>

FaultedIn(t) ==
  /\ Goto(t, "get_user_pages", "idle")
  /\ readers' = readers \ {t}
  /\ UNCHANGED <<writer, unlimited, mapped, uAdr, intsOn, window>>

Next ==
  \E t \in Threads :
    \/ GetAddonBufferAddr(t) \/ GetAddOn(t)
    \/ ReleaseAddonBufferAddr(t)
    \/ FaultIn(t) \/ FaultedIn(t)

Spec == Init /\ [][Next]_vars

\* A thread in the kernel goes on unless it sleeps, and the semaphore passes over
\* nobody for ever.
FairSpec ==
  Spec /\ \A t \in Threads : SF_vars(GetAddOn(t)) /\ WF_vars(FaultedIn(t))

-----------------------------------------------------------------------------
\* "enable Lint and db ints" (plx0206.c:242): a call that asks for the buffer
\* gets as far as enabling the card's interrupts.
EnablesInts == \A t \in Threads : pc[t] = "do_mmap" ~> intsOn
=============================================================================
