----------------------------- MODULE BusMaster -----------------------------
(***************************************************************************)
(* Bus-mastered transfers of one PLX 9054 board of the siplx driver: the   *)
(* ioctl handlers and SIPLX_doBlockDMA_Read/_Write (busmaster.c), the      *)
(* interrupt handler, its bottom half on a work queue, the timeouts and    *)
(* CancelDMA (isr.c), and the INTCSR update of SIPLX_GetAddOn (plx0206.c). *)
(*                                                                         *)
(* The read and the write code are the same text over different fields and *)
(* registers, so both are written once here, over a channel.  Addresses    *)
(* and sizes are in 32-bit words; a buffer is its offset in its first page *)
(* and its length.                                                         *)
(***************************************************************************)
EXTENDS Integers

CONSTANTS
  Procs,        \* processes that call the driver's ioctls
  Worker,       \* the kernel work queue, which runs the bottom half
  Users,        \* [Channels -> SUBSET Procs]: who transfers on a channel
  Cancellers,   \* processes that call IOCTL_SHELDON_CANCEL_BUSMASTERING
  AddOnUsers,   \* processes that call IOCTL_SHELDON_GET_ADDON_ADDR
  Requests,     \* the buffers asked for: [off, count], in words
  PageSize,     \* words in a page
  MaxPages,     \* descriptors in a channel's table (1024 in the driver)
  PageLists,    \* the arrays of page pointers kmalloc can return
  NoList,       \* NULL, or descriptors that were never filled
  PinResults,   \* how get_user_pages may end: "all", "some", "error"
  KmallocFails, \* whether kmalloc may return NULL
  TimerValues,  \* values IOCTL_SHELDON_BUSMASTERED_TIMEOUT may set
  CardRings     \* whether the card's DSP rings the doorbell

Channels == {"read", "write"}
Sources == Channels \cup {"nonbus"}

ASSUME BusMasterAssumption ==
  /\ Worker \notin Procs
  /\ Users \in [Channels -> SUBSET Procs]
  /\ Cancellers \subseteq Procs
  /\ AddOnUsers \subseteq Procs
  /\ PageSize \in Nat \ {0}
  /\ MaxPages \in Nat \ {0}
  /\ Requests \subseteq [off : 0 .. PageSize - 1, count : Nat]
  /\ NoList \notin PageLists
  /\ KmallocFails \in BOOLEAN
  /\ TimerValues \subseteq Nat
  /\ CardRings \in BOOLEAN

VARIABLES
  in_progress,      \* transfer_info.in_progress, for each channel
  setup,            \* transfer_info.setup
  just_completed,   \* transfer_info.just_completed, for each source
  bytes_remaining,  \* transfer_info.bytes_remaining, in words
  timer_value,      \* transfer_info.timer_value
  pages,            \* transfer_info.pages
  heap,             \* a page list is "free", "held", or "pinned" with its pages
  desc,             \* the list whose pages the channel's descriptors address
  enabled,          \* DMACSR enable bit, for each channel
  running,          \* the channel is moving data: ~DMACSR done
  irq,              \* the channel has raised its done interrupt
  doorbell,         \* L2PDB holds a doorbell from the card
  intcsr,           \* the sources INTCSR lets through
  timer,            \* the kernel timer of a channel: "off" or "armed"
  handler,          \* the timeout handler of a channel: "idle", "wait", "clear"
  isr,              \* the interrupt handler: where it is, for which source
  work,             \* bh is queued and has not started
  sigio,            \* the processes that have a SIGIO pending
  pc, job, reg      \* an actor's place, the transfer it is at, its intcsr_reg

xfer == <<in_progress, setup, just_completed, bytes_remaining, timer_value, pages>>
mem  == <<heap, desc>>
plx  == <<enabled, running, irq, doorbell, intcsr>>
kern == <<timer, handler, isr, work, sigio>>
act  == <<pc, job, reg>>
vars == <<xfer, mem, plx, kern, act>>

Actors == Procs \cup {Worker}

NoJob == [ch |-> "read", off |-> 0, count |-> 0]

\* NRPAGES, and the size one descriptor table can carry
NrPages(r) == (r.off + r.count + PageSize - 1) \div PageSize
MaxSize(r) == MaxPages * PageSize - r.off
IoSize(r)  == IF r.count < MaxSize(r) THEN r.count ELSE MaxSize(r)

ENOMEM == -12
EFAULT == -14

\* "error < nr_pages" compares as unsigned: a negative error is a huge number
MutantRejects(error, n) == error >= 0 /\ error < n - 1
Rejects(error, n) == error >= 0 /\ error < n

Init ==
  /\ in_progress = [c \in Channels |-> FALSE]
  /\ setup = [c \in Channels |-> FALSE]
  /\ just_completed = [s \in Sources |-> FALSE]
  /\ bytes_remaining = [c \in Channels |-> 0]
  /\ timer_value = [c \in Channels |-> 0]
  /\ pages = [c \in Channels |-> NoList]
  /\ heap = [l \in PageLists |-> "free"]
  /\ desc = [c \in Channels |-> NoList]
  /\ enabled = [c \in Channels |-> FALSE]
  /\ running = [c \in Channels |-> FALSE]
  /\ irq = [c \in Channels |-> FALSE]
  /\ doorbell = FALSE
  /\ intcsr = {}
  /\ timer = [c \in Channels |-> "off"]
  /\ handler = [c \in Channels |-> "idle"]
  /\ isr = [at |-> "idle", src |-> "nonbus"]
  /\ work = FALSE
  /\ sigio = {}
  /\ pc = [a \in Actors |-> "idle"]
  /\ job = [a \in Actors |-> NoJob]
  /\ reg = [a \in Actors |-> {}]

-----------------------------------------------------------------------------
\* Control: an actor moves to a label, or leaves the driver.

Goto(a, from, to) ==
  /\ pc[a] = from
  /\ pc' = [pc EXCEPT ![a] = to]

Return(a, from) ==
  /\ Goto(a, from, "idle")
  /\ job' = [job EXCEPT ![a] = NoJob]
  /\ reg' = [reg EXCEPT ![a] = {}]

ChannelOf(a) == job[a].ch
ListOf(a) == pages[ChannelOf(a)]

-----------------------------------------------------------------------------
\* SIPLX_doBlockDMA_Read and SIPLX_doBlockDMA_Write

\* The BUSMASTERED_READ and _WRITE ioctls copy the arguments and call.
Call(p, c, r) ==
  /\ p \in Users[c]
  /\ Goto(p, "idle", "spin")
  /\ job' = [job EXCEPT ![p] = [ch |-> c, off |-> r.off, count |-> r.count]]
  /\ UNCHANGED <<xfer, mem, plx, kern, reg>>

MutantSpin(p) ==
  /\ Goto(p, "spin", "claim")
  /\ UNCHANGED <<xfer, mem, plx, kern, job, reg>>

\* while (in_progress);
Spin(p) ==
  /\ ~ in_progress[ChannelOf(p)]
  /\ Goto(p, "spin", "claim")
  /\ UNCHANGED <<xfer, mem, plx, kern, job, reg>>

MutantClaim(a) ==
  /\ Goto(a, "claim", "alloc")
  /\ in_progress' =
       IF setup[ChannelOf(a)] THEN [in_progress EXCEPT ![ChannelOf(a)] = TRUE]
       ELSE in_progress
  /\ UNCHANGED <<setup, just_completed, bytes_remaining, timer_value, pages,
                 mem, plx, kern, job, reg>>

\* if (!setup) in_progress = TRUE; the load and the store are one step, the
\* spin before it is another.
Claim(a) ==
  /\ Goto(a, "claim", "alloc")
  /\ in_progress' =
       IF setup[ChannelOf(a)] THEN in_progress
       ELSE [in_progress EXCEPT ![ChannelOf(a)] = TRUE]
  /\ UNCHANGED <<setup, just_completed, bytes_remaining, timer_value, pages,
                 mem, plx, kern, job, reg>>

Kmalloc(a) ==
  \E l \in PageLists :
    /\ heap[l] = "free"
    /\ Goto(a, "alloc", "build")
    /\ heap' = [heap EXCEPT ![l] = "held"]
    /\ pages' = [pages EXCEPT ![ChannelOf(a)] = l]
    /\ UNCHANGED <<in_progress, setup, just_completed, bytes_remaining,
                   timer_value, desc, plx, kern, job, reg>>

MutantKmallocNull(a) ==
  /\ KmallocFails \/ \A l \in PageLists : heap[l] # "free"
  /\ Return(a, "alloc")
  /\ pages' = [pages EXCEPT ![ChannelOf(a)] = ENOMEM]
  /\ UNCHANGED <<in_progress, setup, just_completed, bytes_remaining,
                 timer_value, mem, plx, kern>>

\* kmalloc returned NULL: return -ENOMEM, leaving in_progress as it is
KmallocNull(a) ==
  /\ KmallocFails \/ \A l \in PageLists : heap[l] # "free"
  /\ Return(a, "alloc")
  /\ pages' = [pages EXCEPT ![ChannelOf(a)] = NoList]
  /\ UNCHANGED <<in_progress, setup, just_completed, bytes_remaining,
                 timer_value, mem, plx, kern>>

\* What get_user_pages may return when it is asked for n pages.
GetUserPages(n) ==
  {e \in {EFAULT} \cup 0 .. n :
     (CASE e < 0 -> "error" [] e = n -> "all" [] OTHER -> "some") \in PinResults}

TooManyPages(r) == NrPages(r) > MaxPages

\* SIPLX_Build_SGL faults when current->mm or the list is NULL.
Oopses(a) ==
  /\ ~ TooManyPages(job[a])
  /\ job[a].count # 0
  /\ a = Worker \/ ListOf(a) = NoList

\* What SIPLX_Build_SGL returns.
SglResults(a) ==
  IF TooManyPages(job[a]) THEN {ENOMEM}
  ELSE IF job[a].count = 0 THEN {0}
  ELSE GetUserPages(NrPages(job[a]))

\* The table after SIPLX_Build_SGL returned e: it is written only when
\* get_user_pages is not seen to have failed, and then from pages[], whose
\* entries are garbage unless all the pages were pinned.
SIPLX_Build_SGL(a, e) ==
  LET pinned == e = NrPages(job[a]) /\ job[a].count # 0
      written == ~ TooManyPages(job[a]) /\ job[a].count # 0
                 /\ ~ Rejects(e, NrPages(job[a]))
  IN /\ heap' = IF pinned THEN [heap EXCEPT ![ListOf(a)] = "pinned"] ELSE heap
     /\ desc' = IF written
                THEN [desc EXCEPT ![ChannelOf(a)] = IF pinned THEN ListOf(a) ELSE NoList]
                ELSE desc

Build(a) ==
  /\ ~ Oopses(a)
  /\ \E e \in SglResults(a) :
       /\ SIPLX_Build_SGL(a, e)
       /\ IF Rejects(e, NrPages(job[a]))
          THEN /\ Goto(a, "build", "fail")
               /\ UNCHANGED bytes_remaining
          ELSE /\ Goto(a, "build", "mask_read")
               /\ bytes_remaining' = [bytes_remaining EXCEPT
                    ![ChannelOf(a)] = job[a].count - IoSize(job[a])]
  /\ UNCHANGED <<in_progress, setup, just_completed, timer_value, pages,
                 plx, kern, job, reg>>

Oops(a) ==
  /\ Oopses(a)
  /\ Goto(a, "build", "oops")
  /\ UNCHANGED <<xfer, mem, plx, kern, job, reg>>

MutantFail(a) ==
  /\ Goto(a, "fail", "fail_free")
  /\ UNCHANGED <<xfer, mem, plx, kern, job, reg>>

\* in_progress = FALSE; kfree(pages); return -error
Fail(a) ==
  /\ Goto(a, "fail", "fail_free")
  /\ in_progress' = [in_progress EXCEPT ![ChannelOf(a)] = FALSE]
  /\ UNCHANGED <<setup, just_completed, bytes_remaining, timer_value, pages,
                 mem, plx, kern, job, reg>>

Kfree(l) == heap' = [x \in PageLists |-> IF x = l THEN "free" ELSE heap[x]]

MutantFailFree(a) ==
  /\ Return(a, "fail_free")
  /\ UNCHANGED <<xfer, mem, plx, kern>>

FailFree(a) ==
  /\ Return(a, "fail_free")
  /\ Kfree(ListOf(a))
  /\ UNCHANGED <<xfer, desc, plx, kern>>

\* INTCSR is read, changed in intcsr_reg and written back: four accesses, the
\* DMA registers being written between the second and the third.
ReadToMask(a) ==
  /\ Goto(a, "mask_read", "mask_write")
  /\ reg' = [reg EXCEPT ![a] = intcsr \ {ChannelOf(a)}]
  /\ UNCHANGED <<xfer, mem, plx, kern, job>>

WriteMasked(a) ==
  /\ Goto(a, "mask_write", "enable_read")
  /\ intcsr' = reg[a]
  /\ UNCHANGED <<xfer, mem, enabled, running, irq, doorbell, kern, job, reg>>

MutantReadToEnable(a) ==
  /\ Goto(a, "enable_read", "enable_write")
  /\ reg' = [reg EXCEPT ![a] = intcsr]
  /\ UNCHANGED <<xfer, mem, plx, kern, job>>

ReadToEnable(a) ==
  /\ Goto(a, "enable_read", "enable_write")
  /\ reg' = [reg EXCEPT ![a] = intcsr \cup {ChannelOf(a)}]
  /\ UNCHANGED <<xfer, mem, plx, kern, job>>

WriteEnabled(a) ==
  /\ Goto(a, "enable_write", "set_timer")
  /\ intcsr' = reg[a]
  /\ UNCHANGED <<xfer, mem, enabled, running, irq, doorbell, kern, job, reg>>

SetTimer(a) ==
  /\ Goto(a, "set_timer", "start")
  /\ timer' = IF timer_value[ChannelOf(a)] # 0
              THEN [timer EXCEPT ![ChannelOf(a)] = "armed"] ELSE timer
  /\ UNCHANGED <<xfer, mem, plx, handler, isr, work, sigio, job, reg>>

StartDMA(a) ==
  /\ Return(a, "start")
  /\ enabled' = [enabled EXCEPT ![ChannelOf(a)] = TRUE]
  /\ running' = [running EXCEPT ![ChannelOf(a)] = TRUE]
  /\ UNCHANGED <<xfer, mem, irq, doorbell, intcsr, kern>>

DoBlockDMA(a) ==
  \/ Spin(a)
  \/ Claim(a)
  \/ Kmalloc(a)
  \/ KmallocNull(a)
  \/ Build(a)
  \/ Oops(a)
  \/ Fail(a)
  \/ FailFree(a)
  \/ ReadToMask(a)
  \/ WriteMasked(a)
  \/ ReadToEnable(a)
  \/ WriteEnabled(a)
  \/ SetTimer(a)
  \/ StartDMA(a)

SIPLX_doBlockDMA_Read(a)  == ChannelOf(a) = "read" /\ DoBlockDMA(a)
SIPLX_doBlockDMA_Write(a) == ChannelOf(a) = "write" /\ DoBlockDMA(a)

-----------------------------------------------------------------------------
\* The other ioctls

\* Both timer values, the write channel's first; two plain stores, one step.
SetTimeout(p, v) ==
  /\ pc[p] = "idle"
  /\ timer_value' = [c \in Channels |-> v]
  /\ UNCHANGED <<in_progress, setup, just_completed, bytes_remaining, pages,
                 mem, plx, kern, act>>

\* writeb(0), writeb(4): the channel is disabled and aborted.  Whether an
\* abort of a running channel also raises its interrupt is left open.
Abort(c) ==
  /\ enabled' = [enabled EXCEPT ![c] = FALSE]
  /\ running' = [running EXCEPT ![c] = FALSE]
  /\ \E raised \in BOOLEAN :
       irq' = [irq EXCEPT ![c] = irq[c] \/ (raised /\ running[c])]
  /\ UNCHANGED <<doorbell, intcsr>>

\* DMACSR reads back exactly PLX_DONE.
Stopped(c) == ~ enabled[c] /\ ~ running[c]

\* CancelDMA asks for t_type == PLX_READ, and nothing ever assigns t_type:
\* it keeps the value 0 of a static object, which is PLX_WRITE.
PLX_READ == 8
t_type == 0
CancelChannel == IF t_type = PLX_READ THEN "read" ELSE "write"

SIPLX_CancelDMA(p) ==
  /\ p \in Cancellers
  /\ Goto(p, "idle", "cancel")
  /\ UNCHANGED <<xfer, mem, plx, kern, job, reg>>

CancelAbort(p) ==
  \/ /\ ~ in_progress[CancelChannel]
     /\ Goto(p, "cancel", "idle")
     /\ UNCHANGED <<xfer, mem, plx, kern, job, reg>>
  \/ /\ in_progress[CancelChannel]
     /\ Goto(p, "cancel", "cancel_wait")
     /\ Abort(CancelChannel)
     /\ UNCHANGED <<xfer, mem, kern, job, reg>>

CancelWait(p) ==
  /\ Goto(p, "cancel_wait", "cancel_clear")
  /\ Stopped(CancelChannel)
  /\ just_completed' = [just_completed EXCEPT ![CancelChannel] = FALSE]
  /\ UNCHANGED <<in_progress, setup, bytes_remaining, timer_value, pages,
                 mem, plx, kern, job, reg>>

CancelClear(p) ==
  /\ Goto(p, "cancel_clear", "idle")
  /\ in_progress' = [in_progress EXCEPT ![CancelChannel] = FALSE]
  /\ UNCHANGED <<setup, just_completed, bytes_remaining, timer_value, pages,
                 mem, plx, kern, job, reg>>

\* SIPLX_GetAddOn turns the doorbell interrupt on, by a read and a write.
SIPLX_GetAddOn(p) ==
  /\ p \in AddOnUsers
  /\ Goto(p, "idle", "addon_write")
  /\ reg' = [reg EXCEPT ![p] = intcsr \cup {"nonbus"}]
  /\ UNCHANGED <<xfer, mem, plx, kern, job>>

GetAddOnWrite(p) ==
  /\ Return(p, "addon_write")
  /\ intcsr' = reg[p]
  /\ UNCHANGED <<xfer, mem, enabled, running, irq, doorbell, kern>>

-----------------------------------------------------------------------------
\* SIPLX_isr.  It takes one source a call, the read channel before the write
\* channel before the doorbell, and claims a channel's interrupt only while
\* in_progress is set.

Interrupts(s) == s \in intcsr /\ IF s = "nonbus" THEN doorbell ELSE irq[s]
Claims(s) == Interrupts(s) /\ (s \in Channels => in_progress[s])

SIPLX_isr(s) ==
  /\ isr.at = "idle"
  /\ Claims(s)
  /\ s # "read" => ~ Claims("read")
  /\ s = "nonbus" => ~ Claims("write")
  /\ isr' = [at |-> "mark", src |-> s]
  /\ IF s = "nonbus"
     THEN /\ doorbell' = FALSE
          /\ UNCHANGED <<irq, enabled>>
     ELSE \* writeb(0x08): clear the interrupt, and with it the enable bit
          /\ irq' = [irq EXCEPT ![s] = FALSE]
          /\ enabled' = [enabled EXCEPT ![s] = FALSE]
          /\ UNCHANGED doorbell
  /\ UNCHANGED <<xfer, mem, running, intcsr, timer, handler, work, sigio, act>>

IsrMark ==
  /\ isr.at = "mark"
  /\ isr' = [isr EXCEPT !.at = "queue"]
  /\ just_completed' = [just_completed EXCEPT ![isr.src] = TRUE]
  /\ UNCHANGED <<in_progress, setup, bytes_remaining, timer_value, pages,
                 mem, plx, timer, handler, work, sigio, act>>

MutantIsrQueue ==
  /\ isr.at = "queue"
  /\ isr' = [at |-> "idle", src |-> "nonbus"]
  /\ work' = (work \/ pc[Worker] = "idle")
  /\ UNCHANGED <<xfer, mem, plx, timer, handler, sigio, act>>

\* schedule_work has no effect on work that is already queued
IsrQueue ==
  /\ isr.at = "queue"
  /\ isr' = [at |-> "idle", src |-> "nonbus"]
  /\ work' = TRUE
  /\ UNCHANGED <<xfer, mem, plx, timer, handler, sigio, act>>

-----------------------------------------------------------------------------
\* SIPLX_isr_bottomhalf: one run serves one source.

\* The work queue takes bh off its list and calls it.
RunWork ==
  /\ work
  /\ Goto(Worker, "idle", "bh")
  /\ work' = FALSE
  /\ UNCHANGED <<xfer, mem, plx, timer, handler, isr, sigio, job, reg>>

MutantServe(c) ==
  /\ just_completed[c]
  /\ c = "read" => ~ just_completed["write"]
  /\ Goto(Worker, "bh", "bh_stop")
  /\ job' = [job EXCEPT ![Worker] = [NoJob EXCEPT !.ch = c]]
  /\ UNCHANGED <<xfer, mem, plx, kern, reg>>

MutantServeUnasked(c) ==
  /\ c = "write" => ~ just_completed["read"]
  /\ Goto(Worker, "bh", "bh_stop")
  /\ job' = [job EXCEPT ![Worker] = [NoJob EXCEPT !.ch = c]]
  /\ UNCHANGED <<xfer, mem, plx, kern, reg>>

Serve(c) ==
  /\ just_completed[c]
  /\ c = "write" => ~ just_completed["read"]
  /\ Goto(Worker, "bh", "bh_stop")
  /\ job' = [job EXCEPT ![Worker] = [NoJob EXCEPT !.ch = c]]
  /\ UNCHANGED <<xfer, mem, plx, kern, reg>>

ServeNonBus ==
  /\ \A c \in Channels : ~ just_completed[c]
  /\ Return(Worker, "bh")
  /\ just_completed' = [just_completed EXCEPT !["nonbus"] = FALSE]
  /\ sigio' = IF just_completed["nonbus"] THEN Procs ELSE sigio
  /\ UNCHANGED <<in_progress, setup, bytes_remaining, timer_value, pages,
                 mem, plx, timer, handler, isr, work>>

\* del_timer: takes the timer off, does not wait for a handler that started
StopTimer ==
  /\ Goto(Worker, "bh_stop", "bh_take")
  /\ timer' = IF timer_value[ChannelOf(Worker)] # 0
              THEN [timer EXCEPT ![ChannelOf(Worker)] = "off"] ELSE timer
  /\ UNCHANGED <<xfer, mem, plx, handler, isr, work, sigio, job, reg>>

MutantTake ==
  LET c == ChannelOf(Worker)
  IN /\ setup' = [setup EXCEPT ![c] = TRUE]
     /\ just_completed' = [just_completed EXCEPT ![c] = FALSE]
     /\ IF bytes_remaining[c] # 0
        THEN /\ Goto(Worker, "bh_take", "claim")
             /\ job' = [job EXCEPT ![Worker].count = bytes_remaining[c]]
             /\ UNCHANGED in_progress
        ELSE /\ Goto(Worker, "bh_take", "bh_unmap")
             /\ in_progress' = [in_progress EXCEPT ![c] = FALSE]
             /\ UNCHANGED job
     /\ UNCHANGED <<bytes_remaining, timer_value, pages, mem, plx, kern, reg>>

\* What remains goes to doBlockDMA with start == FALSE; it begins at a page
\* boundary, since only a whole table leaves anything over.
Take ==
  LET c == ChannelOf(Worker)
  IN /\ setup' = [setup EXCEPT ![c] = TRUE]
     /\ just_completed' = [just_completed EXCEPT ![c] = FALSE]
     /\ IF bytes_remaining[c] # 0
        THEN /\ Goto(Worker, "bh_take", "claim")
             /\ job' = [job EXCEPT ![Worker].count = bytes_remaining[c]]
        ELSE /\ Goto(Worker, "bh_take", "bh_unmap")
             /\ UNCHANGED job
     /\ UNCHANGED <<in_progress, bytes_remaining, timer_value, pages,
                    mem, plx, kern, reg>>

MutantUnmap ==
  /\ Goto(Worker, "bh_unmap", "bh_free")
  /\ heap' = [l \in PageLists |->
                IF l = ListOf(Worker) /\ heap[l] = "pinned" THEN "held" ELSE heap[l]]
  /\ in_progress' = [in_progress EXCEPT ![ChannelOf(Worker)] = FALSE]
  /\ UNCHANGED <<setup, just_completed, bytes_remaining, timer_value, pages,
                 desc, plx, kern, job, reg>>

SIPLX_Unmap_Pages ==
  /\ Goto(Worker, "bh_unmap", "bh_free")
  /\ heap' = [l \in PageLists |->
                IF l = ListOf(Worker) /\ heap[l] = "pinned" THEN "held" ELSE heap[l]]
  /\ UNCHANGED <<xfer, desc, plx, kern, job, reg>>

MutantFreePages ==
  /\ Goto(Worker, "bh_free", "bh_clear")
  /\ Kfree(ListOf(Worker))
  /\ UNCHANGED <<xfer, desc, plx, kern, job, reg>>

FreePages ==
  /\ Goto(Worker, "bh_free", "bh_clear")
  /\ Kfree(ListOf(Worker))
  /\ setup' = [setup EXCEPT ![ChannelOf(Worker)] = FALSE]
  /\ UNCHANGED <<in_progress, just_completed, bytes_remaining, timer_value,
                 pages, desc, plx, kern, job, reg>>

ClearInProgress ==
  /\ Goto(Worker, "bh_clear", "bh_signal")
  /\ in_progress' = [in_progress EXCEPT ![ChannelOf(Worker)] = FALSE]
  /\ UNCHANGED <<setup, just_completed, bytes_remaining, timer_value, pages,
                 mem, plx, kern, job, reg>>

\* kill_fasync(&async_queue, SIGIO, POLL_IN): a SIGIO to every process that has
\* the board open
Signal ==
  /\ Return(Worker, "bh_signal")
  /\ sigio' = Procs
  /\ UNCHANGED <<xfer, mem, plx, timer, handler, isr, work>>

BottomHalf(c) ==
  \/ Serve(c)
  \/ /\ ChannelOf(Worker) = c
     /\ \/ StopTimer
        \/ Take
        \/ SIPLX_Unmap_Pages
        \/ FreePages
        \/ ClearInProgress
        \/ Signal

ReadBottomHalf  == BottomHalf("read")
WriteBottomHalf == BottomHalf("write")

-----------------------------------------------------------------------------
\* SIPLX_read_time_out and SIPLX_write_time_out, in timer context

TimeOut(c) ==
  /\ timer[c] = "armed"
  /\ handler[c] = "idle"
  /\ timer' = [timer EXCEPT ![c] = "off"]
  /\ handler' = [handler EXCEPT ![c] = "wait"]
  /\ Abort(c)
  /\ UNCHANGED <<xfer, mem, isr, work, sigio, act>>

TimeOutWait(c) ==
  /\ handler[c] = "wait"
  /\ Stopped(c)
  /\ handler' = [handler EXCEPT ![c] = "clear"]
  /\ just_completed' = [just_completed EXCEPT ![c] = FALSE]
  /\ UNCHANGED <<in_progress, setup, bytes_remaining, timer_value, pages,
                 mem, plx, timer, isr, work, sigio, act>>

TimeOutClear(c) ==
  /\ handler[c] = "clear"
  /\ handler' = [handler EXCEPT ![c] = "idle"]
  /\ in_progress' = [in_progress EXCEPT ![c] = FALSE]
  /\ UNCHANGED <<setup, just_completed, bytes_remaining, timer_value, pages,
                 mem, plx, timer, isr, work, sigio, act>>

SIPLX_read_time_out ==
  TimeOut("read") \/ TimeOutWait("read") \/ TimeOutClear("read")
SIPLX_write_time_out ==
  TimeOut("write") \/ TimeOutWait("write") \/ TimeOutClear("write")

-----------------------------------------------------------------------------
\* The hardware and the processes' signal handlers

Complete(c) ==
  /\ enabled[c] /\ running[c]
  /\ running' = [running EXCEPT ![c] = FALSE]
  /\ irq' = [irq EXCEPT ![c] = TRUE]
  /\ UNCHANGED <<xfer, mem, enabled, doorbell, intcsr, kern, act>>

Ring ==
  /\ CardRings
  /\ ~ doorbell
  /\ doorbell' = TRUE
  /\ UNCHANGED <<xfer, mem, enabled, running, irq, intcsr, kern, act>>

DeliverSignal(p) ==
  /\ p \in sigio
  /\ sigio' = sigio \ {p}
  /\ UNCHANGED <<xfer, mem, plx, timer, handler, isr, work, act>>

Deliver == \E p \in Procs : DeliverSignal(p)

-----------------------------------------------------------------------------

Ioctl(p) ==
  \/ \E c \in Channels, r \in Requests : Call(p, c, r)
  \/ \E v \in TimerValues : SetTimeout(p, v)
  \/ SIPLX_CancelDMA(p)
  \/ CancelAbort(p)
  \/ CancelWait(p)
  \/ CancelClear(p)
  \/ SIPLX_GetAddOn(p)
  \/ GetAddOnWrite(p)

Isr == (\E s \in Sources : SIPLX_isr(s)) \/ IsrMark \/ IsrQueue

Next ==
  \/ \E p \in Procs : Ioctl(p)
  \/ \E a \in Actors : SIPLX_doBlockDMA_Read(a) \/ SIPLX_doBlockDMA_Write(a)
  \/ Isr
  \/ RunWork
  \/ ReadBottomHalf
  \/ WriteBottomHalf
  \/ ServeNonBus
  \/ SIPLX_read_time_out
  \/ SIPLX_write_time_out
  \/ \E c \in Channels : Complete(c)
  \/ Ring
  \/ Deliver

Spec == Init /\ [][Next]_vars
\* Fairness.  Kernel code that is not waiting runs on; a line that is asserted
\* reaches its handler; queued work and expired timers run.  Nothing is asked
\* of the processes, and nothing of the spin loop: it reads a plain field, which
\* a compiler may read only once.
KernelFairness ==
  /\ \A a \in Actors : WF_vars(pc[a] # "spin" /\ DoBlockDMA(a))
  /\ WF_vars(Isr)
  /\ WF_vars(RunWork)
  /\ WF_vars(ReadBottomHalf \/ WriteBottomHalf \/ ServeNonBus)
  /\ WF_vars(SIPLX_read_time_out)
  /\ WF_vars(SIPLX_write_time_out)

\* The card moves the data of a channel that was started.
CardFairness == \A c \in Channels : WF_vars(Complete(c))

FairSpec == Spec /\ KernelFairness /\ CardFairness

-----------------------------------------------------------------------------
\* Properties

Labels == {"idle", "spin", "claim", "alloc", "build", "oops", "fail",
           "fail_free", "mask_read", "mask_write", "enable_read",
           "enable_write", "set_timer", "start", "cancel", "cancel_wait",
           "cancel_clear", "addon_write", "bh", "bh_stop", "bh_take",
           "bh_unmap", "bh_free", "bh_clear", "bh_signal"}

\* Every variable has its type.
TypeOK ==
  /\ in_progress \in [Channels -> BOOLEAN]
  /\ setup \in [Channels -> BOOLEAN]
  /\ just_completed \in [Sources -> BOOLEAN]
  /\ bytes_remaining \in [Channels -> Int]
  /\ timer_value \in [Channels -> Nat]
  /\ pages \in [Channels -> PageLists \cup {NoList}]
  /\ heap \in [PageLists -> {"free", "held", "pinned"}]
  /\ desc \in [Channels -> PageLists \cup {NoList}]
  /\ enabled \in [Channels -> BOOLEAN]
  /\ running \in [Channels -> BOOLEAN]
  /\ irq \in [Channels -> BOOLEAN]
  /\ doorbell \in BOOLEAN
  /\ intcsr \in SUBSET Sources
  /\ timer \in [Channels -> {"off", "armed"}]
  /\ handler \in [Channels -> {"idle", "wait", "clear"}]
  /\ isr \in [at : {"idle", "mark", "queue"}, src : Sources]
  /\ work \in BOOLEAN
  /\ sigio \in SUBSET Procs
  /\ pc \in [Actors -> Labels]
  /\ job \in [Actors -> [ch : Channels, off : 0 .. PageSize - 1, count : Int]]
  /\ reg \in [Actors -> SUBSET Sources]

At(a, c, labels) == pc[a] \in labels /\ ChannelOf(a) = c

\* The card moves data only through descriptors that address pages this
\* transfer has pinned, and only while the channel is marked in progress.
DMASafety ==
  \A c \in Channels : running[c] =>
    /\ in_progress[c]
    /\ desc[c] = pages[c]
    /\ desc[c] \in PageLists /\ heap[desc[c]] = "pinned"

\* The bottom half unpins pages only when the card is done with the channel,
\* and only pages that are pinned; whoever frees a list frees one that is
\* allocated and holds no pin (no double kfree, no pages pinned for ever).
ReleaseSafety ==
  \A a \in Actors :
    /\ pc[a] = "bh_unmap" =>
         /\ ~ running[ChannelOf(a)]
         /\ ListOf(a) \in PageLists /\ heap[ListOf(a)] = "pinned"
    /\ pc[a] \in {"bh_free", "fail_free"} =>
         ListOf(a) \in PageLists /\ heap[ListOf(a)] = "held"

\* A page list that is not free belongs to a channel in progress, or to the
\* call that is about to free it: a channel that is ready for its next
\* transfer holds no memory of the last one.
NoLeak ==
  \A l \in PageLists : heap[l] # "free" =>
    \E c \in Channels :
      /\ pages[c] = l
      /\ in_progress[c] \/ \E a \in Actors : At(a, c, {"fail_free"})

\* A read completion that the interrupt handler recorded is never forgotten:
\* bh is queued, or the handler is about to queue it, or the bottom half has
\* still to look at the flag or is serving it.
ReadCompletionKept ==
  just_completed["read"] =>
    \/ work
    \/ isr.at = "queue"
    \/ pc[Worker] = "bh"
    \/ At(Worker, "read", {"bh_stop", "bh_take"})

\* An interrupt line that is asserted is one SIPLX_isr acknowledges: it never
\* meets a done interrupt on a channel it believes idle and returns IRQ_NONE.
IrqClaimed == \A c \in Channels : Interrupts(c) => in_progress[c]

\* While a transfer moves data or its interrupt waits, INTCSR lets that
\* interrupt through.
IrqUnmasked == \A c \in Channels : running[c] \/ irq[c] => c \in intcsr

\* in_progress falls only when the transfer is over: the card has stopped and
\* its interrupt has been acknowledged and served.
ReleasedOnlyWhenDone ==
  [][\A c \in Channels : in_progress[c] /\ ~ in_progress'[c] =>
       ~ running[c] /\ ~ irq[c] /\ ~ just_completed[c]]_vars

\* in_progress rises only for a channel whose previous transfer is over: there
\* is no completion of an older transfer that could be taken for the new one's.
ClaimedOnlyWhenQuiet ==
  [][\A c \in Channels : ~ in_progress[c] /\ in_progress'[c] =>
       /\ ~ running[c] /\ ~ irq[c] /\ ~ just_completed[c]
       /\ timer[c] = "off" /\ handler[c] = "idle"
       /\ ~ At(Worker, c, {"bh_stop", "bh_take", "bh_unmap", "bh_free", "bh_clear"})]_vars

\* A transfer that was started comes to an end.
ReadEnds  == in_progress["read"] ~> ~ in_progress["read"]
WriteEnds == in_progress["write"] ~> ~ in_progress["write"]
=============================================================================
