--------------------------- MODULE BusMaster_proofs ---------------------------
(***************************************************************************)
(* Theorems about BusMaster, for every value of the constants that         *)
(* BusMasterAssumption allows: the types and the read completion, for any  *)
(* calls; and IInv under Discipline, with the safety of the page lists,    *)
(* the descriptors and the interrupts that follows from it, and the        *)
(* refinement of DmaChannel: every step of the driver is a step of one     *)
(* abstract channel or none.                                               *)
(***************************************************************************)
EXTENDS BusMasterRefinement, TLAPS

USE BusMasterAssumption

-----------------------------------------------------------------------------
\* Type correctness

LEMMA TypeInit == Init => TypeOK
<1> SUFFICES ASSUME Init PROVE TypeOK
  OBVIOUS
<1>1. NoJob \in [ch : Channels, off : 0 .. PageSize - 1, count : Int]
  BY DEF NoJob, Channels, BusMasterAssumption
<1>2. job \in [Actors -> [ch : Channels, off : 0 .. PageSize - 1, count : Int]]
  BY <1>1 DEF Init
<1>3. isr \in [at : {"idle", "mark", "queue"}, src : Sources]
  BY DEF Init, Sources
<1>4. pc \in [Actors -> Labels] /\ reg \in [Actors -> SUBSET Sources]
  BY DEF Init, Labels
<1>5. doorbell \in BOOLEAN /\ work \in BOOLEAN /\ sigio \in SUBSET Procs
  BY DEF Init
<1>6. /\ in_progress \in [Channels -> BOOLEAN]
      /\ setup \in [Channels -> BOOLEAN]
      /\ just_completed \in [Sources -> BOOLEAN]
      /\ enabled \in [Channels -> BOOLEAN]
      /\ running \in [Channels -> BOOLEAN]
      /\ irq \in [Channels -> BOOLEAN]
  BY DEF Init
<1>7. /\ bytes_remaining \in [Channels -> Int]
      /\ timer_value \in [Channels -> Nat]
  BY DEF Init
<1>8. /\ pages \in [Channels -> PageLists \cup {NoList}]
      /\ heap \in [PageLists -> {"free", "held", "pinned"}]
      /\ desc \in [Channels -> PageLists \cup {NoList}]
  BY DEF Init
<1>9. /\ timer \in [Channels -> {"off", "armed"}]
      /\ handler \in [Channels -> {"idle", "wait", "clear"}]
      /\ intcsr \in SUBSET Sources
  BY DEF Init
<1> QED
  BY <1>2, <1>3, <1>4, <1>5, <1>6, <1>7, <1>8, <1>9 DEF TypeOK

\* What is left over after a table is an integer.
LEMMA IoSizeType ==
  ASSUME NEW r \in [ch : Channels, off : 0 .. PageSize - 1, count : Int]
  PROVE  IoSize(r) \in Int /\ r.count - IoSize(r) \in Int
<1>1. PageSize \in Int /\ MaxPages \in Int
  BY DEF BusMasterAssumption
<1>2. r.off \in Int /\ r.count \in Int
  OBVIOUS
<1>3. MaxPages * PageSize \in Int
  BY <1>1
<1> QED
  BY <1>2, <1>3 DEF IoSize, MaxSize

\* The steps of SIPLX_doBlockDMA keep the types.
LEMMA TypeDoBlockDMA ==
  ASSUME TypeOK, NEW a \in Actors, DoBlockDMA(a)
  PROVE  TypeOK'
<1> USE DEF TypeOK, Goto, Return, ChannelOf, ListOf, Channels, Sources, Actors,
            Labels, NoJob, xfer, mem, plx, kern, act
<1>1. CASE Spin(a)
  BY <1>1 DEF Spin
<1>2. CASE Claim(a)
  BY <1>2 DEF Claim
<1>3. CASE Kmalloc(a)
  BY <1>3 DEF Kmalloc
<1>4. CASE KmallocNull(a)
  BY <1>4 DEF KmallocNull
<1>5. CASE Build(a)
  <2>1. job[a].count - IoSize(job[a]) \in Int
    BY IoSizeType
  <2>2. bytes_remaining' \in [Channels -> Int]
    BY <1>5, <2>1 DEF Build
  <2>3. PICK e \in SglResults(a) : SIPLX_Build_SGL(a, e)
    BY <1>5 DEF Build
  <2>5. heap' \in [PageLists -> {"free", "held", "pinned"}]
    BY <2>3 DEF SIPLX_Build_SGL
  <2>6. ListOf(a) \in PageLists \cup {NoList}
    OBVIOUS
  <2>7. desc' \in [Channels -> PageLists \cup {NoList}]
    BY <2>3, <2>6 DEF SIPLX_Build_SGL
  <2>4. pc' \in [Actors -> Labels]
    BY <1>5 DEF Build
  <2> QED
    BY <1>5, <2>2, <2>4, <2>5, <2>7 DEF Build
<1>6. CASE Oops(a)
  BY <1>6 DEF Oops
<1>7. CASE Fail(a)
  BY <1>7 DEF Fail
<1>8. CASE FailFree(a)
  BY <1>8 DEF FailFree, Kfree
<1>9. CASE ReadToMask(a)
  BY <1>9 DEF ReadToMask
<1>10. CASE WriteMasked(a)
  BY <1>10 DEF WriteMasked
<1>11. CASE ReadToEnable(a)
  BY <1>11 DEF ReadToEnable
<1>12. CASE WriteEnabled(a)
  BY <1>12 DEF WriteEnabled
<1>13. CASE SetTimer(a)
  BY <1>13 DEF SetTimer
<1>14. CASE StartDMA(a)
  BY <1>14 DEF StartDMA
<1> QED
  BY <1>1, <1>2, <1>3, <1>4, <1>5, <1>6, <1>7, <1>8, <1>9, <1>10, <1>11,
     <1>12, <1>13, <1>14 DEF DoBlockDMA

\* So does a call.
LEMMA TypeCall ==
  ASSUME TypeOK, NEW p \in Procs, NEW c \in Channels,
         NEW r \in [off : 0 .. PageSize - 1, count : Nat], Call(p, c, r)
  PROVE  TypeOK'
<1>1. [ch |-> c, off |-> r.off, count |-> r.count]
        \in [ch : Channels, off : 0 .. PageSize - 1, count : Int]
  OBVIOUS
<1> QED
  BY <1>1 DEF Call, TypeOK, Goto, Actors, Labels, xfer, mem, plx, kern

\* So do the other ioctls.
LEMMA TypeIoctl ==
  ASSUME TypeOK, NEW p \in Procs, Ioctl(p)
  PROVE  TypeOK'
<1> USE DEF TypeOK, Goto, Return, ChannelOf, ListOf, Channels, Sources, Actors,
            Labels, NoJob, xfer, mem, plx, kern, act, CancelChannel
<1>1. ASSUME NEW c \in Channels, NEW r \in Requests, Call(p, c, r)
      PROVE  TypeOK'
  <2>1. r \in [off : 0 .. PageSize - 1, count : Nat]
    BY DEF BusMasterAssumption
  <2> QED
    BY <1>1, <2>1, TypeCall
<1>2. ASSUME NEW v \in TimerValues, SetTimeout(p, v)
      PROVE  TypeOK'
  <2>1. v \in Nat
    BY DEF BusMasterAssumption
  <2> QED
    BY <1>2, <2>1 DEF SetTimeout
<1>3. CASE SIPLX_CancelDMA(p)
  BY <1>3 DEF SIPLX_CancelDMA
<1>4. CASE CancelAbort(p)
  <2>1. CASE ~ in_progress[CancelChannel]
    <3>1. /\ Goto(p, "cancel", "idle")
          /\ UNCHANGED <<xfer, mem, plx, kern, job, reg>>
      BY <1>4, <2>1 DEF CancelAbort
    <3> QED
      BY <3>1
  <2>2. CASE in_progress[CancelChannel]
    <3>1. CancelChannel \in Channels
      OBVIOUS
    <3>2. /\ Goto(p, "cancel", "cancel_wait")
          /\ Abort(CancelChannel)
          /\ UNCHANGED <<xfer, mem, kern, job, reg>>
      BY <1>4, <2>2 DEF CancelAbort
    <3>3. /\ enabled' \in [Channels -> BOOLEAN]
          /\ running' \in [Channels -> BOOLEAN]
          /\ irq' \in [Channels -> BOOLEAN]
      BY <3>2 DEF Abort
    <3> QED
      BY <3>2, <3>3 DEF Abort
  <2> QED
    BY <2>1, <2>2
<1>5. CASE CancelWait(p)
  BY <1>5 DEF CancelWait
<1>6. CASE CancelClear(p)
  BY <1>6 DEF CancelClear
<1>7. CASE SIPLX_GetAddOn(p)
  BY <1>7 DEF SIPLX_GetAddOn
<1>8. CASE GetAddOnWrite(p)
  BY <1>8 DEF GetAddOnWrite
<1> QED
  BY <1>1, <1>2, <1>3, <1>4, <1>5, <1>6, <1>7, <1>8 DEF Ioctl

\* So do the interrupt handler, the bottom half, the timeouts and the card.
LEMMA TypeKernel ==
  ASSUME TypeOK,
         \/ Isr \/ RunWork \/ ReadBottomHalf \/ WriteBottomHalf \/ ServeNonBus
         \/ SIPLX_read_time_out \/ SIPLX_write_time_out
         \/ \E c \in Channels : Complete(c)
         \/ Ring \/ Deliver
  PROVE  TypeOK'
<1> USE DEF TypeOK, Goto, Return, ChannelOf, ListOf, Channels, Sources, Actors,
            Labels, NoJob, xfer, mem, plx, kern, act
<1>1. ASSUME NEW s \in Sources, SIPLX_isr(s)
      PROVE  TypeOK'
  <2>1. isr' \in [at : {"idle", "mark", "queue"}, src : Sources]
    BY <1>1 DEF SIPLX_isr
  <2>2. CASE s = "nonbus"
    BY <1>1, <2>1, <2>2 DEF SIPLX_isr
  <2>3. CASE s # "nonbus"
    <3>1. /\ irq' = [irq EXCEPT ![s] = FALSE]
          /\ enabled' = [enabled EXCEPT ![s] = FALSE]
          /\ UNCHANGED doorbell
      BY <1>1, <2>3 DEF SIPLX_isr
    <3>2. irq' \in [Channels -> BOOLEAN] /\ enabled' \in [Channels -> BOOLEAN]
      BY <3>1
    <3> QED
      BY <1>1, <2>1, <3>1, <3>2 DEF SIPLX_isr
  <2> QED
    BY <2>2, <2>3
<1>2. CASE IsrMark
  BY <1>2 DEF IsrMark
<1>3. CASE IsrQueue
  BY <1>3 DEF IsrQueue
<1>4. CASE RunWork
  BY <1>4 DEF RunWork
<1>5. ASSUME NEW c \in Channels, BottomHalf(c)
      PROVE  TypeOK'
  <2>1. CASE Serve(c)
    BY <2>1 DEF Serve
  <2>2. CASE StopTimer
    BY <2>2 DEF StopTimer
  <2>3. CASE Take
    BY <2>3 DEF Take
  <2>4. CASE SIPLX_Unmap_Pages
    BY <2>4 DEF SIPLX_Unmap_Pages
  <2>5. CASE FreePages
    BY <2>5 DEF FreePages, Kfree
  <2>6. CASE ClearInProgress
    BY <2>6 DEF ClearInProgress
  <2>7. CASE Signal
    BY <2>7 DEF Signal
  <2> QED
    BY <1>5, <2>1, <2>2, <2>3, <2>4, <2>5, <2>6, <2>7 DEF BottomHalf
<1>6. CASE ServeNonBus
  BY <1>6 DEF ServeNonBus
<1>7. ASSUME NEW c \in Channels, TimeOut(c) \/ TimeOutWait(c) \/ TimeOutClear(c)
      PROVE  TypeOK'
  <2>1. CASE TimeOut(c)
    BY <2>1 DEF TimeOut, Abort
  <2>2. CASE TimeOutWait(c)
    BY <2>2 DEF TimeOutWait
  <2>3. CASE TimeOutClear(c)
    BY <2>3 DEF TimeOutClear
  <2> QED
    BY <1>7, <2>1, <2>2, <2>3
<1>8. ASSUME NEW c \in Channels, Complete(c)
      PROVE  TypeOK'
  BY <1>8 DEF Complete
<1>9. CASE Ring
  BY <1>9 DEF Ring
<1>10. CASE Deliver
  BY <1>10 DEF Deliver, DeliverSignal
<1> QED
  BY <1>1, <1>2, <1>3, <1>4, <1>5, <1>6, <1>7, <1>8, <1>9, <1>10
     DEF Isr, ReadBottomHalf, WriteBottomHalf, SIPLX_read_time_out,
         SIPLX_write_time_out

\* Every variable has its type in every reachable state, whatever the
\* processes ask for and however the calls fail.
THEOREM TypeCorrect == Spec => []TypeOK
<1>1. TypeOK /\ [Next]_vars => TypeOK'
  <2> SUFFICES ASSUME TypeOK, [Next]_vars PROVE TypeOK'
    OBVIOUS
  <2>1. ASSUME NEW a \in Actors,
               SIPLX_doBlockDMA_Read(a) \/ SIPLX_doBlockDMA_Write(a)
        PROVE  TypeOK'
    BY <2>1, TypeDoBlockDMA DEF SIPLX_doBlockDMA_Read, SIPLX_doBlockDMA_Write
  <2>2. CASE UNCHANGED vars
    BY <2>2 DEF TypeOK, vars, xfer, mem, plx, kern, act
  <2> QED
    BY <2>1, <2>2, TypeIoctl, TypeKernel DEF Next
<1> QED
  BY <1>1, TypeInit, PTL DEF Spec

-----------------------------------------------------------------------------
\* The read completion

\* A step of an ioctl or of a transfer is not one of the bottom half's, and
\* leaves the completion flags, work and the interrupt handler alone.
LEMMA KeptDoBlockDMA ==
  ASSUME TypeOK, ReadCompletionKept, NEW a \in Actors, DoBlockDMA(a)
  PROVE  ReadCompletionKept'
<1>1. UNCHANGED <<just_completed, work, isr>>
  BY DEF DoBlockDMA, Spin, Claim, Kmalloc, KmallocNull, Build, Oops, Fail,
         FailFree, ReadToMask, WriteMasked, ReadToEnable, WriteEnabled,
         SetTimer, StartDMA, xfer, kern
<1>2. /\ pc[a] \notin {"bh", "bh_stop", "bh_take"}
      /\ \A b \in Actors \ {a} : pc'[b] = pc[b] /\ job'[b] = job[b]
  BY DEF DoBlockDMA, Spin, Claim, Kmalloc, KmallocNull, Build, Oops, Fail,
         FailFree, ReadToMask, WriteMasked, ReadToEnable, WriteEnabled,
         SetTimer, StartDMA, Goto, Return, TypeOK
<1> QED
  BY <1>1, <1>2 DEF ReadCompletionKept, At, ChannelOf, Actors

LEMMA KeptIoctl ==
  ASSUME TypeOK, ReadCompletionKept, NEW p \in Procs, Ioctl(p)
  PROVE  ReadCompletionKept'
<1>1. UNCHANGED <<work, isr>>
  BY DEF Ioctl, Call, SetTimeout, SIPLX_CancelDMA, CancelAbort, CancelWait,
         CancelClear, SIPLX_GetAddOn, GetAddOnWrite, xfer, kern
<1>2. just_completed'["read"] => just_completed["read"]
  BY DEF Ioctl, Call, SetTimeout, SIPLX_CancelDMA, CancelAbort, CancelWait,
         CancelClear, SIPLX_GetAddOn, GetAddOnWrite, xfer, kern, TypeOK,
         Sources, Channels, CancelChannel
<1>3. p # Worker
  BY DEF BusMasterAssumption
<1>4. pc'[Worker] = pc[Worker] /\ job'[Worker] = job[Worker]
  BY <1>3 DEF Ioctl, Call, SetTimeout, SIPLX_CancelDMA, CancelAbort, CancelWait,
         CancelClear, SIPLX_GetAddOn, GetAddOnWrite, Goto, Return, act, TypeOK,
         Actors
<1> QED
  BY <1>1, <1>2, <1>4 DEF ReadCompletionKept, At, ChannelOf

LEMMA KeptKernel ==
  ASSUME TypeOK, ReadCompletionKept,
         \/ Isr \/ RunWork \/ ReadBottomHalf \/ WriteBottomHalf \/ ServeNonBus
         \/ SIPLX_read_time_out \/ SIPLX_write_time_out
         \/ \E c \in Channels : Complete(c)
         \/ Ring \/ Deliver
  PROVE  ReadCompletionKept'
<1> USE DEF TypeOK, ReadCompletionKept, At, ChannelOf, Goto, Return, Channels,
            Sources, Actors, xfer, mem, plx, kern, act
<1>1. ASSUME NEW s \in Sources, SIPLX_isr(s)
      PROVE  ReadCompletionKept'
  BY <1>1 DEF SIPLX_isr
<1>2. CASE IsrMark
  BY <1>2 DEF IsrMark
<1>3. CASE IsrQueue
  BY <1>3 DEF IsrQueue
<1>4. CASE RunWork
  BY <1>4 DEF RunWork
<1>5. ASSUME NEW c \in Channels, BottomHalf(c)
      PROVE  ReadCompletionKept'
  <2>1. CASE Serve(c)
    BY <2>1 DEF Serve
  <2>2. CASE StopTimer
    BY <2>2 DEF StopTimer
  <2>3. CASE Take
    BY <2>3 DEF Take
  <2>4. CASE SIPLX_Unmap_Pages
    BY <2>4 DEF SIPLX_Unmap_Pages
  <2>5. CASE FreePages
    BY <2>5 DEF FreePages
  <2>6. CASE ClearInProgress
    BY <2>6 DEF ClearInProgress
  <2>7. CASE Signal
    BY <2>7 DEF Signal
  <2> QED
    BY <1>5, <2>1, <2>2, <2>3, <2>4, <2>5, <2>6, <2>7 DEF BottomHalf
<1>6. CASE ServeNonBus
  BY <1>6 DEF ServeNonBus
<1>7. ASSUME NEW c \in Channels, TimeOut(c) \/ TimeOutWait(c) \/ TimeOutClear(c)
      PROVE  ReadCompletionKept'
  BY <1>7 DEF TimeOut, TimeOutWait, TimeOutClear
<1>8. ASSUME NEW c \in Channels, Complete(c)
      PROVE  ReadCompletionKept'
  BY <1>8 DEF Complete
<1>9. CASE Ring
  BY <1>9 DEF Ring
<1>10. CASE Deliver
  BY <1>10 DEF Deliver, DeliverSignal
<1> QED
  BY <1>1, <1>2, <1>3, <1>4, <1>5, <1>6, <1>7, <1>8, <1>9, <1>10
     DEF Isr, ReadBottomHalf, WriteBottomHalf, SIPLX_read_time_out,
         SIPLX_write_time_out

\* A read completion that SIPLX_isr recorded is never forgotten, whatever the
\* processes ask for and however the calls fail.
THEOREM ReadCompletionIsKept == Spec => []ReadCompletionKept
<1>1. Init => ReadCompletionKept
  BY DEF Init, ReadCompletionKept, Sources, Channels
<1>2. TypeOK /\ ReadCompletionKept /\ [Next]_vars => ReadCompletionKept'
  <2> SUFFICES ASSUME TypeOK, ReadCompletionKept, [Next]_vars
               PROVE  ReadCompletionKept'
    OBVIOUS
  <2>1. ASSUME NEW a \in Actors,
               SIPLX_doBlockDMA_Read(a) \/ SIPLX_doBlockDMA_Write(a)
        PROVE  ReadCompletionKept'
    BY <2>1, KeptDoBlockDMA DEF SIPLX_doBlockDMA_Read, SIPLX_doBlockDMA_Write
  <2>2. CASE UNCHANGED vars
    BY <2>2 DEF ReadCompletionKept, At, ChannelOf, vars, xfer, mem, plx, kern, act
  <2> QED
    BY <2>1, <2>2, KeptIoctl, KeptKernel DEF Next
<1> QED
  BY <1>1, <1>2, TypeCorrect, PTL DEF Spec

-----------------------------------------------------------------------------
\* The callers and the transfers

\* Two transfers being programmed on one channel are the same process's.
LEMMA OneCaller ==
  ASSUME Limits, TypeOK, PlacesOK,
         NEW p \in Procs, NEW q \in Procs, NEW c \in Channels,
         At(p, c, CallLabels), At(q, c, CallLabels)
  PROVE  p = q
BY DEF Limits, PlacesOK, At

\* The bottom half is not at a label of doBlockDMA.
LEMMA WorkerOutside ==
  ASSUME PlacesOK
  PROVE  pc[Worker] \notin CallLabels
BY DEF PlacesOK, CallLabels, BeforeClaim, AfterClaim, Filling

\* A transfer's step moves one process, which keeps its job or drops it.
LEMMA CallFrame ==
  ASSUME TypeOK, PlacesOK, NEW a \in Actors, DoBlockDMA(a)
  PROVE  /\ a \in Procs
         /\ pc[a] \in CallLabels
         /\ \A b \in Actors : b # a => pc'[b] = pc[b] /\ job'[b] = job[b]
         /\ pc'[a] # "idle" => job'[a] = job[a]
<1>1. pc[a] \in CallLabels
  BY DEF DoBlockDMA, Spin, Claim, Kmalloc, KmallocNull, Build, Oops, Fail,
         FailFree, ReadToMask, WriteMasked, ReadToEnable, WriteEnabled,
         SetTimer, StartDMA, Goto, Return, CallLabels, BeforeClaim, AfterClaim,
         Filling
<1>2. a \in Procs
  BY <1>1, WorkerOutside DEF Actors
<1>3. \A b \in Actors : b # a => pc'[b] = pc[b] /\ job'[b] = job[b]
  BY DEF DoBlockDMA, Spin, Claim, Kmalloc, KmallocNull, Build, Oops, Fail,
         FailFree, ReadToMask, WriteMasked, ReadToEnable, WriteEnabled,
         SetTimer, StartDMA, Goto, Return, TypeOK
<1>4. pc'[a] # "idle" => job'[a] = job[a]
  BY DEF DoBlockDMA, Spin, Claim, Kmalloc, KmallocNull, Build, Oops, Fail,
         FailFree, ReadToMask, WriteMasked, ReadToEnable, WriteEnabled,
         SetTimer, StartDMA, Goto, Return, TypeOK
<1> QED
  BY <1>1, <1>2, <1>3, <1>4

\* Build_SGL's check finds a short count.
LEMMA RejectsShort ==
  ASSUME NEW n \in Nat, NEW e \in 0 .. n, e # n
  PROVE  Rejects(e, n)
BY DEF Rejects

\* Ownership is kept when one channel's list changes hands and the other
\* channels keep theirs.
LEMMA OwnershipFrame ==
  ASSUME OwnershipOK, NEW ch \in Channels,
         \A d \in Channels \ {ch} :
           /\ HasPinned(d)' <=> HasPinned(d)
           /\ HasHeld(d)' <=> HasHeld(d)
           /\ pages'[d] = pages[d] /\ desc'[d] = desc[d],
         HasPinned(ch)' =>
           /\ pages'[ch] \in PageLists /\ heap'[pages'[ch]] = "pinned"
           /\ desc'[ch] = pages'[ch],
         HasHeld(ch)' => pages'[ch] \in PageLists /\ heap'[pages'[ch]] = "held",
         \A d \in Channels \ {ch} : Owns(d) =>
           /\ heap'[pages[d]] = heap[pages[d]]
           /\ Owns(ch)' => pages'[ch] # pages[d],
         \A l \in PageLists :
           \/ heap'[l] = "free"
           \/ Owns(ch)' /\ pages'[ch] = l
           \/ \E d \in Channels \ {ch} : Owns(d) /\ pages[d] = l
  PROVE  OwnershipOK'
<1>1. ASSUME NEW c \in Channels
      PROVE  /\ HasPinned(c)' =>
                  /\ pages'[c] \in PageLists /\ heap'[pages'[c]] = "pinned"
                  /\ desc'[c] = pages'[c]
             /\ HasHeld(c)' => pages'[c] \in PageLists /\ heap'[pages'[c]] = "held"
  <2>1. CASE c = ch
    BY <2>1
  <2>2. CASE c # ch
    BY <2>2 DEF OwnershipOK, Owns
  <2> QED
    BY <2>1, <2>2
<1>2. ASSUME NEW c \in Channels, NEW d \in Channels,
             Owns(c)', Owns(d)', pages'[c] = pages'[d], c # d
      PROVE  FALSE
  BY <1>2 DEF OwnershipOK, Owns
<1>3. ASSUME NEW l \in PageLists, heap'[l] # "free"
      PROVE  \E c \in Channels : pages'[c] = l /\ Owns(c)'
  BY <1>3 DEF OwnershipOK, Owns
<1> QED
  BY <1>1, <1>2, <1>3 DEF OwnershipOK, Owns

\* Every step of a transfer that a process asked for keeps the invariant.
LEMMA SafeDoBlockDMA ==
  ASSUME Limits, IInv, NEW a \in Actors, DoBlockDMA(a)
  PROVE  PlacesOK' /\ NoTimeouts' /\ OnePhase' /\ OwnershipOK'
<1> USE DEF IInv, TypeOK, Goto, Return, At, ChannelOf, ListOf, Channels, Actors,
            CallLabels, BeforeClaim, AfterClaim, Filling, xfer, mem, plx, kern
<1>0. a \in Procs /\ a # Worker
  BY CallFrame DEF BusMasterAssumption
<1>1. CASE Spin(a)
  <2>1. PlacesOK'
    BY <1>0, <1>1 DEF PlacesOK, Spin
  <2>2. NoTimeouts'
    BY <1>1 DEF NoTimeouts, Spin
  <2>3. OnePhase'
    BY <1>0, <1>1, OneCaller DEF OnePhase, Quiet, Programming, Marking, TidyingUp, PlacesOK, Spin
  <2>4. OwnershipOK'
    BY <1>0, <1>1, OneCaller DEF OwnershipOK, Owns, HasPinned, HasHeld, Marking, Spin
  <2> QED
    BY <2>1, <2>2, <2>3, <2>4
<1>2. CASE Claim(a)
  <2>1. PlacesOK'
    BY <1>0, <1>2 DEF PlacesOK, Claim
  <2>2. NoTimeouts'
    BY <1>2 DEF NoTimeouts, Claim
  <2>3. OnePhase'
    BY <1>0, <1>2, OneCaller DEF OnePhase, Quiet, Programming, Marking, TidyingUp, PlacesOK, Claim
  <2>4. OwnershipOK'
    BY <1>0, <1>2, OneCaller DEF OwnershipOK, Owns, HasPinned, HasHeld, Marking, Claim
  <2> QED
    BY <2>1, <2>2, <2>3, <2>4
<1>3. CASE Kmalloc(a)
  <2>1. PlacesOK'
    BY <1>0, <1>3 DEF PlacesOK, Kmalloc
  <2>2. NoTimeouts'
    BY <1>3 DEF NoTimeouts, Kmalloc
  <2>3. OnePhase'
    BY <1>0, <1>3, OneCaller DEF OnePhase, Quiet, Programming, Marking, TidyingUp, PlacesOK, Kmalloc
  <2>4. OwnershipOK'
    <3>0. PICK ch \in Channels : ch = ChannelOf(a)
      OBVIOUS
    <3>1. PICK l \in PageLists : /\ heap[l] = "free"
                                 /\ heap' = [heap EXCEPT ![l] = "held"]
                                 /\ pages' = [pages EXCEPT ![ch] = l]
      BY <1>3, <3>0 DEF Kmalloc
    <3>2. At(a, ch, {"alloc"}) /\ At(a, ch, {"build"})'
      BY <1>3, <3>0 DEF Kmalloc
    <3>3. ~ HasPinned(ch) /\ ~ HasHeld(ch)
      BY <1>0, <3>2, OneCaller
         DEF OnePhase, Quiet, Programming, Marking, TidyingUp, HasPinned, HasHeld
    <3>4. ~ HasPinned(ch)'
      BY <1>0, <1>3, <3>0, <3>3 DEF Kmalloc, HasPinned, Marking
    <3>5. HasHeld(ch)'
      BY <1>0, <3>2 DEF HasHeld
    <3>6. ASSUME NEW d \in Channels \ {ch}
          PROVE  /\ HasPinned(d)' <=> HasPinned(d)
                 /\ HasHeld(d)' <=> HasHeld(d)
                 /\ pages'[d] = pages[d] /\ desc'[d] = desc[d]
      BY <1>0, <1>3, <3>0, <3>1 DEF Kmalloc, HasPinned, HasHeld, Marking
    <3>7. \A d \in Channels \ {ch} : HasPinned(d) \/ HasHeld(d) => pages[d] # l
      BY <3>1 DEF OwnershipOK
    <3>8. /\ pages'[ch] = l /\ heap'[l] = "held" /\ ch \in Channels
          /\ \A x \in PageLists \ {l} : heap'[x] = heap[x]
      BY <3>1
    <3>9. \A d \in Channels \ {ch} : Owns(d) =>
            /\ heap'[pages[d]] = heap[pages[d]]
            /\ pages'[ch] # pages[d]
      BY <3>7, <3>8 DEF OwnershipOK, Owns
    <3>10. \A x \in PageLists :
             \/ heap'[x] = "free"
             \/ pages'[ch] = x
             \/ \E d \in Channels \ {ch} : Owns(d) /\ pages[d] = x
      BY <3>3, <3>8 DEF OwnershipOK, Owns
    <3> QED
      BY <3>4, <3>5, <3>6, <3>8, <3>9, <3>10, OwnershipFrame DEF Owns
  <2> QED
    BY <2>1, <2>2, <2>3, <2>4
<1>4. CASE KmallocNull(a)
  <2>1. PlacesOK'
    BY <1>0, <1>4 DEF PlacesOK, KmallocNull
  <2>2. NoTimeouts'
    BY <1>4 DEF NoTimeouts, KmallocNull
  <2>3. OnePhase'
    BY <1>0, <1>4, OneCaller DEF OnePhase, Quiet, Programming, Marking, TidyingUp, PlacesOK, KmallocNull
  <2>4. OwnershipOK'
    <3>0. PICK ch \in Channels : ch = ChannelOf(a)
      OBVIOUS
    <3>2. At(a, ch, {"alloc"}) /\ pc'[a] = "idle"
      BY <1>4, <3>0 DEF KmallocNull
    <3>3. ~ HasPinned(ch) /\ ~ HasHeld(ch)
      BY <1>0, <3>2, OneCaller
         DEF OnePhase, Quiet, Programming, Marking, TidyingUp, HasPinned, HasHeld
    <3>4. ~ HasPinned(ch)' /\ ~ HasHeld(ch)'
      <4>1. ~ HasPinned(ch)'
        BY <1>0, <1>4, <3>0, <3>3 DEF KmallocNull, HasPinned, Marking
      <4>2. ~ HasHeld(ch)'
        BY <1>0, <1>4, <3>0, <3>2, <3>3, OneCaller DEF KmallocNull, HasHeld
      <4> QED
        BY <4>1, <4>2
    <3>6. ASSUME NEW d \in Channels \ {ch}
          PROVE  /\ HasPinned(d)' <=> HasPinned(d)
                 /\ HasHeld(d)' <=> HasHeld(d)
                 /\ pages'[d] = pages[d] /\ desc'[d] = desc[d]
      BY <1>0, <1>4, <3>0 DEF KmallocNull, HasPinned, HasHeld, Marking
    <3>7. heap' = heap
      BY <1>4, <3>0 DEF KmallocNull
    <3>9. \A x \in PageLists :
             \/ heap'[x] = "free"
             \/ \E d \in Channels \ {ch} : Owns(d) /\ pages[d] = x
      BY <3>3, <3>7 DEF OwnershipOK, Owns
    <3> QED
      BY <3>4, <3>6, <3>7, <3>9, OwnershipFrame DEF Owns
  <2> QED
    BY <2>1, <2>2, <2>3, <2>4
<1>5. CASE Build(a)
  <2> DEFINE n == NrPages(job[a])
  <2>0. PICK ch \in Channels : ch = ChannelOf(a)
    OBVIOUS
  <2>1. /\ At(a, ch, {"build"})
        /\ ch \in Channels
        /\ n \in 1 .. MaxPages
        /\ job[a].count > 0 /\ job[a].count <= MaxSize(job[a])
    BY <1>0, <1>5, <2>0 DEF Build, Fits, PlacesOK
  <2>2. n \in Nat /\ n > 0 /\ ~ TooManyPages(job[a]) /\ job[a].count # 0
    BY <2>1 DEF TooManyPages, BusMasterAssumption
  <2>3. job[a].count - IoSize(job[a]) = 0
    <3>1. MaxSize(job[a]) \in Int
      BY DEF MaxSize, BusMasterAssumption
    <3> QED
      BY <2>1, <3>1 DEF IoSize
  <2>4. PICK e \in GetUserPages(n) :
          /\ SIPLX_Build_SGL(a, e)
          /\ IF Rejects(e, n)
             THEN /\ Goto(a, "build", "fail")
                  /\ UNCHANGED bytes_remaining
             ELSE /\ Goto(a, "build", "mask_read")
                  /\ bytes_remaining' = [bytes_remaining EXCEPT
                       ![ch] = job[a].count - IoSize(job[a])]
    BY <1>5, <2>0, <2>2 DEF Build, SglResults
  <2>5. e \in 0 .. n
    BY <2>2, <2>4 DEF GetUserPages, Limits, EFAULT
  <2>6. /\ UNCHANGED <<in_progress, setup, just_completed, timer_value, pages>>
        /\ UNCHANGED <<running, irq, intcsr, timer, handler, isr, work, job>>
    BY <1>5 DEF Build
  <2>7. CASE e = n
    <3>1. /\ heap' = [heap EXCEPT ![pages[ch]] = "pinned"]
          /\ desc' = [desc EXCEPT ![ch] = pages[ch]]
          /\ Goto(a, "build", "mask_read")
          /\ bytes_remaining' = [bytes_remaining EXCEPT ![ch] = 0]
      BY <2>0, <2>2, <2>3, <2>4, <2>5, <2>7 DEF SIPLX_Build_SGL, Rejects
    <3>2. PlacesOK'
      BY <1>0, <2>1, <2>6, <3>1 DEF PlacesOK
    <3>3. NoTimeouts'
      BY <2>6, <3>1 DEF NoTimeouts
    <3>4. OnePhase'
      BY <1>0, <2>1, <2>6, <3>1, OneCaller
         DEF OnePhase, Quiet, Programming, Marking, TidyingUp, PlacesOK
    <3>5. OwnershipOK'
      <4>1. ~ HasPinned(ch) /\ HasHeld(ch)
        BY <1>0, <2>1, OneCaller
           DEF OnePhase, Quiet, Programming, Marking, TidyingUp, HasPinned, HasHeld
      <4>2. HasPinned(ch)'
        BY <1>0, <2>1, <3>1, <2>6 DEF HasPinned
      <4>3. ~ HasHeld(ch)'
        BY <1>0, <2>1, <2>6, <3>1, OneCaller
           DEF HasHeld, OnePhase, Quiet, Programming, TidyingUp
      <4>4. ASSUME NEW d \in Channels \ {ch}
            PROVE  /\ HasPinned(d)' <=> HasPinned(d)
                   /\ HasHeld(d)' <=> HasHeld(d)
                   /\ pages'[d] = pages[d] /\ desc'[d] = desc[d]
        BY <1>0, <2>1, <2>6, <3>1 DEF HasPinned, HasHeld, Marking
      <4>5. /\ heap' = [heap EXCEPT ![pages[ch]] = "pinned"]
            /\ desc' = [desc EXCEPT ![ch] = pages[ch]]
            /\ pages' = pages /\ ch \in Channels
            /\ pages[ch] \in PageLists
        BY <2>1, <2>6, <3>1, <4>1 DEF OwnershipOK
      <4>6. \A d \in Channels \ {ch} : Owns(d) => pages[d] # pages[ch]
        BY <4>1, <4>5 DEF OwnershipOK, Owns
      <4>7. \A d \in Channels \ {ch} : Owns(d) =>
              /\ heap'[pages[d]] = heap[pages[d]]
              /\ pages'[ch] # pages[d]
        BY <4>5, <4>6 DEF OwnershipOK, Owns
      <4>8. \A x \in PageLists :
               \/ heap'[x] = "free"
               \/ pages'[ch] = x
               \/ \E d \in Channels \ {ch} : Owns(d) /\ pages[d] = x
        BY <4>5 DEF OwnershipOK, Owns
      <4>9. /\ pages'[ch] \in PageLists
            /\ heap'[pages'[ch]] = "pinned"
            /\ desc'[ch] = pages'[ch]
        BY <4>5
      <4> QED
        BY <4>2, <4>3, <4>4, <4>5, <4>7, <4>8, <4>9, OwnershipFrame DEF Owns
    <3> QED
      BY <3>2, <3>3, <3>4, <3>5
  <2>8. CASE e # n
    <3>1. /\ heap' = heap
          /\ desc' = desc
          /\ Goto(a, "build", "fail")
          /\ bytes_remaining' = bytes_remaining
      <4>1. Rejects(e, n)
        BY <2>2, <2>5, <2>8, RejectsShort
      <4>2. heap' = heap /\ desc' = desc
        BY <2>4, <2>8, <4>1 DEF SIPLX_Build_SGL
      <4> QED
        BY <2>4, <4>1, <4>2
    <3>2. PlacesOK'
      BY <1>0, <2>1, <2>6, <3>1 DEF PlacesOK
    <3>3. NoTimeouts'
      BY <2>6, <3>1 DEF NoTimeouts
    <3>4. OnePhase'
      BY <1>0, <2>1, <2>6, <3>1, OneCaller
         DEF OnePhase, Quiet, Programming, Marking, TidyingUp, PlacesOK
    <3>5. ASSUME NEW d \in Channels
          PROVE  /\ HasPinned(d)' <=> HasPinned(d)
                 /\ HasHeld(d)' <=> HasHeld(d)
      BY <1>0, <2>1, <2>6, <3>1 DEF HasPinned, HasHeld, Marking
    <3>6. OwnershipOK'
      BY <2>6, <3>1, <3>5 DEF OwnershipOK, Owns
    <3> QED
      BY <3>2, <3>3, <3>4, <3>6
  <2> QED
    BY <2>7, <2>8
<1>6. CASE Oops(a)
  <2>1. pc[a] = "build" /\ Oopses(a)
    BY <1>6 DEF Oops
  <2>2. HasHeld(ChannelOf(a))
    BY <1>0, <2>1 DEF HasHeld
  <2>3. ListOf(a) \in PageLists
    BY <2>2 DEF OwnershipOK
  <2> QED
    BY <1>0, <2>1, <2>3 DEF Oopses, BusMasterAssumption
<1>7. CASE Fail(a)
  <2>1. PlacesOK'
    BY <1>0, <1>7 DEF PlacesOK, Fail
  <2>2. NoTimeouts'
    BY <1>7 DEF NoTimeouts, Fail
  <2>3. OnePhase'
    BY <1>0, <1>7, OneCaller DEF OnePhase, Quiet, Programming, Marking, TidyingUp, PlacesOK, Fail
  <2>4. OwnershipOK'
    BY <1>0, <1>7, OneCaller DEF OwnershipOK, Owns, HasPinned, HasHeld, Marking, Fail
  <2> QED
    BY <2>1, <2>2, <2>3, <2>4
<1>8. CASE FailFree(a)
  <2>1. PlacesOK'
    BY <1>0, <1>8 DEF PlacesOK, FailFree, Kfree
  <2>2. NoTimeouts'
    BY <1>8 DEF NoTimeouts, FailFree, Kfree
  <2>3. OnePhase'
    BY <1>0, <1>8, OneCaller DEF OnePhase, Quiet, Programming, Marking, TidyingUp, PlacesOK, FailFree, Kfree
  <2>4. OwnershipOK'
    <3>0. PICK ch \in Channels : ch = ChannelOf(a)
      OBVIOUS
    <3>1. At(a, ch, {"fail_free"}) /\ ch \in Channels
      BY <1>8, <3>0 DEF FailFree
    <3>2. ~ in_progress[ch]
      BY <1>0, <3>1 DEF OnePhase
    <3>3. ~ HasPinned(ch) /\ HasHeld(ch)
      BY <1>0, <3>1, <3>2
         DEF OnePhase, Quiet, Programming, Marking, TidyingUp, HasPinned, HasHeld
    <3>4. pc'[a] = "idle" /\ (\A b \in Actors : b # a => pc'[b] = pc[b] /\ job'[b] = job[b])
      BY <1>8, <3>0 DEF FailFree
    <3>5. ~ HasPinned(ch)' /\ ~ HasHeld(ch)'
      <4>1. ~ HasPinned(ch)'
        BY <1>0, <1>8, <3>0, <3>3, <3>4 DEF FailFree, HasPinned, Marking
      <4>2. ~ At(Worker, ch, {"bh_free"})
        BY <3>1, <3>2 DEF OnePhase, Quiet, TidyingUp
      <4>3. \A p \in Procs : p # a => ~ At(p, ch, CallLabels)
        BY <1>0, <3>1, OneCaller
      <4>4. ~ HasHeld(ch)'
        BY <1>0, <3>4, <4>2, <4>3 DEF HasHeld
      <4> QED
        BY <4>1, <4>4
    <3>6. ASSUME NEW d \in Channels \ {ch}
          PROVE  /\ HasPinned(d)' <=> HasPinned(d)
                 /\ HasHeld(d)' <=> HasHeld(d)
      BY <1>0, <1>8, <3>0 DEF FailFree, HasPinned, HasHeld, Marking
    <3>7. /\ pages' = pages /\ desc' = desc
          /\ heap' = [x \in PageLists |-> IF x = pages[ch] THEN "free" ELSE heap[x]]
      BY <1>8, <3>0 DEF FailFree, Kfree
    <3>8. \A d \in Channels \ {ch} : Owns(d) => pages[d] # pages[ch]
      BY <3>1, <3>3 DEF OwnershipOK, Owns
    <3>9. \A d \in Channels \ {ch} : Owns(d) => heap'[pages[d]] = heap[pages[d]]
      BY <3>7, <3>8 DEF OwnershipOK, Owns
    <3>10. \A x \in PageLists :
             \/ heap'[x] = "free"
             \/ \E d \in Channels \ {ch} : Owns(d) /\ pages[d] = x
      BY <3>7 DEF OwnershipOK, Owns
    <3> QED
      BY <3>5, <3>6, <3>7, <3>9, <3>10, OwnershipFrame DEF Owns
  <2> QED
    BY <2>1, <2>2, <2>3, <2>4
<1>9. CASE ReadToMask(a)
  <2>1. PlacesOK'
    BY <1>0, <1>9 DEF PlacesOK, ReadToMask
  <2>2. NoTimeouts'
    BY <1>9 DEF NoTimeouts, ReadToMask
  <2>3. OnePhase'
    BY <1>0, <1>9, OneCaller DEF OnePhase, Quiet, Programming, Marking, TidyingUp, PlacesOK, ReadToMask
  <2>4. OwnershipOK'
    BY <1>0, <1>9, OneCaller DEF OwnershipOK, Owns, HasPinned, HasHeld, Marking, ReadToMask
  <2> QED
    BY <2>1, <2>2, <2>3, <2>4
<1>10. CASE WriteMasked(a)
  <2>1. PlacesOK'
    BY <1>0, <1>10 DEF PlacesOK, WriteMasked
  <2>2. NoTimeouts'
    BY <1>10 DEF NoTimeouts, WriteMasked
  <2>3. OnePhase'
    BY <1>0, <1>10, OneCaller DEF OnePhase, Quiet, Programming, Marking, TidyingUp, PlacesOK, WriteMasked
  <2>4. OwnershipOK'
    BY <1>0, <1>10, OneCaller DEF OwnershipOK, Owns, HasPinned, HasHeld, Marking, WriteMasked
  <2> QED
    BY <2>1, <2>2, <2>3, <2>4
<1>11. CASE ReadToEnable(a)
  <2>1. PlacesOK'
    BY <1>0, <1>11 DEF PlacesOK, ReadToEnable
  <2>2. NoTimeouts'
    BY <1>11 DEF NoTimeouts, ReadToEnable
  <2>3. OnePhase'
    BY <1>0, <1>11, OneCaller DEF OnePhase, Quiet, Programming, Marking, TidyingUp, PlacesOK, ReadToEnable
  <2>4. OwnershipOK'
    BY <1>0, <1>11, OneCaller DEF OwnershipOK, Owns, HasPinned, HasHeld, Marking, ReadToEnable
  <2> QED
    BY <2>1, <2>2, <2>3, <2>4
<1>12. CASE WriteEnabled(a)
  <2>1. PlacesOK'
    BY <1>0, <1>12 DEF PlacesOK, WriteEnabled
  <2>2. NoTimeouts'
    BY <1>12 DEF NoTimeouts, WriteEnabled
  <2>3. OnePhase'
    BY <1>0, <1>12, OneCaller DEF OnePhase, Quiet, Programming, Marking, TidyingUp, PlacesOK, WriteEnabled
  <2>4. OwnershipOK'
    BY <1>0, <1>12, OneCaller DEF OwnershipOK, Owns, HasPinned, HasHeld, Marking, WriteEnabled
  <2> QED
    BY <2>1, <2>2, <2>3, <2>4
<1>13. CASE SetTimer(a)
  <2>1. PlacesOK'
    BY <1>0, <1>13 DEF PlacesOK, SetTimer
  <2>2. NoTimeouts'
    BY <1>13 DEF NoTimeouts, SetTimer
  <2>3. OnePhase'
    BY <1>0, <1>13, OneCaller DEF OnePhase, Quiet, Programming, Marking, TidyingUp, PlacesOK, SetTimer
  <2>4. OwnershipOK'
    BY <1>0, <1>13, OneCaller DEF OwnershipOK, Owns, HasPinned, HasHeld, Marking, SetTimer
  <2> QED
    BY <2>1, <2>2, <2>3, <2>4
<1>14. CASE StartDMA(a)
  <2>1. PlacesOK'
    BY <1>0, <1>14 DEF PlacesOK, StartDMA
  <2>2. NoTimeouts'
    BY <1>14 DEF NoTimeouts, StartDMA
  <2>3. OnePhase'
    BY <1>0, <1>14, OneCaller DEF OnePhase, Quiet, Programming, Marking, TidyingUp, PlacesOK, StartDMA
  <2>4. OwnershipOK'
    BY <1>0, <1>14, OneCaller DEF OwnershipOK, Owns, HasPinned, HasHeld, Marking, StartDMA
  <2> QED
    BY <2>1, <2>2, <2>3, <2>4
<1> QED
  BY <1>1, <1>2, <1>3, <1>4, <1>5, <1>6, <1>7, <1>8, <1>9, <1>10, <1>11, <1>12, <1>13, <1>14 DEF DoBlockDMA

\* So does a call with a buffer that fits.
LEMMA SafeCall ==
  ASSUME IInv, NEW p \in Procs, NEW c \in Channels,
         NEW r \in [off : 0 .. PageSize - 1, count : Nat], Fits(r), Call(p, c, r)
  PROVE  PlacesOK' /\ NoTimeouts' /\ OnePhase' /\ OwnershipOK'
<1> USE DEF IInv, TypeOK, Goto, Return, At, ChannelOf, ListOf, Channels, Actors,
            CallLabels, BeforeClaim, AfterClaim, Filling, xfer, mem, plx, kern, act
<1>0. p # Worker
  BY DEF BusMasterAssumption
<1>1. job'[p] = [ch |-> c, off |-> r.off, count |-> r.count]
  BY DEF Call
<1>2. Fits(job'[p])
  BY <1>1 DEF Fits, NrPages, MaxSize
<1>3. PlacesOK'
  BY <1>0, <1>1, <1>2 DEF PlacesOK, Call
<1>4. NoTimeouts'
  BY DEF NoTimeouts, Call
<1>5. OnePhase'
  BY <1>0 DEF OnePhase, Quiet, Programming, Marking, TidyingUp, PlacesOK, Call
<1>6. OwnershipOK'
  BY <1>0 DEF OwnershipOK, Owns, HasPinned, HasHeld, Marking, PlacesOK, Call
<1> QED
  BY <1>3, <1>4, <1>5, <1>6

\* So does GetAddOn.
LEMMA SafeGetAddOn ==
  ASSUME IInv, NEW p \in Procs, SIPLX_GetAddOn(p) \/ GetAddOnWrite(p)
  PROVE  PlacesOK' /\ NoTimeouts' /\ OnePhase' /\ OwnershipOK'
<1> USE DEF IInv, TypeOK, Goto, Return, At, ChannelOf, ListOf, Channels, Actors,
            CallLabels, BeforeClaim, AfterClaim, Filling, xfer, mem, plx, kern, act
<1>0. p # Worker
  BY DEF BusMasterAssumption
<1>1. CASE SIPLX_GetAddOn(p)
  <2>1. PlacesOK'
    BY <1>1, <1>0 DEF PlacesOK, NoTimeouts, OnePhase, SIPLX_GetAddOn
  <2>2. NoTimeouts'
    BY <1>1, <1>0 DEF NoTimeouts, SIPLX_GetAddOn
  <2>3. OnePhase'
    BY <1>1, <1>0 DEF OnePhase, Quiet, Programming, Marking, TidyingUp, PlacesOK, NoTimeouts, SIPLX_GetAddOn
  <2>4. OwnershipOK'
    BY <1>1, <1>0 DEF OwnershipOK, Owns, HasPinned, HasHeld, Marking, PlacesOK, NoTimeouts, OnePhase, SIPLX_GetAddOn
  <2> QED
    BY <2>1, <2>2, <2>3, <2>4
<1>2. CASE GetAddOnWrite(p)
  <2>1. PlacesOK'
    BY <1>2, <1>0 DEF PlacesOK, NoTimeouts, OnePhase, GetAddOnWrite
  <2>2. NoTimeouts'
    BY <1>2, <1>0 DEF NoTimeouts, GetAddOnWrite
  <2>3. OnePhase'
    BY <1>2, <1>0 DEF OnePhase, Quiet, Programming, Marking, TidyingUp, PlacesOK, NoTimeouts, GetAddOnWrite
  <2>4. OwnershipOK'
    BY <1>2, <1>0 DEF OwnershipOK, Owns, HasPinned, HasHeld, Marking, PlacesOK, NoTimeouts, OnePhase, GetAddOnWrite
  <2> QED
    BY <2>1, <2>2, <2>3, <2>4
<1> QED
  BY <1>1, <1>2

\* So does every other ioctl that Discipline allows.
LEMMA SafeIoctl ==
  ASSUME Discipline, IInv, NEW p \in Procs, Ioctl(p)
  PROVE  PlacesOK' /\ NoTimeouts' /\ OnePhase' /\ OwnershipOK'
<1> USE DEF IInv, TypeOK, Goto, Return, At, ChannelOf, ListOf, Channels, Actors,
            CallLabels, BeforeClaim, AfterClaim, Filling, xfer, mem, plx, kern, act
<1>0. p # Worker
  BY DEF BusMasterAssumption
<1>1. ASSUME NEW c \in Channels, NEW r \in Requests, Call(p, c, r)
      PROVE  PlacesOK' /\ NoTimeouts' /\ OnePhase' /\ OwnershipOK'
  <2>1. r \in [off : 0 .. PageSize - 1, count : Nat] /\ Fits(r)
    BY DEF Discipline, BusMasterAssumption
  <2> QED
    BY <1>1, <2>1, SafeCall
<1>2. ASSUME NEW v \in TimerValues, SetTimeout(p, v)
      PROVE  PlacesOK' /\ NoTimeouts' /\ OnePhase' /\ OwnershipOK'
  <2>0. v = 0
    BY DEF Discipline
  <2>1. PlacesOK'
    BY <1>2, <1>0, <2>0 DEF PlacesOK, NoTimeouts, OnePhase, SetTimeout
  <2>2. NoTimeouts'
    BY <1>2, <1>0, <2>0 DEF NoTimeouts, SetTimeout
  <2>3. OnePhase'
    BY <1>2, <1>0, <2>0 DEF OnePhase, Quiet, Programming, Marking, TidyingUp, PlacesOK, NoTimeouts, SetTimeout
  <2>4. OwnershipOK'
    BY <1>2, <1>0, <2>0 DEF OwnershipOK, Owns, HasPinned, HasHeld, Marking, PlacesOK, NoTimeouts, OnePhase, SetTimeout
  <2> QED
    BY <2>1, <2>2, <2>3, <2>4
<1>3. ~ SIPLX_CancelDMA(p)
  BY DEF SIPLX_CancelDMA, Discipline
<1>4. ~ CancelAbort(p) /\ ~ CancelWait(p) /\ ~ CancelClear(p)
  BY DEF CancelAbort, CancelWait, CancelClear, PlacesOK
<1> QED
  BY <1>1, <1>2, <1>3, <1>4, SafeGetAddOn DEF Ioctl

\* So do the interrupt handler and the card.
LEMMA SafeCard ==
  ASSUME IInv,
         Isr \/ (\E c \in Channels : Complete(c)) \/ Ring \/ Deliver
  PROVE  PlacesOK' /\ NoTimeouts' /\ OnePhase' /\ OwnershipOK'
<1> USE DEF IInv, TypeOK, At, ChannelOf, ListOf, Channels, Sources, Actors,
            xfer, mem, plx, kern, act
<1>0. Worker \notin Procs
  BY DEF BusMasterAssumption
<1>1. ASSUME NEW s \in Sources, SIPLX_isr(s)
      PROVE  PlacesOK' /\ NoTimeouts' /\ OnePhase' /\ OwnershipOK'
  <2>1. PlacesOK'
    BY <1>1, <1>0 DEF PlacesOK, NoTimeouts, OnePhase, SIPLX_isr, Claims, Interrupts
  <2>2. NoTimeouts'
    BY <1>1, <1>0 DEF NoTimeouts, SIPLX_isr, Claims, Interrupts
  <2>3. OnePhase'
    BY <1>1, <1>0 DEF OnePhase, Quiet, Programming, Marking, TidyingUp, PlacesOK, NoTimeouts, SIPLX_isr, Claims, Interrupts
  <2>4. OwnershipOK'
    BY <1>1, <1>0 DEF OwnershipOK, Owns, HasPinned, HasHeld, Marking, PlacesOK, NoTimeouts, OnePhase, SIPLX_isr, Claims, Interrupts
  <2> QED
    BY <2>1, <2>2, <2>3, <2>4
<1>2. CASE IsrMark
  <2>1. PlacesOK'
    BY <1>2, <1>0 DEF PlacesOK, NoTimeouts, OnePhase, IsrMark
  <2>2. NoTimeouts'
    BY <1>2, <1>0 DEF NoTimeouts, IsrMark
  <2>3. OnePhase'
    BY <1>2, <1>0 DEF OnePhase, Quiet, Programming, Marking, TidyingUp, PlacesOK, NoTimeouts, IsrMark
  <2>4. OwnershipOK'
    BY <1>2, <1>0 DEF OwnershipOK, Owns, HasPinned, HasHeld, Marking, PlacesOK, NoTimeouts, OnePhase, IsrMark
  <2> QED
    BY <2>1, <2>2, <2>3, <2>4
<1>3. CASE IsrQueue
  <2>1. PlacesOK'
    BY <1>3, <1>0 DEF PlacesOK, NoTimeouts, OnePhase, IsrQueue
  <2>2. NoTimeouts'
    BY <1>3, <1>0 DEF NoTimeouts, IsrQueue
  <2>3. OnePhase'
    BY <1>3, <1>0 DEF OnePhase, Quiet, Programming, Marking, TidyingUp, PlacesOK, NoTimeouts, IsrQueue
  <2>4. OwnershipOK'
    BY <1>3, <1>0 DEF OwnershipOK, Owns, HasPinned, HasHeld, Marking, PlacesOK, NoTimeouts, OnePhase, IsrQueue
  <2> QED
    BY <2>1, <2>2, <2>3, <2>4
<1>5. CASE Ring
  <2>1. PlacesOK'
    BY <1>5, <1>0 DEF PlacesOK, NoTimeouts, OnePhase, Ring
  <2>2. NoTimeouts'
    BY <1>5, <1>0 DEF NoTimeouts, Ring
  <2>3. OnePhase'
    BY <1>5, <1>0 DEF OnePhase, Quiet, Programming, Marking, TidyingUp, PlacesOK, NoTimeouts, Ring
  <2>4. OwnershipOK'
    BY <1>5, <1>0 DEF OwnershipOK, Owns, HasPinned, HasHeld, Marking, PlacesOK, NoTimeouts, OnePhase, Ring
  <2> QED
    BY <2>1, <2>2, <2>3, <2>4
<1>6. CASE Deliver
  <2>1. PlacesOK'
    BY <1>6, <1>0 DEF PlacesOK, NoTimeouts, OnePhase, Deliver, DeliverSignal
  <2>2. NoTimeouts'
    BY <1>6, <1>0 DEF NoTimeouts, Deliver, DeliverSignal
  <2>3. OnePhase'
    BY <1>6, <1>0 DEF OnePhase, Quiet, Programming, Marking, TidyingUp, PlacesOK, NoTimeouts, Deliver, DeliverSignal
  <2>4. OwnershipOK'
    BY <1>6, <1>0 DEF OwnershipOK, Owns, HasPinned, HasHeld, Marking, PlacesOK, NoTimeouts, OnePhase, Deliver, DeliverSignal
  <2> QED
    BY <2>1, <2>2, <2>3, <2>4
<1>7. ASSUME NEW c \in Channels, Complete(c)
      PROVE  PlacesOK' /\ NoTimeouts' /\ OnePhase' /\ OwnershipOK'
  <2>1. PlacesOK'
    BY <1>7, <1>0 DEF PlacesOK, NoTimeouts, OnePhase, Complete
  <2>2. NoTimeouts'
    BY <1>7, <1>0 DEF NoTimeouts, Complete
  <2>3. OnePhase'
    BY <1>7, <1>0 DEF OnePhase, Quiet, Programming, Marking, TidyingUp, PlacesOK, NoTimeouts, Complete
  <2>4. OwnershipOK'
    BY <1>7, <1>0 DEF OwnershipOK, Owns, HasPinned, HasHeld, Marking, PlacesOK, NoTimeouts, OnePhase, Complete
  <2> QED
    BY <2>1, <2>2, <2>3, <2>4
<1> QED
  BY <1>1, <1>2, <1>3, <1>5, <1>6, <1>7 DEF Isr

\* So does the bottom half; no timeout ever runs.
LEMMA SafeBottomHalf ==
  ASSUME IInv,
         \/ RunWork \/ ReadBottomHalf \/ WriteBottomHalf \/ ServeNonBus
         \/ SIPLX_read_time_out \/ SIPLX_write_time_out
  PROVE  PlacesOK' /\ NoTimeouts' /\ OnePhase' /\ OwnershipOK'
<1> USE DEF IInv, TypeOK, Goto, Return, At, ChannelOf, ListOf, Channels, Sources,
            Actors, NoJob, xfer, mem, plx, kern, act
<1>0. Worker \notin Procs /\ Worker \in Actors
  BY DEF BusMasterAssumption
<1>1. CASE RunWork
  <2>1. PlacesOK'
    BY <1>1, <1>0 DEF PlacesOK, NoTimeouts, OnePhase, RunWork
  <2>2. NoTimeouts'
    BY <1>1, <1>0 DEF NoTimeouts, RunWork
  <2>3. OnePhase'
    BY <1>1, <1>0 DEF OnePhase, Quiet, Programming, Marking, TidyingUp, PlacesOK, NoTimeouts, RunWork
  <2>4. OwnershipOK'
    BY <1>1, <1>0 DEF OwnershipOK, Owns, HasPinned, HasHeld, Marking, PlacesOK, NoTimeouts, OnePhase, RunWork
  <2> QED
    BY <2>1, <2>2, <2>3, <2>4
<1>2. CASE ServeNonBus
  <2>1. PlacesOK'
    BY <1>2, <1>0 DEF PlacesOK, NoTimeouts, OnePhase, ServeNonBus
  <2>2. NoTimeouts'
    BY <1>2, <1>0 DEF NoTimeouts, ServeNonBus
  <2>3. OnePhase'
    BY <1>2, <1>0 DEF OnePhase, Quiet, Programming, Marking, TidyingUp, PlacesOK, NoTimeouts, ServeNonBus
  <2>4. OwnershipOK'
    BY <1>2, <1>0 DEF OwnershipOK, Owns, HasPinned, HasHeld, Marking, PlacesOK, NoTimeouts, OnePhase, ServeNonBus
  <2> QED
    BY <2>1, <2>2, <2>3, <2>4
<1>3. ASSUME NEW c \in Channels, Serve(c)
      PROVE  PlacesOK' /\ NoTimeouts' /\ OnePhase' /\ OwnershipOK'
  <2>1. PlacesOK'
    BY <1>3, <1>0 DEF PlacesOK, NoTimeouts, OnePhase, Serve
  <2>2. NoTimeouts'
    BY <1>3, <1>0 DEF NoTimeouts, Serve
  <2>3. OnePhase'
    BY <1>3, <1>0 DEF OnePhase, Quiet, Programming, Marking, TidyingUp, PlacesOK, NoTimeouts, Serve
  <2>4. OwnershipOK'
    BY <1>3, <1>0 DEF OwnershipOK, Owns, HasPinned, HasHeld, Marking, PlacesOK, NoTimeouts, OnePhase, Serve
  <2> QED
    BY <2>1, <2>2, <2>3, <2>4
<1>4. CASE StopTimer
  <2>1. PlacesOK'
    BY <1>4, <1>0 DEF PlacesOK, NoTimeouts, OnePhase, StopTimer
  <2>2. NoTimeouts'
    BY <1>4, <1>0 DEF NoTimeouts, StopTimer
  <2>3. OnePhase'
    BY <1>4, <1>0 DEF OnePhase, Quiet, Programming, Marking, TidyingUp, PlacesOK, NoTimeouts, StopTimer
  <2>4. OwnershipOK'
    BY <1>4, <1>0 DEF OwnershipOK, Owns, HasPinned, HasHeld, Marking, PlacesOK, NoTimeouts, OnePhase, StopTimer
  <2> QED
    BY <2>1, <2>2, <2>3, <2>4
<1>5. CASE Take
  <2>1. PlacesOK'
    BY <1>5, <1>0 DEF PlacesOK, NoTimeouts, OnePhase, Take
  <2>2. NoTimeouts'
    BY <1>5, <1>0 DEF NoTimeouts, Take
  <2>3. OnePhase'
    BY <1>5, <1>0 DEF OnePhase, Quiet, Programming, Marking, TidyingUp, PlacesOK, NoTimeouts, Take
  <2>4. OwnershipOK'
    BY <1>5, <1>0 DEF OwnershipOK, Owns, HasPinned, HasHeld, Marking, PlacesOK, NoTimeouts, OnePhase, Take
  <2> QED
    BY <2>1, <2>2, <2>3, <2>4
<1>6. CASE SIPLX_Unmap_Pages
  <2>1. PlacesOK'
    BY <1>6, <1>0 DEF PlacesOK, NoTimeouts, OnePhase, SIPLX_Unmap_Pages
  <2>2. NoTimeouts'
    BY <1>6, <1>0 DEF NoTimeouts, SIPLX_Unmap_Pages
  <2>3. OnePhase'
    BY <1>6, <1>0 DEF OnePhase, Quiet, Programming, Marking, TidyingUp, PlacesOK, NoTimeouts, SIPLX_Unmap_Pages
  <2>4. OwnershipOK'
    <3>0. PICK ch \in Channels : ch = ChannelOf(Worker)
      BY <1>0
    <3>1. At(Worker, ch, {"bh_unmap"})
      BY <1>6, <3>0 DEF SIPLX_Unmap_Pages
    <3>2. /\ TidyingUp(ch) /\ ~ Quiet(ch)
          /\ pages[ch] \in PageLists /\ heap[pages[ch]] = "pinned"
      BY <3>1 DEF OwnershipOK, HasPinned, TidyingUp, Quiet
    <3>3. /\ ~ running[ch] /\ ~ irq[ch] /\ ~ Marking(ch) /\ ~ just_completed[ch]
          /\ ~ Programming(ch)
          /\ \A p \in Procs : ~ At(p, ch, {"claim", "fail_free"})
      BY <3>2 DEF OnePhase
    <3>4. /\ pc' = [pc EXCEPT ![Worker] = "bh_free"]
          /\ heap' = [heap EXCEPT ![pages[ch]] = "held"]
          /\ pages' = pages /\ desc' = desc
          /\ UNCHANGED <<running, irq, isr, just_completed, job>>
      <4>1. /\ heap' = [l \in PageLists |->
                          IF l = pages[ch] /\ heap[l] = "pinned" THEN "held" ELSE heap[l]]
            /\ pc' = [pc EXCEPT ![Worker] = "bh_free"]
            /\ pages' = pages /\ desc' = desc
            /\ UNCHANGED <<running, irq, isr, just_completed, job>>
        BY <1>6, <3>0 DEF SIPLX_Unmap_Pages
      <4>2. heap = [l \in PageLists |-> heap[l]]
        BY TypeOK DEF TypeOK
      <4>3. heap' = [heap EXCEPT ![pages[ch]] = "held"]
        BY <4>1, <4>2, <3>2
      <4> QED
        BY <4>1, <4>3
    <3>5. ~ HasPinned(ch)'
      BY <1>0, <3>1, <3>3, <3>4
         DEF HasPinned, Marking, Programming, AfterClaim, Filling
    <3>6. \A d \in Channels \ {ch} :
             /\ HasPinned(d)' <=> HasPinned(d)
             /\ HasHeld(d)' <=> HasHeld(d)
      BY <1>0, <3>1, <3>4 DEF HasPinned, HasHeld, Marking
    <3>7. HasHeld(ch)' /\ Owns(ch)'
      BY <1>0, <3>1, <3>4 DEF HasHeld, Owns
    <3>8. \A d \in Channels \ {ch} : Owns(d) => pages[d] # pages[ch]
      BY <3>1 DEF OwnershipOK, Owns, HasPinned
    <3>9. \A d \in Channels \ {ch} : Owns(d) => heap'[pages[d]] = heap[pages[d]]
      BY <3>4, <3>8 DEF OwnershipOK, Owns
    <3>10. \A x \in PageLists :
             \/ heap'[x] = "free"
             \/ pages'[ch] = x
             \/ \E d \in Channels \ {ch} : Owns(d) /\ pages[d] = x
      BY <3>4 DEF OwnershipOK, Owns
    <3> QED
      BY <3>2, <3>4, <3>5, <3>6, <3>7, <3>8, <3>9, <3>10, OwnershipFrame
  <2> QED
    BY <2>1, <2>2, <2>3, <2>4
<1>7. CASE FreePages
  <2>1. PlacesOK'
    BY <1>7, <1>0 DEF PlacesOK, NoTimeouts, OnePhase, FreePages, Kfree
  <2>2. NoTimeouts'
    BY <1>7, <1>0 DEF NoTimeouts, FreePages, Kfree
  <2>3. OnePhase'
    BY <1>7, <1>0 DEF OnePhase, Quiet, Programming, Marking, TidyingUp, PlacesOK, NoTimeouts, FreePages, Kfree
  <2>4. OwnershipOK'
    <3>0. PICK ch \in Channels : ch = ChannelOf(Worker)
      BY <1>0
    <3>1. At(Worker, ch, {"bh_free"})
      BY <1>7, <3>0 DEF FreePages
    <3>2. /\ TidyingUp(ch) /\ ~ Quiet(ch)
          /\ pages[ch] \in PageLists /\ heap[pages[ch]] = "held"
      BY <3>1 DEF OwnershipOK, HasHeld, TidyingUp, Quiet
    <3>3. /\ ~ running[ch] /\ ~ irq[ch] /\ ~ Marking(ch) /\ ~ just_completed[ch]
          /\ ~ Programming(ch)
          /\ \A p \in Procs : ~ At(p, ch, {"claim", "fail_free"})
      BY <3>2 DEF OnePhase
    <3>4. /\ pc' = [pc EXCEPT ![Worker] = "bh_clear"]
          /\ heap' = [x \in PageLists |-> IF x = pages[ch] THEN "free" ELSE heap[x]]
          /\ pages' = pages /\ desc' = desc
          /\ UNCHANGED <<running, irq, isr, just_completed, job>>
      BY <1>7, <3>0 DEF FreePages, Kfree
    <3>5. ~ HasPinned(ch)' /\ ~ HasHeld(ch)' /\ ~ Owns(ch)'
      BY <1>0, <3>1, <3>3, <3>4
         DEF HasPinned, HasHeld, Owns, Marking, Programming, AfterClaim, Filling
    <3>6. \A d \in Channels \ {ch} :
             /\ HasPinned(d)' <=> HasPinned(d)
             /\ HasHeld(d)' <=> HasHeld(d)
      BY <1>0, <3>1, <3>4 DEF HasPinned, HasHeld, Marking
    <3>8. \A d \in Channels \ {ch} : Owns(d) => pages[d] # pages[ch]
      BY <3>1 DEF OwnershipOK, Owns, HasHeld
    <3>9. \A d \in Channels \ {ch} : Owns(d) => heap'[pages[d]] = heap[pages[d]]
      BY <3>4, <3>8 DEF OwnershipOK, Owns
    <3>10. \A x \in PageLists :
             \/ heap'[x] = "free"
             \/ \E d \in Channels \ {ch} : Owns(d) /\ pages[d] = x
      BY <3>4 DEF OwnershipOK, Owns
    <3> QED
      BY <3>4, <3>5, <3>6, <3>9, <3>10, OwnershipFrame
  <2> QED
    BY <2>1, <2>2, <2>3, <2>4
<1>8. CASE ClearInProgress
  <2>1. PlacesOK'
    BY <1>8, <1>0 DEF PlacesOK, NoTimeouts, OnePhase, ClearInProgress
  <2>2. NoTimeouts'
    BY <1>8, <1>0 DEF NoTimeouts, ClearInProgress
  <2>3. OnePhase'
    BY <1>8, <1>0 DEF OnePhase, Quiet, Programming, Marking, TidyingUp, PlacesOK, NoTimeouts, ClearInProgress
  <2>4. OwnershipOK'
    BY <1>8, <1>0 DEF OwnershipOK, Owns, HasPinned, HasHeld, Marking, PlacesOK, NoTimeouts, OnePhase, ClearInProgress
  <2> QED
    BY <2>1, <2>2, <2>3, <2>4
<1>9. CASE Signal
  <2>1. PlacesOK'
    BY <1>9, <1>0 DEF PlacesOK, NoTimeouts, OnePhase, Signal
  <2>2. NoTimeouts'
    BY <1>9, <1>0 DEF NoTimeouts, Signal
  <2>3. OnePhase'
    BY <1>9, <1>0 DEF OnePhase, Quiet, Programming, Marking, TidyingUp, PlacesOK, NoTimeouts, Signal
  <2>4. OwnershipOK'
    BY <1>9, <1>0 DEF OwnershipOK, Owns, HasPinned, HasHeld, Marking, PlacesOK, NoTimeouts, OnePhase, Signal
  <2> QED
    BY <2>1, <2>2, <2>3, <2>4
<1>10. ASSUME NEW c \in Channels, TimeOut(c) \/ TimeOutWait(c) \/ TimeOutClear(c)
       PROVE  FALSE
  BY <1>10 DEF TimeOut, TimeOutWait, TimeOutClear, NoTimeouts
<1> QED
  BY <1>1, <1>2, <1>3, <1>4, <1>5, <1>6, <1>7, <1>8, <1>9, <1>10
     DEF ReadBottomHalf, WriteBottomHalf, BottomHalf, SIPLX_read_time_out,
         SIPLX_write_time_out

\* Nothing is programmed, moving or owned in the initial state.
LEMMA SafeInit ==
  ASSUME Init
  PROVE  PlacesOK /\ NoTimeouts /\ OnePhase /\ OwnershipOK
<1> USE DEF Init, Channels, Sources, Actors, At, ChannelOf, NoJob
<1>1. PlacesOK
  BY DEF PlacesOK, CallLabels, BeforeClaim, AfterClaim, Filling
<1>2. NoTimeouts
  BY DEF NoTimeouts
<1>3. OnePhase
  BY DEF OnePhase, Quiet, Programming, Marking, TidyingUp, AfterClaim, Filling
<1>4. OwnershipOK
  BY DEF OwnershipOK, Owns, HasPinned, HasHeld, Marking, Filling
<1> QED
  BY <1>1, <1>2, <1>3, <1>4

\* One step keeps the invariant.
LEMMA SafeNext ==
  ASSUME Discipline, IInv, [Next]_vars
  PROVE  PlacesOK' /\ NoTimeouts' /\ OnePhase' /\ OwnershipOK'
<1>1. ASSUME NEW a \in Actors,
             SIPLX_doBlockDMA_Read(a) \/ SIPLX_doBlockDMA_Write(a)
      PROVE  PlacesOK' /\ NoTimeouts' /\ OnePhase' /\ OwnershipOK'
  BY <1>1, SafeDoBlockDMA DEF Discipline, SIPLX_doBlockDMA_Read, SIPLX_doBlockDMA_Write
<1>2. CASE UNCHANGED vars
  BY <1>2 DEF IInv, PlacesOK, NoTimeouts, OnePhase, OwnershipOK, Quiet,
      Programming, Marking, TidyingUp, Owns, HasPinned, HasHeld, At, ChannelOf,
      vars, xfer, mem, plx, kern, act
<1> QED
  BY <1>1, <1>2, SafeIoctl, SafeCard, SafeBottomHalf DEF Next

\* Used within its limits, the driver keeps the phases of a transfer apart and
\* the page lists with their transfers: IInv holds in every reachable state.
THEOREM PhasesKeptApart == ASSUME Discipline PROVE Spec => []IInv
<1>1. Init => IInv
  BY TypeInit, SafeInit DEF IInv
<1>2. TypeOK' /\ IInv /\ [Next]_vars => IInv'
  BY SafeNext DEF IInv
<1> QED
  BY <1>1, <1>2, TypeCorrect, PTL DEF Spec

\* Used within its limits, the driver never lets the card move data through
\* descriptors whose pages are not pinned for the transfer in progress.
THEOREM DMAIsSafe == ASSUME Discipline PROVE Spec => []DMASafety
<1>1. IInv => DMASafety
  BY DEF IInv, DMASafety, OnePhase, Quiet, OwnershipOK, HasPinned
<1> QED
  BY <1>1, PhasesKeptApart, PTL

\* Used within its limits, the driver unpins only pages that are pinned and
\* that the card is done with, and frees each list once.
THEOREM ReleaseIsSafe == ASSUME Discipline PROVE Spec => []ReleaseSafety
<1>1. IInv => ReleaseSafety
  <2> SUFFICES ASSUME IInv, NEW a \in Actors
               PROVE  /\ pc[a] = "bh_unmap" =>
                           /\ ~ running[ChannelOf(a)]
                           /\ ListOf(a) \in PageLists /\ heap[ListOf(a)] = "pinned"
                      /\ pc[a] \in {"bh_free", "fail_free"} =>
                           ListOf(a) \in PageLists /\ heap[ListOf(a)] = "held"
    BY DEF ReleaseSafety
  <2>1. ChannelOf(a) \in Channels
    BY DEF IInv, TypeOK, ChannelOf
  <2>2. CASE a = Worker
    BY <2>1, <2>2 DEF IInv, PlacesOK, OnePhase, Quiet, TidyingUp, OwnershipOK,
       HasPinned, HasHeld, At, ListOf
  <2>3. CASE a \in Procs
    BY <2>1, <2>3 DEF IInv, PlacesOK, OwnershipOK, HasHeld, At, ListOf,
       CallLabels, BeforeClaim, AfterClaim, Filling
  <2> QED
    BY <2>2, <2>3 DEF Actors
<1> QED
  BY <1>1, PhasesKeptApart, PTL

\* Used within its limits, the driver leaks no page list: a channel that is
\* ready for its next transfer holds none.
THEOREM NothingLeaks == ASSUME Discipline PROVE Spec => []NoLeak
<1>1. IInv => NoLeak
  <2> SUFFICES ASSUME IInv, NEW l \in PageLists, heap[l] # "free"
               PROVE  \E c \in Channels :
                        /\ pages[c] = l
                        /\ in_progress[c] \/ \E a \in Actors : At(a, c, {"fail_free"})
    BY DEF NoLeak
  <2>1. PICK c \in Channels : pages[c] = l /\ Owns(c)
    BY DEF IInv, OwnershipOK
  <2>2. CASE in_progress[c]
    BY <2>1, <2>2
  <2>3. CASE ~ in_progress[c]
    <3>1. Quiet(c) /\ ~ Programming(c)
      BY <2>3 DEF IInv, OnePhase
    <3>2. \E p \in Procs : At(p, c, {"fail_free"})
      BY <2>1, <3>1 DEF Owns, HasPinned, HasHeld, Quiet, Programming, TidyingUp,
         At, AfterClaim, Filling
    <3> QED
      BY <2>1, <3>2 DEF Actors
  <2> QED
    BY <2>2, <2>3
<1> QED
  BY <1>1, PhasesKeptApart, PTL

\* Used within its limits, the driver never leaves an interrupt line asserted
\* that its handler would decline.
THEOREM InterruptsAreClaimed == ASSUME Discipline PROVE Spec => []IrqClaimed
<1>1. IInv => IrqClaimed
  BY DEF IInv, IrqClaimed, Interrupts, OnePhase, Quiet, Channels
<1> QED
  BY <1>1, PhasesKeptApart, PTL

\* in_progress changes only where a transfer claims its channel, fails, or is
\* tidied up.
LEMMA WhoChangesInProgress ==
  ASSUME Discipline, IInv, [Next]_vars,
         NEW c \in Channels, in_progress'[c] # in_progress[c]
  PROVE  \/ \E p \in Procs : At(p, c, {"claim", "fail"})
         \/ At(Worker, c, {"bh_clear"})
<1> USE DEF IInv, TypeOK, xfer, mem, plx, kern, act
<1>1. ASSUME NEW a \in Actors,
             SIPLX_doBlockDMA_Read(a) \/ SIPLX_doBlockDMA_Write(a)
      PROVE  \E p \in Procs : At(p, c, {"claim", "fail"})
  <2>1. DoBlockDMA(a) /\ a \in Procs
    BY <1>1, CallFrame DEF SIPLX_doBlockDMA_Read, SIPLX_doBlockDMA_Write
  <2>2. Claim(a) \/ Fail(a)
    BY <2>1 DEF DoBlockDMA, Spin, Kmalloc, KmallocNull, Build, Oops, FailFree,
       ReadToMask, WriteMasked, ReadToEnable, WriteEnabled, SetTimer, StartDMA
  <2>3. At(a, c, {"claim", "fail"})
    BY <2>2 DEF Claim, Fail, Goto, At, ChannelOf, Channels
  <2> QED
    BY <2>1, <2>3
<1>2. ASSUME NEW p \in Procs, Ioctl(p)
      PROVE  FALSE
  BY <1>2 DEF Ioctl, Call, SetTimeout, SIPLX_CancelDMA, CancelAbort, CancelWait,
     CancelClear, SIPLX_GetAddOn, GetAddOnWrite, Discipline, PlacesOK, Goto,
     CallLabels, BeforeClaim, AfterClaim, Filling
<1>3. ASSUME Isr \/ (\E d \in Channels : Complete(d)) \/ Ring \/ Deliver
             \/ RunWork \/ ServeNonBus
      PROVE  FALSE
  BY <1>3 DEF Isr, SIPLX_isr, IsrMark, IsrQueue, Complete, Ring, Deliver, DeliverSignal,
     RunWork, ServeNonBus
<1>4. ASSUME SIPLX_read_time_out \/ SIPLX_write_time_out
      PROVE  FALSE
  BY <1>4 DEF SIPLX_read_time_out, SIPLX_write_time_out, TimeOut, TimeOutWait,
     TimeOutClear, NoTimeouts, Channels
<1>5. ASSUME ReadBottomHalf \/ WriteBottomHalf
      PROVE  At(Worker, c, {"bh_clear"})
  <2>1. ClearInProgress
    BY <1>5 DEF ReadBottomHalf, WriteBottomHalf, BottomHalf, Serve, StopTimer,
       Take, SIPLX_Unmap_Pages, FreePages, Signal
  <2> QED
    BY <2>1 DEF ClearInProgress, Goto, At, ChannelOf, Channels
<1>6. CASE UNCHANGED vars
  BY <1>6 DEF vars
<1> QED
  BY <1>1, <1>2, <1>3, <1>4, <1>5, <1>6 DEF Next

\* Used within its limits, the driver reports a channel idle only when the card
\* has stopped and the completion has been served.
THEOREM ReleasedWhenDone == ASSUME Discipline PROVE Spec => ReleasedOnlyWhenDone
<1>1. ASSUME IInv, [Next]_vars, NEW c \in Channels,
             in_progress[c], ~ in_progress'[c]
      PROVE  ~ running[c] /\ ~ irq[c] /\ ~ just_completed[c]
  <2>1. \/ \E p \in Procs : At(p, c, {"claim", "fail"})
        \/ At(Worker, c, {"bh_clear"})
    BY <1>1, WhoChangesInProgress
  <2>2. CASE \E p \in Procs : At(p, c, {"claim", "fail"})
    BY <1>1, <2>2 DEF IInv, OnePhase, Programming, Quiet, At, AfterClaim
  <2>3. CASE At(Worker, c, {"bh_clear"})
    BY <1>1, <2>3 DEF IInv, OnePhase, TidyingUp, At
  <2> QED
    BY <2>1, <2>2, <2>3
<1>2. IInv /\ [Next]_vars =>
        \A c \in Channels : in_progress[c] /\ ~ in_progress'[c] =>
          ~ running[c] /\ ~ irq[c] /\ ~ just_completed[c]
  BY <1>1
<1> QED
  BY <1>2, PhasesKeptApart, PTL DEF Spec, ReleasedOnlyWhenDone

\* Used within its limits, the driver claims a channel only when nothing of an
\* earlier transfer is left that could be taken for the new one's.
THEOREM ClaimedWhenQuiet == ASSUME Discipline PROVE Spec => ClaimedOnlyWhenQuiet
<1>1. ASSUME IInv, NEW c \in Channels, ~ in_progress[c]
      PROVE  /\ ~ running[c] /\ ~ irq[c] /\ ~ just_completed[c]
             /\ timer[c] = "off" /\ handler[c] = "idle"
             /\ ~ At(Worker, c, {"bh_stop", "bh_take", "bh_unmap", "bh_free", "bh_clear"})
  BY <1>1 DEF IInv, OnePhase, Quiet, TidyingUp, NoTimeouts, PlacesOK, At
<1>2. IInv /\ [Next]_vars =>
        \A c \in Channels : ~ in_progress[c] /\ in_progress'[c] =>
          /\ ~ running[c] /\ ~ irq[c] /\ ~ just_completed[c]
          /\ timer[c] = "off" /\ handler[c] = "idle"
          /\ ~ At(Worker, c, {"bh_stop", "bh_take", "bh_unmap", "bh_free", "bh_clear"})
  BY <1>1
<1> QED
  BY <1>2, PhasesKeptApart, PTL DEF Spec, ClaimedOnlyWhenQuiet

-----------------------------------------------------------------------------
\* The refinement of DmaChannel

\* The refinement mapping, and the two ways a step of the driver shows in it.
Phase  == [c \in Channels |-> PhaseOf(c)]
Owned == [c \in Channels |-> BufferOf(c)]

SameFor(c) ==
  /\ in_progress'[c] = in_progress[c]
  /\ running'[c] = running[c]
  /\ Completing(c)' <=> Completing(c)
  /\ HasPinned(c)' <=> HasPinned(c)
  /\ HasPinned(c) => pages'[c] = pages[c]

LEMMA SameImage ==
  ASSUME NEW c \in Channels, SameFor(c)
  PROVE  PhaseOf(c)' = PhaseOf(c) /\ BufferOf(c)' = BufferOf(c)
BY DEF SameFor, PhaseOf, BufferOf

LEMMA Stutters ==
  ASSUME \A c \in Channels : SameFor(c)
  PROVE  UNCHANGED <<Phase, Owned>>
BY SameImage DEF Phase, Owned

LEMMA OneMoves ==
  ASSUME NEW ch \in Channels, \A d \in Channels \ {ch} : SameFor(d)
  PROVE  /\ Phase' = [Phase EXCEPT ![ch] = PhaseOf(ch)']
         /\ Owned' = [Owned EXCEPT ![ch] = BufferOf(ch)']
BY SameImage DEF Phase, Owned

\* A step that changes one channel the way an action of DmaChannel does.
LEMMA AbstractStep ==
  ASSUME NEW ch \in Channels,
         \A d \in Channels \ {ch} : SameFor(d),
         \/ /\ PhaseOf(ch) = "free" /\ PhaseOf(ch)' = "claimed"
            /\ BufferOf(ch)' = BufferOf(ch)
         \/ /\ PhaseOf(ch) = "claimed" /\ PhaseOf(ch)' = "free"
            /\ BufferOf(ch) = NoList /\ BufferOf(ch)' = NoList
         \/ /\ PhaseOf(ch) = "claimed" /\ PhaseOf(ch)' = "claimed"
            /\ BufferOf(ch) = NoList /\ BufferOf(ch)' \in PageLists
            /\ \A d \in Channels : BufferOf(d) # BufferOf(ch)'
         \/ /\ PhaseOf(ch) = "claimed" /\ PhaseOf(ch)' = "moving"
            /\ BufferOf(ch) # NoList /\ BufferOf(ch)' = BufferOf(ch)
         \/ /\ PhaseOf(ch) = "moving" /\ PhaseOf(ch)' = "done"
            /\ BufferOf(ch)' = BufferOf(ch)
         \/ /\ PhaseOf(ch) = "done" /\ PhaseOf(ch)' = "done"
            /\ BufferOf(ch) # NoList /\ BufferOf(ch)' = NoList
         \/ /\ PhaseOf(ch) = "done" /\ PhaseOf(ch)' = "free"
            /\ BufferOf(ch) = NoList /\ BufferOf(ch)' = NoList
  PROVE  Engine!Next
<1>1. /\ Phase' = [Phase EXCEPT ![ch] = PhaseOf(ch)']
      /\ Owned' = [Owned EXCEPT ![ch] = BufferOf(ch)']
  BY OneMoves
<1>2. /\ Phase \in [Channels -> {PhaseOf(c) : c \in Channels}]
      /\ Owned \in [Channels -> {BufferOf(c) : c \in Channels}]
      /\ Phase[ch] = PhaseOf(ch) /\ Owned[ch] = BufferOf(ch)
      /\ \A d \in Channels : Owned[d] = BufferOf(d)
  BY DEF Phase, Owned
<1>3. /\ PhaseOf(ch)' = PhaseOf(ch) => Phase' = Phase
      /\ BufferOf(ch)' = BufferOf(ch) => Owned' = Owned
  BY <1>1, <1>2
<1> QED
  BY <1>1, <1>2, <1>3 DEF Engine!Next, Engine!Claim, Engine!GiveUp, Engine!Pin, Engine!Start,
     Engine!Finish, Engine!Unpin, Engine!Release, Engine!Step, Phase, Owned

\* What a channel looks like in DmaChannel.
Looks(c) ==
  /\ ~ in_progress[c] => PhaseOf(c) = "free" /\ BufferOf(c) = NoList
  /\ Programming(c) => PhaseOf(c) = "claimed"
  /\ running[c] => PhaseOf(c) = "moving"
  /\ Completing(c) => PhaseOf(c) = "done"
  /\ HasPinned(c) => BufferOf(c) = pages[c] /\ pages[c] \in PageLists
  /\ ~ HasPinned(c) => BufferOf(c) = NoList

LooksOK == \A c \in Channels : Looks(c)

LEMMA LooksNow == IInv => LooksOK
<1> SUFFICES ASSUME IInv, NEW c \in Channels PROVE Looks(c)
  BY DEF LooksOK
<1> USE DEF IInv, TypeOK
<1>1. ~ in_progress[c] => ~ HasPinned(c)
  BY DEF OnePhase, Quiet, Programming, TidyingUp, HasPinned, At, AfterClaim, Filling
<1>2. running[c] \/ Completing(c) \/ Programming(c) => in_progress[c]
  BY DEF OnePhase, Quiet, Completing
<1>3. Completing(c) => ~ running[c]
  BY DEF OnePhase, Completing
<1>4. Programming(c) => ~ running[c] /\ ~ Completing(c)
  BY DEF OnePhase, Quiet, Completing
<1>5. HasPinned(c) => pages[c] \in PageLists
  BY DEF OwnershipOK
<1> QED
  BY <1>1, <1>2, <1>3, <1>4, <1>5 DEF PhaseOf, BufferOf, Looks

LEMMA LooksNext == IInv' => LooksOK'
BY LooksNow, PTL

\* The steps of a transfer that a process asked for.
LEMMA RefinesDoBlockDMA ==
  ASSUME Discipline, IInv, IInv', NEW a \in Actors, DoBlockDMA(a)
  PROVE  Engine!Next \/ UNCHANGED <<Phase, Owned>>
<1>0. /\ a \in Procs /\ a # Worker /\ pc[a] \in CallLabels
      /\ \A b \in Actors : b # a => pc'[b] = pc[b] /\ job'[b] = job[b]
      /\ pc'[a] # "idle" => job'[a] = job[a]
  BY CallFrame, BusMasterAssumption DEF IInv
<1>p. PICK ch \in Channels : ch = ChannelOf(a)
  BY <1>0 DEF IInv, TypeOK, ChannelOf, Actors
<1>a. ch \in Channels /\ job[a].ch = ch /\ At(a, ch, CallLabels)
  BY <1>0, <1>p DEF At, ChannelOf
<1>c. \A q \in Procs : At(q, ch, CallLabels) => q = a
  BY <1>0, <1>a, OneCaller DEF IInv, Discipline
<1>d. pc[a] \in AfterClaim => Programming(ch) /\ Quiet(ch) /\ in_progress[ch]
  BY <1>0, <1>a DEF IInv, OnePhase, Programming, At
<1>e. pc[a] \in AfterClaim \ Filling => ~ HasPinned(ch)
  BY <1>0, <1>a, <1>c, <1>d DEF Quiet, HasPinned, TidyingUp, At, CallLabels, AfterClaim
<1>f. \A d \in Channels \ {ch} : SameFor(d)
  <2> USE DEF DoBlockDMA, Spin, Claim, Kmalloc, KmallocNull, Build, Oops, Fail,
         FailFree, ReadToMask, WriteMasked, ReadToEnable, WriteEnabled,
         SetTimer, StartDMA, SIPLX_Build_SGL, Return, xfer, mem, plx, kern
  <2>1. \A d \in Channels \ {ch} : in_progress'[d] = in_progress[d] /\ pages'[d] = pages[d]
    BY <1>0, <1>a DEF IInv, TypeOK, ChannelOf
  <2>2. \A d \in Channels \ {ch} : running'[d] = running[d]
    BY <1>0, <1>a DEF IInv, TypeOK, ChannelOf
  <2>3. UNCHANGED <<irq, isr, just_completed>>
    BY DEF IInv, TypeOK
  <2>4. ASSUME NEW d \in Channels \ {ch}, NEW b \in Actors, NEW label, label # "idle"
        PROVE  (pc'[b] = label /\ job'[b].ch = d) <=> (pc[b] = label /\ job[b].ch = d)
    <3>1. CASE b = a
      BY <1>0, <1>a, <2>4, <3>1
    <3>2. CASE b # a
      BY <1>0, <3>2
    <3> QED
      BY <3>1, <3>2
  <2>5. ASSUME NEW d \in Channels \ {ch}, NEW b \in Actors
        PROVE  /\ At(b, d, Filling)' <=> At(b, d, Filling)
               /\ At(b, d, {"bh_unmap"})' <=> At(b, d, {"bh_unmap"})
               /\ At(b, d, {"bh_unmap", "bh_free", "bh_clear"})' <=>
                    At(b, d, {"bh_unmap", "bh_free", "bh_clear"})
    BY <2>4 DEF At, ChannelOf, Filling
  <2> HIDE DEF DoBlockDMA
  <2>6. ASSUME NEW d \in Channels \ {ch}
        PROVE  /\ Completing(d)' <=> Completing(d)
               /\ HasPinned(d)' <=> HasPinned(d)
    BY <2>2, <2>3, <2>5 DEF Completing, HasPinned, Marking, TidyingUp, Actors
  <2> QED
    BY <2>1, <2>2, <2>6 DEF SameFor
<1>g. Looks(ch) /\ Looks(ch)'
  BY <1>a, LooksNow, LooksNext DEF LooksOK
<1>h. SameFor(ch) => UNCHANGED <<Phase, Owned>>
  BY <1>f, Stutters
<1> USE DEF IInv, TypeOK, Goto, Return, At, ChannelOf, ListOf, Actors, xfer, mem, plx, kern,
            CallLabels, BeforeClaim, AfterClaim, Filling
<1>1. CASE Spin(a)
  BY <1>0, <1>a, <1>c, <1>e, <1>1, <1>h
     DEF SameFor, Completing, HasPinned, Marking, TidyingUp, Spin
<1>2. CASE Kmalloc(a)
  BY <1>0, <1>a, <1>c, <1>e, <1>2, <1>h
     DEF SameFor, Completing, HasPinned, Marking, TidyingUp, Kmalloc
<1>3. CASE KmallocNull(a)
  BY <1>0, <1>a, <1>c, <1>e, <1>3, <1>h
     DEF SameFor, Completing, HasPinned, Marking, TidyingUp, KmallocNull
<1>4. CASE FailFree(a)
  BY <1>0, <1>a, <1>c, <1>e, <1>4, <1>h
     DEF SameFor, Completing, HasPinned, Marking, TidyingUp, FailFree, Kfree
<1>5. CASE ReadToMask(a)
  BY <1>0, <1>a, <1>c, <1>e, <1>5, <1>h
     DEF SameFor, Completing, HasPinned, Marking, TidyingUp, ReadToMask
<1>6. CASE WriteMasked(a)
  BY <1>0, <1>a, <1>c, <1>e, <1>6, <1>h
     DEF SameFor, Completing, HasPinned, Marking, TidyingUp, WriteMasked
<1>7. CASE ReadToEnable(a)
  BY <1>0, <1>a, <1>c, <1>e, <1>7, <1>h
     DEF SameFor, Completing, HasPinned, Marking, TidyingUp, ReadToEnable
<1>8. CASE WriteEnabled(a)
  BY <1>0, <1>a, <1>c, <1>e, <1>8, <1>h
     DEF SameFor, Completing, HasPinned, Marking, TidyingUp, WriteEnabled
<1>9. CASE SetTimer(a)
  BY <1>0, <1>a, <1>c, <1>e, <1>9, <1>h
     DEF SameFor, Completing, HasPinned, Marking, TidyingUp, SetTimer
<1>10. CASE Claim(a)
  <2>1. ~ in_progress[ch] /\ Quiet(ch) /\ ~ setup[ch]
    BY <1>0, <1>a, <1>10 DEF Claim, OnePhase, Quiet, TidyingUp
  <2>2. in_progress'[ch] /\ Programming(ch)' /\ pages' = pages
    BY <1>0, <1>a, <1>10, <2>1 DEF Claim, Programming
  <2>3. HasPinned(ch)' <=> HasPinned(ch)
    BY <1>0, <1>a, <1>c, <1>10 DEF Claim, HasPinned, Marking
  <2>4. PhaseOf(ch) = "free" /\ PhaseOf(ch)' = "claimed" /\ BufferOf(ch)' = BufferOf(ch)
    BY <1>g, <2>1, <2>2, <2>3 DEF Looks
  <2> QED
    BY <1>a, <1>f, <2>4, AbstractStep
<1>11. CASE Fail(a)
  <2>1. Programming(ch) /\ ~ HasPinned(ch)
    BY <1>a, <1>d, <1>e, <1>11 DEF Fail
  <2>2. ~ in_progress'[ch]
    BY <1>a, <1>11 DEF Fail
  <2> QED
    BY <1>a, <1>f, <1>g, <2>1, <2>2, AbstractStep DEF Looks
<1>12. CASE Build(a)
  <2>1. ~ HasPinned(ch) /\ Programming(ch) /\ Programming(ch)'
    BY <1>0, <1>a, <1>d, <1>e, <1>12 DEF Build, Programming
  <2>2. PhaseOf(ch) = "claimed" /\ PhaseOf(ch)' = "claimed" /\ BufferOf(ch) = NoList
    BY <1>g, <2>1 DEF Looks
  <2>3. pages' = pages /\ HasHeld(ch)
    BY <1>0, <1>a, <1>12 DEF Build, HasHeld
  <2>4. CASE HasPinned(ch)'
    <3>1. BufferOf(ch)' = pages[ch] /\ pages[ch] \in PageLists
      BY <1>g, <2>3, <2>4 DEF Looks
    <3>2. \A d \in Channels \ {ch} : HasPinned(d) => pages[d] # pages[ch]
      BY <1>a, <2>3 DEF OwnershipOK, Owns
    <3>3. \A d \in Channels : BufferOf(d) # pages[ch]
      BY <2>2, <3>1, <3>2, BusMasterAssumption DEF BufferOf
    <3> QED
      BY <1>a, <1>f, <2>2, <3>1, <3>3, AbstractStep
  <2>5. CASE ~ HasPinned(ch)'
    <3>1. in_progress' = in_progress /\ running' = running
      BY <1>12 DEF Build
    <3>2. Completing(ch)' <=> Completing(ch)
      BY <1>0, <1>12 DEF Build, Completing, Marking, TidyingUp
    <3> QED
      BY <1>f, <2>1, <2>5, <3>1, <3>2, <1>h DEF SameFor
  <2> QED
    BY <2>4, <2>5
<1>13. CASE StartDMA(a)
  <2>1. Programming(ch) /\ HasPinned(ch)
    BY <1>0, <1>a, <1>d, <1>13 DEF StartDMA, HasPinned
  <2>2. running'[ch] /\ HasPinned(ch)' /\ pages' = pages
    BY <1>a, <1>13 DEF StartDMA, HasPinned
  <2>3. /\ PhaseOf(ch) = "claimed" /\ PhaseOf(ch)' = "moving"
        /\ BufferOf(ch) # NoList /\ BufferOf(ch)' = BufferOf(ch)
    BY <1>g, <2>1, <2>2, BusMasterAssumption DEF Looks
  <2> QED
    BY <1>a, <1>f, <2>3, AbstractStep
<1>14. CASE Oops(a)
  BY <1>0, <1>14, BusMasterAssumption DEF Oops, Oopses, OwnershipOK, HasHeld
<1> QED
  BY <1>1, <1>2, <1>3, <1>4, <1>5, <1>6, <1>7, <1>8, <1>9, <1>10, <1>11, <1>12, <1>13, <1>14
     DEF DoBlockDMA

\* The other ioctls change no channel.
LEMMA RefinesIoctl ==
  ASSUME Discipline, IInv, NEW p \in Procs, Ioctl(p)
  PROVE  UNCHANGED <<Phase, Owned>>
<1> SUFFICES ASSUME NEW c \in Channels PROVE SameFor(c)
  BY Stutters
<1>0. p # Worker /\ p \in Actors /\ pc[p] \in CallLabels \cup {"idle", "addon_write"}
  BY BusMasterAssumption DEF Actors, IInv, PlacesOK
<1>1. UNCHANGED <<in_progress, running, irq, just_completed, isr, pages>>
  BY <1>0 DEF Ioctl, Call, SetTimeout, SIPLX_CancelDMA, CancelAbort, CancelWait,
     CancelClear, SIPLX_GetAddOn, GetAddOnWrite, Discipline, Goto, Return,
     CallLabels, BeforeClaim, AfterClaim, Filling, xfer, mem, plx, kern
<1>2. ~ (CancelAbort(p) \/ CancelWait(p) \/ CancelClear(p) \/ SIPLX_CancelDMA(p))
  BY <1>0 DEF CancelAbort, CancelWait, CancelClear, SIPLX_CancelDMA, Discipline,
     Goto, CallLabels, BeforeClaim, AfterClaim, Filling
<1>3. /\ pc[p] \in {"idle", "addon_write"} /\ pc'[p] \in {"idle", "spin", "addon_write"}
      /\ \A b \in Actors : b # p => pc'[b] = pc[b] /\ job'[b] = job[b]
  <2> USE <1>0 DEF IInv, TypeOK, Goto, Return, act
  <2> DEFINE Moves == /\ pc[p] \in {"idle", "addon_write"}
                      /\ pc'[p] \in {"idle", "spin", "addon_write"}
                      /\ \A b \in Actors : b # p => pc'[b] = pc[b] /\ job'[b] = job[b]
  <2>1. ASSUME NEW d \in Channels, NEW r \in Requests, Call(p, d, r) PROVE Moves
    BY <2>1 DEF Call
  <2>2. ASSUME NEW v \in TimerValues, SetTimeout(p, v) PROVE Moves
    BY <2>2 DEF SetTimeout
  <2>3. CASE SIPLX_GetAddOn(p)
    BY <2>3 DEF SIPLX_GetAddOn
  <2>4. CASE GetAddOnWrite(p)
    BY <2>4 DEF GetAddOnWrite
  <2> QED
    BY <1>2, <2>1, <2>2, <2>3, <2>4 DEF Ioctl
<1> QED
  BY <1>0, <1>1, <1>3 DEF SameFor, Completing, HasPinned, Marking, TidyingUp, At,
     ChannelOf, Filling, Actors

\* Of the card and the interrupt handler, only the end of a transfer shows.
LEMMA RefinesCard ==
  ASSUME Discipline, IInv, IInv',
         Isr \/ (\E c \in Channels : Complete(c)) \/ Ring \/ Deliver
  PROVE  Engine!Next \/ UNCHANGED <<Phase, Owned>>
<1>1. ASSUME Isr \/ Ring \/ Deliver, NEW c \in Channels
      PROVE  SameFor(c)
  BY <1>1 DEF IInv, TypeOK, Isr, SIPLX_isr, Claims, Interrupts, IsrMark, IsrQueue,
     Ring, Deliver, DeliverSignal, SameFor, Completing, HasPinned, Marking, TidyingUp, At,
     ChannelOf, Channels, Sources, xfer, mem, plx, kern, act
<1>2. ASSUME NEW c \in Channels, Complete(c)
      PROVE  Engine!Next
  <2>1. running[c] /\ HasPinned(c) /\ HasPinned(c)' /\ Completing(c)' /\ pages' = pages
    BY <1>2 DEF IInv, TypeOK, Complete, HasPinned, Completing, xfer
  <2>2. \A d \in Channels \ {c} : SameFor(d)
    BY <1>2 DEF IInv, TypeOK, Complete, SameFor, Completing, HasPinned, Marking,
       TidyingUp, At, ChannelOf, xfer, mem, kern, act
  <2>3. PhaseOf(c) = "moving" /\ PhaseOf(c)' = "done" /\ BufferOf(c)' = BufferOf(c)
    BY <2>1, LooksNow, LooksNext DEF LooksOK, Looks
  <2> QED
    BY <2>2, <2>3, AbstractStep
<1> QED
  BY <1>1, <1>2, Stutters

\* Of the bottom half, unpinning the pages and releasing the channel show.
LEMMA RefinesBottomHalf ==
  ASSUME Discipline, IInv, IInv',
         \/ RunWork \/ ReadBottomHalf \/ WriteBottomHalf \/ ServeNonBus
         \/ SIPLX_read_time_out \/ SIPLX_write_time_out
  PROVE  Engine!Next \/ UNCHANGED <<Phase, Owned>>
<1>0. /\ Worker \notin Procs /\ Worker \in Actors
      /\ \A p \in Procs : p \in Actors /\ p # Worker
  BY BusMasterAssumption DEF Actors
<1>p. PICK ch \in Channels : ch = ChannelOf(Worker)
  BY <1>0 DEF IInv, TypeOK, ChannelOf
<1>1. ASSUME RunWork \/ ServeNonBus \/ (\E c \in Channels : Serve(c)) \/ StopTimer
             \/ FreePages \/ Signal,
             NEW c \in Channels
      PROVE  SameFor(c)
  <2> USE <1>0, <1>1 DEF IInv, TypeOK, RunWork, ServeNonBus, Serve, StopTimer, FreePages,
          Signal, Goto, Return, xfer, mem, plx, kern
  <2>1. UNCHANGED <<in_progress, running, irq, pages, isr>>
    OBVIOUS
  <2>2. just_completed'[c] = just_completed[c]
    BY DEF Channels, Sources
  <2>3. \A b \in Procs : pc'[b] = pc[b] /\ job'[b] = job[b]
    OBVIOUS
  <2>4. At(Worker, c, {"bh_unmap"})' <=> At(Worker, c, {"bh_unmap"})
    BY DEF At, ChannelOf
  <2>5. TidyingUp(c)' <=> TidyingUp(c)
    BY DEF TidyingUp, At, ChannelOf
  <2> QED
    BY <2>1, <2>2, <2>3, <2>4, <2>5 DEF SameFor, Completing, HasPinned, Marking, At, ChannelOf
<1>2. ASSUME Take \/ SIPLX_Unmap_Pages \/ ClearInProgress
      PROVE  /\ \A d \in Channels \ {ch} : SameFor(d)
             /\ UNCHANGED <<running, irq, pages, isr>>
             /\ \A b \in Procs : pc'[b] = pc[b] /\ job'[b] = job[b]
             /\ job'[Worker].ch = ch /\ job[Worker].ch = ch
  <2> USE <1>0, <1>p, <1>2 DEF IInv, TypeOK, ChannelOf, Take, SIPLX_Unmap_Pages,
          ClearInProgress, Goto, xfer, mem, plx, kern
  <2>1. UNCHANGED <<running, irq, pages, isr>>
    OBVIOUS
  <2>2. \A b \in Procs : pc'[b] = pc[b] /\ job'[b] = job[b]
    OBVIOUS
  <2>3. job'[Worker].ch = ch /\ job[Worker].ch = ch
    OBVIOUS
  <2>4. \A d \in Channels \ {ch} : /\ in_progress'[d] = in_progress[d]
                                   /\ just_completed'[d] = just_completed[d]
    BY DEF Channels, Sources
  <2> QED
    BY <2>1, <2>2, <2>3, <2>4
       DEF SameFor, Completing, HasPinned, Marking, TidyingUp, At
<1>g. Looks(ch) /\ Looks(ch)'
  BY LooksNow, LooksNext DEF LooksOK
<1>3. CASE Take
  <2>1. /\ pc[Worker] = "bh_take" /\ just_completed[ch] /\ bytes_remaining[ch] = 0
        /\ pc'[Worker] = "bh_unmap" /\ in_progress' = in_progress
    BY <1>0, <1>p, <1>3 DEF IInv, TypeOK, PlacesOK, NoTimeouts, Take, Goto
  <2>2. SameFor(ch)
    BY <1>2, <1>3, <2>1 DEF SameFor, Completing, HasPinned, TidyingUp, At, ChannelOf
  <2> QED
    BY <1>2, <1>3, <2>2, Stutters
<1>4. CASE SIPLX_Unmap_Pages
  <2>1. /\ pc[Worker] = "bh_unmap" /\ pc'[Worker] = "bh_free"
        /\ just_completed' = just_completed
    BY <1>0, <1>4 DEF IInv, TypeOK, SIPLX_Unmap_Pages, Goto, xfer
  <2>2. TidyingUp(ch) /\ TidyingUp(ch)' /\ HasPinned(ch)
    BY <1>2, <1>4, <2>1 DEF TidyingUp, HasPinned, At, ChannelOf
  <2>3. ~ HasPinned(ch)'
    BY <1>2, <1>4, <2>1, <2>2 DEF IInv, OnePhase, Quiet, Programming, HasPinned,
       Marking, At, AfterClaim
  <2>4. /\ PhaseOf(ch) = "done" /\ PhaseOf(ch)' = "done"
        /\ BufferOf(ch) # NoList /\ BufferOf(ch)' = NoList
    BY <1>g, <2>2, <2>3, BusMasterAssumption DEF Looks, Completing
  <2> QED
    BY <1>2, <1>4, <2>4, AbstractStep
<1>5. CASE ClearInProgress
  <2>1. /\ pc[Worker] = "bh_clear" /\ ~ in_progress'[ch]
    BY <1>0, <1>p, <1>5 DEF IInv, TypeOK, ClearInProgress, Goto
  <2>2. TidyingUp(ch) /\ ~ HasPinned(ch)
    BY <1>2, <1>5, <2>1 DEF IInv, OnePhase, Quiet, Programming, HasPinned, TidyingUp,
       At, AfterClaim, ChannelOf
  <2>3. /\ PhaseOf(ch) = "done" /\ PhaseOf(ch)' = "free"
        /\ BufferOf(ch) = NoList /\ BufferOf(ch)' = NoList
    BY <1>g, <2>1, <2>2 DEF Looks, Completing
  <2> QED
    BY <1>2, <1>5, <2>3, AbstractStep
<1>6. ASSUME NEW c \in Channels, TimeOut(c) \/ TimeOutWait(c) \/ TimeOutClear(c)
      PROVE  FALSE
  BY <1>6 DEF IInv, TimeOut, TimeOutWait, TimeOutClear, NoTimeouts
<1> QED
  BY <1>1, <1>3, <1>4, <1>5, <1>6, Stutters
     DEF ReadBottomHalf, WriteBottomHalf, BottomHalf, SIPLX_read_time_out,
         SIPLX_write_time_out, Channels

\* Used within its limits, by one process a channel, the driver implements
\* DmaChannel, whatever the number of pages, lists and buffers.
THEOREM DriverImplementsDmaChannel == ASSUME Discipline PROVE Spec => ImplementsDmaChannel
<1>1. ASSUME Init
      PROVE  Engine!Init
  BY <1>1 DEF Init, Engine!Init, PhaseOf, BufferOf, HasPinned, Marking, At, Filling,
     Channels, Sources, Actors, ChannelOf, NoJob
<1>2. ASSUME IInv, IInv', [Next]_vars
      PROVE  Engine!Next \/ UNCHANGED <<Phase, Owned>>
  <2>1. ASSUME NEW a \in Actors,
               SIPLX_doBlockDMA_Read(a) \/ SIPLX_doBlockDMA_Write(a)
        PROVE  Engine!Next \/ UNCHANGED <<Phase, Owned>>
    BY <1>2, <2>1, RefinesDoBlockDMA DEF SIPLX_doBlockDMA_Read, SIPLX_doBlockDMA_Write
  <2>2. CASE UNCHANGED vars
    <3>1. \A c \in Channels : SameFor(c)
      BY <2>2 DEF SameFor, Completing, HasPinned, Marking, TidyingUp, At, ChannelOf,
         vars, xfer, mem, plx, kern, act
    <3> QED
      BY <3>1, Stutters
  <2> QED
    BY <1>2, <2>1, <2>2, RefinesIoctl, RefinesCard, RefinesBottomHalf DEF Next
<1>3. IInv /\ IInv' /\ [Next]_vars =>
        [Engine!Next]_<<[c \in Channels |-> PhaseOf(c)], [c \in Channels |-> BufferOf(c)]>>
  BY <1>2 DEF Phase, Owned
<1> QED
  BY <1>1, <1>3, PhasesKeptApart, PTL DEF Spec, ImplementsDmaChannel, Engine!Spec
=============================================================================
