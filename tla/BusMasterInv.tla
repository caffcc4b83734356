---------------------------- MODULE BusMasterInv ----------------------------
(***************************************************************************)
(* The inductive invariant of BusMaster when the driver is used within the *)
(* limits its code silently relies on.                                     *)
(***************************************************************************)
EXTENDS BusMaster

\* r is not empty and no larger than a descriptor table.
Fits(r) ==
  /\ r.count > 0
  /\ NrPages(r) \in 1 .. MaxPages
  /\ r.count <= MaxSize(r)

\* One process transfers on a channel, and buffers are mapped.
Limits ==
  /\ \A c \in Channels : \A p, q \in Users[c] : p = q
  /\ "error" \notin PinResults

\* All the limits: also, nobody cancels or sets a timeout, and every buffer fits.
Discipline ==
  /\ Limits
  /\ Cancellers = {}
  /\ TimerValues \subseteq {0}
  /\ \A r \in Requests : Fits(r)

BeforeClaim == {"spin", "claim", "fail_free"}
Filling == {"mask_read", "mask_write", "enable_read", "enable_write",
            "set_timer", "start"}
AfterClaim == {"alloc", "build", "fail"} \cup Filling
CallLabels == BeforeClaim \cup AfterClaim

\* A process is outside, in a transfer of its own that fits, or in GetAddOn;
\* the work queue is outside or in the bottom half.
PlacesOK ==
  /\ \A p \in Procs :
       /\ pc[p] \in CallLabels \cup {"idle", "addon_write"}
       /\ pc[p] \in CallLabels =>
            p \in Users[ChannelOf(p)] /\ Fits(job[p])
  /\ pc[Worker] \in {"idle", "bh", "bh_stop", "bh_take", "bh_unmap", "bh_free",
                     "bh_clear", "bh_signal"}
  /\ pc[Worker] \in {"bh_stop", "bh_take"} => just_completed[ChannelOf(Worker)]

\* No timeout is set, so none is armed or runs; nothing is left over.
NoTimeouts ==
  \A c \in Channels :
    /\ timer_value[c] = 0 /\ timer[c] = "off" /\ handler[c] = "idle"
    /\ bytes_remaining[c] = 0

\* The phases of a transfer: a process programs it, the card moves it, its
\* interrupt waits, the interrupt handler records it, its completion waits,
\* the bottom half tidies up.
Programming(c) == \E p \in Procs : At(p, c, AfterClaim)
Marking(c)     == isr.at = "mark" /\ isr.src = c
TidyingUp(c)   == At(Worker, c, {"bh_unmap", "bh_free", "bh_clear"})

Quiet(c) ==
  /\ ~ running[c]
  /\ ~ irq[c]
  /\ ~ Marking(c)
  /\ ~ just_completed[c]
  /\ ~ TidyingUp(c)

\* A channel that is not in progress is in no phase, and one that is in
\* progress is in at most one.
OnePhase ==
  \A c \in Channels :
    /\ ~ in_progress[c] => Quiet(c) /\ ~ Programming(c)
    /\ Programming(c) => Quiet(c) /\ ~ setup[c]
    /\ running[c] => ~ irq[c] /\ ~ Marking(c) /\ ~ just_completed[c] /\ ~ TidyingUp(c)
    /\ irq[c] => ~ Marking(c) /\ ~ just_completed[c] /\ ~ TidyingUp(c)
    /\ Marking(c) => ~ just_completed[c] /\ ~ TidyingUp(c)
    /\ just_completed[c] => ~ TidyingUp(c)
    /\ setup[c] => At(Worker, c, {"bh_unmap", "bh_free"})
    /\ \A p \in Procs : At(p, c, {"claim", "fail_free"}) => ~ in_progress[c]

\* Who owns the list pages[c], in which state.
HasPinned(c) ==
  \/ \E p \in Procs : At(p, c, Filling)
  \/ running[c]
  \/ irq[c]
  \/ Marking(c)
  \/ just_completed[c]
  \/ At(Worker, c, {"bh_unmap"})

HasHeld(c) ==
  \/ \E p \in Procs : At(p, c, {"build", "fail", "fail_free"})
  \/ At(Worker, c, {"bh_free"})

Owns(c) == HasPinned(c) \/ HasHeld(c)

\* Every list that is allocated is owned by exactly one channel, and a pinned
\* one is the one its descriptors address.
OwnershipOK ==
  /\ \A c \in Channels :
       /\ HasPinned(c) =>
            /\ pages[c] \in PageLists /\ heap[pages[c]] = "pinned"
            /\ desc[c] = pages[c]
       /\ HasHeld(c) => pages[c] \in PageLists /\ heap[pages[c]] = "held"
  /\ \A c, d \in Channels :
       Owns(c) /\ Owns(d) /\ pages[c] = pages[d] => c = d
  /\ \A l \in PageLists : heap[l] # "free" =>
       \E c \in Channels : pages[c] = l /\ Owns(c)

\* Inductive under Discipline: the phases of a transfer follow one another and
\* its page list goes with them.
IInv == TypeOK /\ PlacesOK /\ NoTimeouts /\ OnePhase /\ OwnershipOK
=============================================================================
