----------------------------- MODULE DmaChannel -----------------------------
(***************************************************************************)
(* What the siplx driver promises the user library of its DMA channels,    *)
(* without processes, interrupts or memory management: a channel is        *)
(* claimed, gets a pinned buffer of its own, moves it, and is free again   *)
(* only when the card is done and the buffer has been given back.          *)
(***************************************************************************)
CONSTANTS
  Channels,
  Buffers,  \* what a transfer may pin
  NoBuffer  \* not one of them

VARIABLES
  phase,    \* where a channel's transfer is
  buffer    \* what the channel has pinned

Phases == {"free", "claimed", "moving", "done"}

Init ==
  /\ phase = [c \in Channels |-> "free"]
  /\ buffer = [c \in Channels |-> NoBuffer]

Step(c, from, to) ==
  /\ phase[c] = from
  /\ phase' = [phase EXCEPT ![c] = to]

Claim(c)   == Step(c, "free", "claimed") /\ UNCHANGED buffer
GiveUp(c)  == buffer[c] = NoBuffer /\ Step(c, "claimed", "free") /\ UNCHANGED buffer
Start(c)   == buffer[c] # NoBuffer /\ Step(c, "claimed", "moving") /\ UNCHANGED buffer
Finish(c)  == Step(c, "moving", "done") /\ UNCHANGED buffer
Release(c) == buffer[c] = NoBuffer /\ Step(c, "done", "free") /\ UNCHANGED buffer

\* A buffer is pinned for one channel at a time.
Pin(c, b) ==
  /\ phase[c] = "claimed"
  /\ buffer[c] = NoBuffer
  /\ \A d \in Channels : buffer[d] # b
  /\ buffer' = [buffer EXCEPT ![c] = b]
  /\ UNCHANGED phase

Unpin(c) ==
  /\ phase[c] = "done"
  /\ buffer[c] # NoBuffer
  /\ buffer' = [buffer EXCEPT ![c] = NoBuffer]
  /\ UNCHANGED phase

Next ==
  \E c \in Channels :
    \/ Claim(c)
    \/ GiveUp(c)
    \/ \E b \in Buffers : Pin(c, b)
    \/ Start(c)
    \/ Finish(c)
    \/ Unpin(c)
    \/ Release(c)

Spec == Init /\ [][Next]_<<phase, buffer>>
=============================================================================
