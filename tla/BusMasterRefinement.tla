------------------------ MODULE BusMasterRefinement ------------------------
(***************************************************************************)
(* BusMaster seen as the channels of DmaChannel.                           *)
(***************************************************************************)
EXTENDS BusMasterInv

\* The card is done with the channel and the driver is not.
Completing(c) == irq[c] \/ Marking(c) \/ just_completed[c] \/ TidyingUp(c)

PhaseOf(c) ==
  CASE ~ in_progress[c] -> "free"
    [] in_progress[c] /\ running[c] -> "moving"
    [] in_progress[c] /\ ~ running[c] /\ Completing(c) -> "done"
    [] in_progress[c] /\ ~ running[c] /\ ~ Completing(c) -> "claimed"

BufferOf(c) == IF HasPinned(c) THEN pages[c] ELSE NoList

Engine == INSTANCE DmaChannel WITH
  Buffers <- PageLists,
  NoBuffer <- NoList,
  phase <- [c \in Channels |-> PhaseOf(c)],
  buffer <- [c \in Channels |-> BufferOf(c)]

\* Used within its limits, the driver's transfers are those of DmaChannel: a
\* channel is reported free only after the card has finished and the pages are
\* unpinned, and a buffer that moves belongs to one channel.
ImplementsDmaChannel == Engine!Spec
=============================================================================
