----------------------------- MODULE Plx9030Irq -----------------------------
(***************************************************************************)
(* The interrupt line that the cards share: the kernel calls SIPLX_isr for *)
(* every board, and gives the line up when nobody has answered a number of *)
(* times (isr.c, init.c).  Of the registers the model has the double word  *)
(* at each board's INTCSR and the one the driver takes for it, and of      *)
(* these the bits that the handler looks at or sets.                       *)
(***************************************************************************)
EXTENDS Integers

CONSTANTS
  Boards9030,
  Boards9054,
  NobodyCared   \* unanswered interrupts in a row after which a line is disabled

Boards == Boards9030 \cup Boards9054

\* where 90xxdef.h has the register, and where siabstract.h does
PLX9030_INTCSR == 76 \div 4
P9030_INTCSR == 76
PLX_INTCSR == 26

\* SIPLX_board_init: the byte offset the handler reads
dev_intcsr(b) == IF b \in Boards9030 THEN PLX9030_INTCSR ELSE PLX_INTCSR * 4

\* the byte offset of the register
Intcsr(b) == IF b \in Boards9030 THEN P9030_INTCSR ELSE PLX_INTCSR * 4

Requests(b) == IF b \in Boards9030 THEN {"LINT1", "LINT2"} ELSE {"DMA1I"}
Clear == [LINT1 |-> "LINT1_CLEAR", LINT2 |-> "LINT2_CLEAR"]

VARIABLES
  reg,        \* the bits of the words at dev_intcsr and Intcsr, by board
  pc,         \* "idle", "next" handler or "isr"
  left,       \* the boards whose handler this interrupt has yet to call
  board,      \* the board whose handler was called last
  intcsr_reg, \* what that handler has read
  seen,       \* the request of the board that call is for, until made anew (history)
  handled,    \* a handler of this interrupt returned IRQ_HANDLED
  unhandled,
  disabled

vars == <<reg, pc, left, board, intcsr_reg, seen, handled, unhandled, disabled>>

Asserted == \E b \in Boards : Requests(b) \cap reg[b][Intcsr(b)] # {}

\* The word that is not INTCSR is part of two address registers, set from the
\* card's EEPROM: its bits may be anything.
Init ==
  /\ \E words \in [Boards9030 -> SUBSET {"LINT1", "LINT2"}] :
       reg = [b \in Boards |-> [o \in {dev_intcsr(b), Intcsr(b)} |->
                IF o = Intcsr(b) THEN {} ELSE words[b]]]
  /\ pc = "idle"
  /\ left = {}
  /\ board \in Boards
  /\ intcsr_reg = {} /\ seen = {}
  /\ handled = FALSE /\ unhandled = 0 /\ disabled = FALSE

\* A card asks for an interrupt.
Raise(b, r) ==
  /\ r \notin reg[b][Intcsr(b)]
  /\ reg' = [reg EXCEPT ![b][Intcsr(b)] = @ \cup {r}]
  /\ seen' = IF b = board THEN seen \ {r} ELSE seen
  /\ UNCHANGED <<pc, left, board, intcsr_reg, handled, unhandled, disabled>>

Interrupt ==
  /\ pc = "idle" /\ Asserted /\ ~ disabled
  /\ pc' = "next"
  /\ left' = Boards
  /\ seen' = {} /\ handled' = FALSE
  /\ UNCHANGED <<reg, board, intcsr_reg, unhandled, disabled>>

-----------------------------------------------------------------------------
\* SIPLX_isr

First(requests) == IF "LINT1" \in requests THEN {"LINT1"} ELSE requests

ReadIntcsr(b) ==
  /\ pc = "next" /\ b \in left
  /\ pc' = "isr"
  /\ left' = left \ {b}
  /\ board' = b
  /\ intcsr_reg' = reg[b][dev_intcsr(b)]
  /\ seen' = First(Requests(b) \cap reg[b][Intcsr(b)])
  /\ UNCHANGED <<reg, handled, unhandled, disabled>>

Return(result) == pc' = "next" /\ handled' = (handled \/ result)

\* Writing its clear bit to INTCSR takes a request back; to another register it
\* is a bit like any other.
ClearLint(lint) ==
  /\ pc = "isr" /\ board \in Boards9030
  /\ First(Requests(board) \cap intcsr_reg) = {lint}
  /\ reg' = [reg EXCEPT ![board][dev_intcsr(board)] =
               IF dev_intcsr(board) = Intcsr(board) THEN @ \ {lint}
               ELSE intcsr_reg \cup {Clear[lint]}]
  /\ Return(TRUE)
  /\ UNCHANGED <<left, board, intcsr_reg, seen, unhandled, disabled>>

\* through the channel's DMACSR
ClearDma ==
  /\ pc = "isr" /\ board \in Boards9054
  /\ "DMA1I" \in intcsr_reg
  /\ reg' = [reg EXCEPT ![board][Intcsr(board)] = @ \ {"DMA1I"}]
  /\ Return(TRUE)
  /\ UNCHANGED <<left, board, intcsr_reg, seen, unhandled, disabled>>

NotMine ==
  /\ pc = "isr"
  /\ Requests(board) \cap intcsr_reg = {}
  /\ Return(FALSE)
  /\ UNCHANGED <<reg, left, board, intcsr_reg, seen, unhandled, disabled>>

-----------------------------------------------------------------------------
EndOfInterrupt ==
  /\ pc = "next" /\ left = {}
  /\ pc' = "idle"
  /\ unhandled' = IF handled THEN 0 ELSE unhandled + 1
  /\ disabled' = (unhandled' >= NobodyCared)
  /\ UNCHANGED <<reg, left, board, intcsr_reg, seen, handled>>

SIPLX_isr ==
  \/ \E b \in Boards : ReadIntcsr(b)
  \/ \E lint \in {"LINT1", "LINT2"} : ClearLint(lint)
  \/ ClearDma \/ NotMine

Next ==
  \/ \E b \in Boards : \E r \in Requests(b) : Raise(b, r)
  \/ Interrupt \/ SIPLX_isr \/ EndOfInterrupt

Spec == Init /\ [][Next]_vars

\* "clear the interrupt" (isr.c:182): the handler of a board that had a request
\* when it was called has cleared it when it returns.
LintCleared ==
  pc = "next" => seen \cap reg[board][Intcsr(board)] = {}
=============================================================================
