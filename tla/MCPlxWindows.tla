---------------------------- MODULE MCPlxWindows ----------------------------
(***************************************************************************)
(* Values for the constants of PlxWindows: a card whose space 0 holds the  *)
(* FIFO's register and one with a small space 0, neither with a space 2;   *)
(* calls of every function, into the windows, past their ends and refused. *)
(***************************************************************************)
EXTENDS PlxWindows, TLC

MCFifoSelect == 8388608

Layout(space0) == (PLX_OPREGS :> 256) @@ (2 :> space0) @@ (3 :> 8) @@ (4 :> 0)
MCLayouts == {Layout(2 * MCFifoSelect), Layout(16)}

C(fn, space, width, count, offset, write) ==
  [fn |-> fn, space |-> space, width |-> width, count |-> count, offset |-> offset,
   write |-> write]

Blocks ==
  {C("P9054_Block", 0, 4, 2, 0, FALSE), C("P9054_Block", 0, 2, 3, 4, TRUE),
   C("P9054_Block", 0, 1, 0, 0, TRUE), C("P9054_Block", 0, 4, 1, MCFifoSelect, TRUE),
   C("P9054_Block", 0, 4, 2, MCFifoSelect - 4, TRUE),
   C("P9030_Block", 1, 1, 3, 6, TRUE), C("P9030_Block", 0, 2, 2, 8, FALSE)}
Targets ==
  {C("SI_PLX_Target", 2, 4, 1, 0, FALSE), C("SI_PLX_Target", 3, 4, 1, 0, FALSE),
   C("SI_PLX_Target", 1, 4, 1, 9, TRUE), C("P9054_One", 0, 1, 1, 3, FALSE),
   C("P9030_One", 2, 2, 1, 2, TRUE), C("AddonInitParams", 0, 4, 5, 0, TRUE)}
Registers ==
  {C("OpReg", 0, 4, 2, 104, FALSE), C("ConfSpace", 0, 4, 4, 0, FALSE),
   C("Mailbox", 0, 4, 1, 8, FALSE), C("Mailbox", 0, 4, 2, 0, TRUE),
   C("Mailbox", 0, 4, 2, 1, FALSE), C("Mailbox", 0, 4, 2, 6, TRUE),
   C("Mailbox", 0, 4, 2, 7, TRUE)}

MCCalls == Blocks \cup Targets \cup Registers
=============================================================================
