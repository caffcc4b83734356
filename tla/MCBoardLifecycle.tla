-------------------------- MODULE MCBoardLifecycle --------------------------
(***************************************************************************)
(* Values for the constants of BoardLifecycle: two slots, two regions a    *)
(* card, and more cards than slots, the third without an interrupt, which  *)
(* gets a slot when one before it could not be enabled.                    *)
(***************************************************************************)
EXTENDS BoardLifecycle

Card(irq, plx9054, regs) == [irq |-> irq, plx9054 |-> plx9054, regions |-> regs]

MCDevices ==
  <<Card(TRUE, TRUE, {0, 1}), Card(TRUE, FALSE, {1}), Card(FALSE, TRUE, {0})>>
=============================================================================
