------------------------------ MODULE MCNvRam ------------------------------
(***************************************************************************)
(* NvRam on an EEPROM of two or three words, with two polls a command.     *)
(***************************************************************************)
EXTENDS NvRam
=============================================================================
