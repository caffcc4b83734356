---------------------------- MODULE MCSiplxClient ----------------------------
(***************************************************************************)
(* Values for the constants of SiplxClient: pages of two words, a table of *)
(* two descriptors, buffers of two pages, and an empty one, which the      *)
(* library keeps from the driver.                                          *)
(***************************************************************************)
EXTENDS SiplxClient

CONSTANTS reader, writer, l1, l2

MCPageSize == 2
MCMaxPages == 2

MCRequests == {[off |-> 1, count |-> 2], [off |-> 0, count |-> 0]}

OneUserEach == [c \in Channels |-> IF c = "read" THEN {reader} ELSE {writer}]
OneProcess  == [c \in Channels |-> {reader}]
=============================================================================
