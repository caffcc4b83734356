---------------------------- MODULE MCBusMaster ----------------------------
(***************************************************************************)
(* Values for the constants of BusMaster.  Pages of two words and a table  *)
(* of two descriptors: a buffer of three words at offset 1 crosses a page  *)
(* boundary and fills the table, one of two words leaves room in it.       *)
(***************************************************************************)
EXTENDS BusMasterRefinement

CONSTANTS reader, writer, l1, l2

MCPageSize == 2
MCMaxPages == 2

Buffer(o, n) == [off |-> o, count |-> n]

\* buffers that fit the table, and buffers that do not
FillsTable == {Buffer(1, 3)}
Fitting == {Buffer(1, 2)}
Oversize == {Buffer(0, 6)}
Mixed == Fitting \cup Oversize

OneUserEach == [c \in Channels |-> IF c = "read" THEN {reader} ELSE {writer}]
OneProcess  == [c \in Channels |-> {reader}]
=============================================================================
