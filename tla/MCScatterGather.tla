-------------------------- MODULE MCScatterGather --------------------------
(***************************************************************************)
(* Values for the constants of ScatterGather: pages of two words, a table  *)
(* of three descriptors, and buffers of up to three pages that start on a  *)
(* page boundary, on a word and inside one.                                *)
(***************************************************************************)
EXTENDS ScatterGather

MCPageSize == 8
MCMaxPages == 3
MCModulus  == 128

\* the lengths that fit the table, and empty buffers off a page boundary, which
\* Build_SGL sends back
Fits(o, w) == o + 4 * w \in 1 .. MCMaxPages * MCPageSize

MCRequests ==
  {r \in [buf : {"x"}, off : {0, 4, 6}, words : 0 .. 6, dsp : {0}, point : {FALSE}] :
     Fits(r.off, r.words)}
  \cup [buf : {"y"}, off : {4}, words : {1, 5}, dsp : {32}, point : BOOLEAN]

=============================================================================
