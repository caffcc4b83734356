--------------------------- MODULE ScatterGather ---------------------------
(***************************************************************************)
(* The descriptor chain of one transfer: SIPLX_Build_SGL pins the pages of *)
(* a user buffer and describes them to the PLX 9054, doBlockDMA loads the  *)
(* DMA registers from the first descriptor, the engine follows the chain,  *)
(* and SIPLX_Unmap_Pages lets the pages go (busmaster.c).                  *)
(*                                                                         *)
(* Addresses and sizes are in bytes, in C's unsigned arithmetic.  A page is *)
(* <<buf, k>>, page k of user buffer buf; a descriptor's next field is the  *)
(* index of the descriptor it points to, or EOC.                           *)
(***************************************************************************)
EXTENDS Integers

CONSTANTS
  PageSize,
  MaxPages,    \* descriptors in the table
  Modulus,     \* 2^32, where an unsigned long wraps
  Requests,    \* the transfers asked for: [buf, off, words, dsp, point]
  PinShort     \* whether get_user_pages may pin fewer pages than asked for

ASSUME ScatterGatherAssumption ==
  /\ PageSize \in Nat \ {0}
  /\ MaxPages \in Nat \ {0}
  /\ Modulus \in Nat
  /\ MaxPages < Modulus /\ PageSize < Modulus
  /\ \A r \in Requests :
       /\ r.off \in 0 .. PageSize - 1
       /\ r.words \in Nat
       /\ r.dsp \in 0 .. Modulus - 1
       /\ r.point \in BOOLEAN
  /\ PinShort \in BOOLEAN

VARIABLES
  pc,         \* where the transfer is
  req,        \* the transfer's arguments
  pages,      \* the array of page pointers
  pinned,     \* the pages get_user_pages holds for the transfer
  tscrpt,     \* the channel's descriptor table, kept from call to call
  i,          \* Build_SGL's index
  count,      \* Build_SGL's bytes left
  targetaddr, \* Build_SGL's card address
  dma,        \* the segment and the mode in the engine's registers
  moved       \* what the engine has moved: <<card address, page, offset>>

vars == <<pc, req, pages, pinned, tscrpt, i, count, targetaddr, dma, moved>>

Garbage == <<"garbage", 0>>
EOC == -1
ENOMEM == -12

Lesser(a, b) == IF a < b THEN a ELSE b

Bytes(r) == (4 * r.words) % Modulus
NrPages(r) == ((r.off + Bytes(r) + PageSize - 1) % Modulus) \div PageSize
IoSize(r) == Lesser(Bytes(r), MaxPages * PageSize - r.off)

\* The transfers studied here fit the table: what the driver makes of one that
\* does not is BusMaster's.
ASSUME RequestsFit == \A r \in Requests : NrPages(r) \in 1 .. MaxPages

Page(r, k) == <<r.buf, k>>
PagesOf(r) == {Page(r, k) : k \in 0 .. NrPages(r) - 1}

\* error < nr_pages, the int converted to unsigned long
Rejects(error, n) == error % Modulus < n

Table == 0 .. MaxPages - 1
Descriptor(p, o, l, s, n) == [page |-> p, off |-> o, local |-> l, size |-> s, next |-> n]
NoDescriptor == Descriptor(Garbage, 0, 0, 0, EOC)

Init ==
  /\ pc = "idle"
  /\ req \in Requests
  /\ pages = [k \in Table |-> Garbage]
  /\ pinned = {}
  /\ tscrpt = [k \in Table |-> NoDescriptor]
  /\ i = 0
  /\ count = 0
  /\ targetaddr = 0
  /\ dma = NoDescriptor
  /\ moved = {}

\* doBlockDMA, with a new array of page pointers, calls Build_SGL.
Call(r) ==
  /\ pc = "idle"
  /\ pc' = "pin"
  /\ req' = r
  /\ count' = Bytes(r)
  /\ targetaddr' = r.dsp
  /\ pages' = [k \in Table |-> Garbage]
  /\ moved' = {}
  /\ UNCHANGED <<pinned, tscrpt, i, dma>>

TooManyPages(r) == NrPages(r) > MaxPages

\* The returns before get_user_pages, as the caller takes them.
ReturnEarly ==
  /\ pc = "pin"
  /\ TooManyPages(req) \/ count = 0
  /\ pc' = IF Rejects(IF TooManyPages(req) THEN ENOMEM ELSE 0, NrPages(req))
           THEN "idle" ELSE "program"
  /\ UNCHANGED <<req, pages, pinned, tscrpt, i, count, targetaddr, dma, moved>>

\* get_user_pages: the number of pages it pinned.  Buffers are mapped: -EFAULT
\* is taken for success, like the -ENOMEM of a buffer larger than the table,
\* and both are BusMaster's.
PinResults(n) == {n} \cup (IF PinShort THEN 0 .. n - 1 ELSE {})

GetUserPages ==
  /\ pc = "pin"
  /\ ~ TooManyPages(req) /\ count # 0
  /\ \E error \in PinResults(NrPages(req)) :
       /\ pinned' = {Page(req, k) : k \in 0 .. error - 1}
       /\ pages' = [k \in Table |-> IF k < error THEN Page(req, k) ELSE Garbage]
       /\ pc' = IF Rejects(error, NrPages(req)) THEN "release" ELSE "first"
       /\ i' = error
  /\ UNCHANGED <<req, tscrpt, count, targetaddr, dma, moved>>

MutantRelease ==
  /\ pc = "release"
  /\ pc' = "idle"
  /\ pinned' = pinned \ {pages[k] : k \in 0 .. i - 2}
  /\ UNCHANGED <<req, pages, tscrpt, i, count, targetaddr, dma, moved>>

\* Fewer pages than asked for: the loop over page_cache_release, and return.
Release ==
  /\ pc = "release"
  /\ pc' = "idle"
  /\ pinned' = pinned \ {pages[k] : k \in 0 .. i - 1}
  /\ UNCHANGED <<req, pages, tscrpt, i, count, targetaddr, dma, moved>>

First ==
  LET n    == NrPages(req)
      size == IF n > 1 THEN PageSize - req.off ELSE count
  IN /\ pc = "first"
     /\ tscrpt' = [tscrpt EXCEPT ![0] =
          Descriptor(pages[0], req.off, targetaddr, size, IF n > 1 THEN 1 ELSE EOC)]
     /\ IF n > 1
        THEN /\ pc' = "loop"
             /\ count' = (count - size) % Modulus
             /\ targetaddr' = (targetaddr + size) % Modulus
        ELSE /\ pc' = "program"
             /\ UNCHANGED <<count, targetaddr>>
     /\ i' = 1
     /\ UNCHANGED <<req, pages, pinned, dma, moved>>

MutantFill ==
  /\ pc = "loop"
  /\ i < NrPages(req)
  /\ tscrpt' = [tscrpt EXCEPT ![i] =
       Descriptor(pages[i], 0, targetaddr, PageSize, i + 1)]
  /\ count' = (count - PageSize) % Modulus
  /\ targetaddr' = (targetaddr + PageSize) % Modulus
  /\ i' = i + 1
  /\ UNCHANGED <<pc, req, pages, pinned, dma, moved>>

\* One iteration of the loop over the pages after the first.
Fill ==
  LET size == Lesser(count, PageSize)
  IN /\ pc = "loop"
     /\ i < NrPages(req)
     /\ tscrpt' = [tscrpt EXCEPT ![i] =
          Descriptor(pages[i], 0, targetaddr, size, i + 1)]
     /\ count' = (count - size) % Modulus
     /\ targetaddr' = (targetaddr + size) % Modulus
     /\ i' = i + 1
     /\ UNCHANGED <<pc, req, pages, pinned, dma, moved>>

MutantClose ==
  /\ pc = "loop"
  /\ i >= NrPages(req)
  /\ pc' = "program"
  /\ tscrpt' = [tscrpt EXCEPT ![i - 1].next = 0]
  /\ UNCHANGED <<req, pages, pinned, i, count, targetaddr, dma, moved>>

MutantLast ==
  /\ pc = "loop"
  /\ i >= NrPages(req) - 1
  /\ pc' = "program"
  /\ tscrpt' = [tscrpt EXCEPT ![i - 1].next = EOC]
  /\ UNCHANGED <<req, pages, pinned, i, count, targetaddr, dma, moved>>

Close ==
  /\ pc = "loop"
  /\ i >= NrPages(req)
  /\ pc' = "program"
  /\ tscrpt' = [tscrpt EXCEPT ![i - 1].next = EOC]
  /\ UNCHANGED <<req, pages, pinned, i, count, targetaddr, dma, moved>>

\* The registers take the first descriptor, and where the chain goes on; in a
\* point transfer every descriptor is then given the same card address.
Program ==
  /\ pc = "program"
  /\ pc' = "start"
  /\ dma' = [tscrpt[0] EXCEPT !.next =
               IF IoSize(req) > PageSize - req.off THEN 0 ELSE tscrpt[0].next]
  /\ tscrpt' = IF req.point
               THEN [k \in Table |-> IF k < NrPages(req)
                                     THEN [tscrpt[k] EXCEPT !.local = req.dsp]
                                     ELSE tscrpt[k]]
               ELSE tscrpt
  /\ UNCHANGED <<req, pages, pinned, i, count, targetaddr, moved>>

\* The engine, chaining (PLX_SCATTER): it loads a descriptor from DMADPR unless
\* that says EOC, moves a segment, and ends or loads the next one.
Load ==
  /\ pc = "start"
  /\ pc' = "move"
  /\ dma' = IF dma.next = EOC THEN dma ELSE tscrpt[dma.next]
  /\ UNCHANGED <<req, pages, pinned, tscrpt, i, count, targetaddr, moved>>

Segment(d, point) ==
  {<<IF point THEN d.local ELSE (d.local + b) % Modulus, d.page, d.off + b>> :
     b \in 0 .. d.size - 1}

Move ==
  /\ pc = "move"
  /\ moved' = moved \cup Segment(dma, req.point)
  /\ IF dma.next = EOC
     THEN pc' = "unmap" /\ UNCHANGED dma
     ELSE dma' = tscrpt[dma.next] /\ UNCHANGED pc
  /\ UNCHANGED <<req, pages, pinned, tscrpt, i, count, targetaddr>>

SIPLX_Unmap_Pages ==
  /\ pc = "unmap"
  /\ pc' = "idle"
  /\ pinned' = pinned \ {pages[k] : k \in 0 .. NrPages(req) - 1}
  /\ UNCHANGED <<req, pages, tscrpt, i, count, targetaddr, dma, moved>>

SIPLX_Build_SGL == ReturnEarly \/ GetUserPages \/ Release \/ First \/ Fill \/ Close

Next ==
  \/ \E r \in Requests : Call(r)
  \/ SIPLX_Build_SGL
  \/ Program
  \/ Load
  \/ Move
  \/ SIPLX_Unmap_Pages

Spec == Init /\ [][Next]_vars

\* The driver's own steps run on, and the engine follows its chain.
FairSpec == Spec /\ WF_vars(SIPLX_Build_SGL \/ Program \/ Load \/ Move \/ SIPLX_Unmap_Pages)

-----------------------------------------------------------------------------
\* Properties

Cells == {Garbage} \cup {Page(r, k) : r \in Requests, k \in Table}
Descriptors == [page : Cells, off : 0 .. PageSize - 1, local : 0 .. Modulus - 1,
                size : 0 .. Modulus - 1, next : Table \cup {MaxPages, EOC}]

\* The values the variables take; a descriptor never points below the table or
\* beyond the one that would follow its end.
TypeOK ==
  /\ pc \in {"idle", "pin", "release", "first", "loop", "program", "start",
             "move", "unmap"}
  /\ req \in Requests
  /\ pages \in [Table -> Cells]
  /\ pinned \subseteq Cells
  /\ tscrpt \in [Table -> Descriptors]
  /\ i \in Int
  /\ count \in 0 .. Modulus - 1
  /\ targetaddr \in 0 .. Modulus - 1
  /\ dma \in Descriptors

\* The buffer's bytes, each with the card address it belongs to.
Wanted(r) ==
  {<<IF r.point THEN r.dsp ELSE r.dsp + b,
     Page(r, (r.off + b) \div PageSize), (r.off + b) % PageSize>> :
     b \in 0 .. Bytes(r) - 1}

\* The card moves no byte outside the buffer it was asked for, and none to a
\* wrong address; when it is done it has moved the whole buffer.
MovesTheBuffer ==
  /\ pc \in {"move", "unmap"} => moved \subseteq Wanted(req)
  /\ pc = "unmap" => moved = Wanted(req)

\* Every page the card works on is pinned, and every page that was pinned is
\* released, after a transfer and after get_user_pages has failed half way.
PinsBalance ==
  /\ pc = "move" => dma.page \in pinned
  /\ pc = "idle" => pinned = {}

\* The chain has an end: every call comes back to idle.
ChainEnds == (pc # "idle") ~> (pc = "idle")
-----------------------------------------------------------------------------
\* The invariant behind PinsBalance

\* A segment of the chain, k of n.
Linked(k, n) ==
  /\ tscrpt[k].page = Page(req, k)
  /\ tscrpt[k].next \in {EOC} \cup 1 .. n - 1

Pinning == {"first", "loop", "program", "start", "move", "unmap"}

\* Where the pins are, in every state: none between transfers, what
\* get_user_pages gave before a release, and from then on the whole buffer's.
PinsOK ==
  /\ pc \in {"idle", "pin"} => pinned = {}
  /\ pc = "release" => i \in 0 .. NrPages(req) - 1
  /\ pc = "release" => pinned = {Page(req, k) : k \in 0 .. i - 1}
  /\ pc = "release" => \A k \in 0 .. i - 1 : pages[k] = Page(req, k)
  /\ pc \in Pinning => pinned = PagesOf(req)
  /\ pc \in Pinning => \A k \in 0 .. NrPages(req) - 1 : pages[k] = Page(req, k)

\* What the chain leads to: while it is filled its links may run one past the
\* segment being filled, and closed it stays inside the buffer.
ChainOK ==
  /\ pc = "loop" => i \in 1 .. NrPages(req)
  /\ pc = "loop" => \A k \in 0 .. i - 1 : tscrpt[k].page = Page(req, k)
  /\ pc = "loop" => \A k \in 0 .. i - 1 : tscrpt[k].next = k + 1
  /\ pc \in {"program", "start", "move"} =>
       \A k \in 0 .. NrPages(req) - 1 : Linked(k, NrPages(req))
  /\ pc = "start" => dma.page = Page(req, 0)
  /\ pc \in {"start", "move"} => dma.next \in {EOC} \cup 0 .. NrPages(req) - 1
  /\ pc = "move" => dma.page \in PagesOf(req)

\* The invariant ScatterGather_proofs shows inductive: the pins follow the call, and
\* the chain, while it is built and while the card follows it, stays in the buffer.
SGInv == TypeOK /\ PinsOK /\ ChainOK
=============================================================================
