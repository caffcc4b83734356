------------------------ MODULE ScatterGather_proofs ------------------------
(***************************************************************************)
(* Proofs about ScatterGather: the values its variables take, that the     *)
(* pages of a transfer stay pinned while the card follows the chain and    *)
(* are all released, and that the chain moves the buffer asked for.        *)
(***************************************************************************)
EXTENDS ScatterGather, TLAPS

\* What the unsigned arithmetic of Build_SGL leaves is below the modulus.
LEMMA Wraps ==
  ASSUME NEW a \in Int
  PROVE  a % Modulus \in 0 .. Modulus - 1
  BY ScatterGatherAssumption

\* A count the arithmetic does not wrap is itself.
LEMMA NoWrap ==
  ASSUME NEW a \in Nat, a < Modulus
  PROVE  a % Modulus = a
  BY ScatterGatherAssumption

\* A buffer's descriptors and its page pointers are within the tables.
LEMMA Sizes ==
  ASSUME NEW r \in Requests
  PROVE  /\ NrPages(r) \in 1 .. MaxPages
         /\ Bytes(r) \in 0 .. Modulus - 1
         /\ r.dsp \in 0 .. Modulus - 1
         /\ r.off \in 0 .. PageSize - 1
<1>1. 4 * r.words \in Int
  BY ScatterGatherAssumption
<1> QED
  BY <1>1, RequestsFit, Wraps, ScatterGatherAssumption DEF Bytes

\* A page of the buffer is a value of the page array.
LEMMA PageIsCell ==
  ASSUME NEW r \in Requests, NEW k \in 0 .. NrPages(r) - 1
  PROVE  Page(r, k) \in Cells
<1>1. k \in Table
  BY Sizes, ScatterGatherAssumption DEF Table
<1> QED
  BY <1>1 DEF Cells

\* A descriptor is made of a page, its offset, a card address, a size and a link.
LEMMA DescriptorType ==
  ASSUME NEW p \in Cells, NEW o \in 0 .. PageSize - 1, NEW l \in 0 .. Modulus - 1,
         NEW s \in 0 .. Modulus - 1, NEW n \in Table \cup {MaxPages, EOC}
  PROVE  Descriptor(p, o, l, s, n) \in Descriptors
  BY DEF Descriptor, Descriptors

\* get_user_pages is taken to have failed exactly when it pinned too little.
LEMMA RejectsShort ==
  ASSUME NEW n \in 1 .. MaxPages, NEW error \in PinResults(n)
  PROVE  /\ error \in 0 .. n
         /\ Rejects(error, n) <=> error # n
<1>1. error \in 0 .. n
  BY ScatterGatherAssumption DEF PinResults
<1>2. error % Modulus = error
  BY <1>1, NoWrap, ScatterGatherAssumption
<1> QED
  BY <1>1, <1>2, ScatterGatherAssumption DEF Rejects

-----------------------------------------------------------------------------
\* Type correctness and the pins

LEMMA SGInit == Init => SGInv
<1> SUFFICES ASSUME Init PROVE SGInv
  OBVIOUS
<1>1. NoDescriptor \in Descriptors
  <2>1. Garbage \in Cells
    BY DEF Cells
  <2>2. 0 \in 0 .. PageSize - 1 /\ 0 \in 0 .. Modulus - 1
    BY ScatterGatherAssumption
  <2> QED
    BY <2>1, <2>2, DescriptorType DEF NoDescriptor
<1>2. Garbage \in Cells
  BY DEF Cells
<1>3. TypeOK
  BY <1>1, <1>2, ScatterGatherAssumption DEF Init, TypeOK
<1>4. PinsOK /\ ChainOK
  BY DEF Init, PinsOK, ChainOK, Pinning
<1> QED
  BY <1>3, <1>4 DEF SGInv

LEMMA SGStep == SGInv /\ [Next]_vars => SGInv'
<1> SUFFICES ASSUME SGInv, [Next]_vars PROVE SGInv'
  OBVIOUS
<1> USE ScatterGatherAssumption DEF SGInv
<1> DEFINE n == NrPages(req)
<1>0. /\ n \in 1 .. MaxPages
      /\ Bytes(req) \in 0 .. Modulus - 1
      /\ req.dsp \in 0 .. Modulus - 1
      /\ req.off \in 0 .. PageSize - 1
  BY Sizes DEF TypeOK
<1>00. Garbage \in Cells
  BY DEF Cells
<1> HIDE DEF n
<1>1. ASSUME NEW r \in Requests, Call(r) PROVE SGInv'
  <2>1. TypeOK'
    BY <1>1, <1>00, Sizes DEF TypeOK, Call
  <2>2. PinsOK' /\ ChainOK'
    BY <1>1 DEF PinsOK, ChainOK, Pinning, Call
  <2> QED
    BY <2>1, <2>2
<1>2. CASE ReturnEarly
  <2>1. ~ TooManyPages(req)
    BY <1>0 DEF TooManyPages, n
  <2>2. Rejects(0, NrPages(req))
    BY <1>0, NoWrap DEF Rejects, n
  <2>3. pc' = "idle"
    BY <1>2, <2>1, <2>2 DEF ReturnEarly
  <2>4. TypeOK'
    BY <1>2, <2>3 DEF TypeOK, ReturnEarly
  <2>5. PinsOK' /\ ChainOK'
    BY <1>2, <2>3 DEF PinsOK, ChainOK, Pinning, ReturnEarly
  <2> QED
    BY <2>4, <2>5
<1>3. CASE GetUserPages
  <2>1. PICK error \in PinResults(n) :
          /\ pinned' = {Page(req, k) : k \in 0 .. error - 1}
          /\ pages' = [k \in Table |-> IF k < error THEN Page(req, k) ELSE Garbage]
          /\ pc' = IF Rejects(error, n) THEN "release" ELSE "first"
          /\ i' = error
    BY <1>3 DEF GetUserPages, n
  <2>2. UNCHANGED <<req, tscrpt, count, targetaddr, dma, moved>>
    BY <1>3 DEF GetUserPages
  <2>3. error \in 0 .. n /\ (Rejects(error, n) <=> error # n)
    BY <1>0, RejectsShort
  <2>4. \A k \in 0 .. error - 1 : Page(req, k) \in Cells /\ k \in Table
    BY <1>0, <2>3, PageIsCell DEF TypeOK, n, Table
  <2>5. pages' \in [Table -> Cells]
    BY <1>00, <2>1, <2>3, <2>4 DEF Table
  <2>6. TypeOK'
    BY <2>1, <2>2, <2>3, <2>4, <2>5 DEF TypeOK
  <2>7. \A k \in 0 .. error - 1 : pages'[k] = Page(req, k)
    BY <2>1, <2>3, <2>4
  <2>8. PinsOK'
    BY <1>0, <2>1, <2>2, <2>3, <2>7 DEF PinsOK, Pinning, PagesOf, n
  <2>9. ChainOK'
    BY <2>1, <2>2 DEF ChainOK
  <2> QED
    BY <2>6, <2>8, <2>9
<1>4. CASE Release
  <2>1. pinned' = {}
    <3>1. \A k \in 0 .. i - 1 : pages[k] = Page(req, k)
      BY <1>4 DEF PinsOK, Release
    <3>2. pinned = {pages[k] : k \in 0 .. i - 1}
      BY <1>4, <3>1 DEF PinsOK, Release
    <3> QED
      BY <1>4, <3>2 DEF Release
  <2>2. TypeOK'
    BY <1>4, <2>1 DEF TypeOK, Release
  <2>3. PinsOK' /\ ChainOK'
    BY <1>4, <2>1 DEF PinsOK, ChainOK, Pinning, Release
  <2> QED
    BY <2>2, <2>3
<1>5. CASE First
  <2> DEFINE size == IF n > 1 THEN PageSize - req.off ELSE count
             next == IF n > 1 THEN 1 ELSE EOC
  <2>1. /\ pc = "first"
        /\ tscrpt' = [tscrpt EXCEPT ![0] =
             Descriptor(pages[0], req.off, targetaddr, size, next)]
        /\ pc' = IF n > 1 THEN "loop" ELSE "program"
        /\ count' = IF n > 1 THEN (count - size) % Modulus ELSE count
        /\ targetaddr' = IF n > 1 THEN (targetaddr + size) % Modulus ELSE targetaddr
        /\ i' = 1
        /\ UNCHANGED <<req, pages, pinned, dma, moved>>
    BY <1>5 DEF First, n
  <2>2. pages[0] = Page(req, 0) /\ pages[0] \in Cells
    BY <1>0, <2>1, PageIsCell DEF PinsOK, Pinning, TypeOK, n
  <2>3. size \in 0 .. Modulus - 1
    BY <1>0 DEF TypeOK
  <2>4. next \in Table \cup {MaxPages, EOC}
    BY <1>0 DEF Table
  <2>5. count' \in 0 .. Modulus - 1 /\ targetaddr' \in 0 .. Modulus - 1
    <3>1. count \in Int /\ targetaddr \in Int /\ size \in Int
      BY <2>3 DEF TypeOK
    <3>2. count - size \in Int /\ targetaddr + size \in Int
      BY <3>1
    <3> HIDE DEF size
    <3> QED
      BY <2>1, <3>2, Wraps DEF TypeOK
  <2> HIDE DEF size, next
  <2>6. Descriptor(pages[0], req.off, targetaddr, size, next) \in Descriptors
    BY <1>0, <2>2, <2>3, <2>4, DescriptorType DEF TypeOK
  <2>7. TypeOK'
    <3>1. tscrpt' \in [Table -> Descriptors]
      BY <2>1, <2>6 DEF TypeOK
    <3>2. pc' \in {"loop", "program"} /\ i' \in Int
      BY <2>1
    <3> QED
      BY <2>1, <2>5, <3>1, <3>2 DEF TypeOK
  <2>8. PinsOK'
    BY <2>1 DEF PinsOK, Pinning
  <2>9. 0 \in DOMAIN tscrpt
    BY DEF TypeOK, Table
  <2>10. tscrpt'[0].page = Page(req, 0) /\ tscrpt'[0].next = next
    BY <2>1, <2>2, <2>9 DEF Descriptor
  <2>11. ChainOK'
    BY <1>0, <2>1, <2>10 DEF ChainOK, Linked, n, next
  <2> QED
    BY <2>7, <2>8, <2>11
<1>6. CASE Fill
  <2> DEFINE size == Lesser(count, PageSize)
             d    == Descriptor(pages[i], 0, targetaddr, size, i + 1)
  <2>1. /\ pc = "loop" /\ i < n
        /\ tscrpt' = [tscrpt EXCEPT ![i] = d]
        /\ count' = (count - size) % Modulus
        /\ targetaddr' = (targetaddr + size) % Modulus
        /\ i' = i + 1
        /\ UNCHANGED <<pc, req, pages, pinned, dma, moved>>
    BY <1>6 DEF Fill, n
  <2>2. i \in 1 .. n - 1 /\ i \in Table /\ i + 1 \in Table \cup {MaxPages, EOC}
    BY <1>0, <2>1 DEF ChainOK, Table, n
  <2>3. pages[i] = Page(req, i) /\ pages[i] \in Cells
    BY <1>0, <2>1, <2>2, PageIsCell DEF PinsOK, Pinning, TypeOK, n
  <2>4. size \in 0 .. Modulus - 1
    BY DEF TypeOK, Lesser
  <2>5. count' \in 0 .. Modulus - 1 /\ targetaddr' \in 0 .. Modulus - 1
    <3>1. count \in Int /\ targetaddr \in Int /\ size \in Int
      BY <2>4 DEF TypeOK
    <3>2. count - size \in Int /\ targetaddr + size \in Int
      BY <3>1
    <3> HIDE DEF size
    <3> QED
      BY <2>1, <3>2, Wraps
  <2> HIDE DEF size
  <2>6. d \in Descriptors
    BY <1>0, <2>2, <2>3, <2>4, DescriptorType DEF TypeOK
  <2>7. d.page = Page(req, i) /\ d.next = i + 1
    BY <2>3 DEF Descriptor
  <2> HIDE DEF d
  <2>8. TypeOK'
    BY <2>1, <2>2, <2>5, <2>6 DEF TypeOK
  <2>9. PinsOK'
    BY <2>1 DEF PinsOK, Pinning
  <2>10. \A k \in 0 .. i : tscrpt'[k] = IF k = i THEN d ELSE tscrpt[k]
    BY <1>0, <2>1, <2>2 DEF TypeOK, Table
  <2>11. ChainOK'
    BY <1>0, <2>1, <2>2, <2>7, <2>10 DEF ChainOK, n
  <2> QED
    BY <2>8, <2>9, <2>11
<1>7. CASE Close
  <2>1. i = n /\ i - 1 \in Table /\ n \in Int
    BY <1>0, <1>7 DEF Close, ChainOK, Table, n
  <2>2. \A k \in Table : tscrpt[k] \in Descriptors
    BY DEF TypeOK
  <2>3. tscrpt' = [tscrpt EXCEPT ![n - 1] = [tscrpt[n - 1] EXCEPT !.next = EOC]]
    BY <1>7, <2>1 DEF Close
  <2>4. [tscrpt[n - 1] EXCEPT !.next = EOC] \in Descriptors
    BY <2>1, <2>2 DEF Descriptors
  <2>5. TypeOK'
    BY <1>7, <2>1, <2>3, <2>4 DEF TypeOK, Close
  <2>6. PinsOK'
    BY <1>7 DEF PinsOK, Pinning, Close
  <2>7. /\ \A k \in 0 .. n - 1 : tscrpt'[k].page = tscrpt[k].page
        /\ \A k \in 0 .. n - 2 : tscrpt'[k].next = tscrpt[k].next
        /\ tscrpt'[n - 1].next = EOC
    <3>1. \A k \in Table : k # n - 1 => tscrpt'[k] = tscrpt[k]
      BY <2>3 DEF TypeOK
    <3>2. tscrpt'[n - 1] = [tscrpt[n - 1] EXCEPT !.next = EOC]
      BY <2>1, <2>3 DEF TypeOK
    <3>3. tscrpt'[n - 1].page = tscrpt[n - 1].page /\ tscrpt'[n - 1].next = EOC
      BY <2>1, <2>2, <3>2 DEF Descriptors
    <3>4. \A k \in 0 .. n - 1 : k \in Table
      BY <1>0 DEF Table
    <3>5. \A k \in 0 .. n - 2 : k \in 0 .. n - 1 /\ k # n - 1
      BY <2>1
    <3> QED
      BY <3>1, <3>3, <3>4, <3>5
  <2>8. ASSUME NEW k \in 0 .. n - 1
        PROVE  Linked(k, n)'
    <3>1. UNCHANGED <<req, i>> /\ pc = "loop" /\ n' = n
      BY <1>7 DEF Close, n
    <3>2. tscrpt'[k].page = Page(req, k)
      BY <2>1, <2>7, <3>1 DEF ChainOK
    <3>3. k # n - 1 => k \in 0 .. n - 2 /\ k + 1 \in 1 .. n - 1
      BY <2>1
    <3>4. tscrpt'[k].next \in {EOC} \cup 1 .. n - 1
      BY <2>1, <2>7, <3>1, <3>3 DEF ChainOK
    <3> QED
      BY <3>1, <3>2, <3>4 DEF Linked, Page
  <2>9. ChainOK'
    BY <1>7, <2>8 DEF ChainOK, Close, n
  <2> QED
    BY <2>5, <2>6, <2>9
<1>8. CASE Program
  <2>1. \A k \in Table : tscrpt[k] \in Descriptors
    BY DEF TypeOK
  <2>2. 0 \in Table /\ n - 1 \in Table
    BY <1>0 DEF Table
  <2>3. dma' \in Descriptors
    BY <1>8, <2>1, <2>2 DEF Program, Descriptors
  <2>4. /\ dma'.page = Page(req, 0)
        /\ dma'.next \in {EOC} \cup 0 .. n - 1
    BY <1>0, <1>8, <2>1, <2>2 DEF Program, Descriptors, ChainOK, Linked, n
  <2>5. /\ tscrpt' \in [Table -> Descriptors]
        /\ \A k \in Table : /\ tscrpt'[k].page = tscrpt[k].page
                            /\ tscrpt'[k].next = tscrpt[k].next
    <3>1. CASE req.point
      <4>1. \A k \in Table : [tscrpt[k] EXCEPT !.local = req.dsp] \in Descriptors
        BY <1>0, <2>1 DEF Descriptors
      <4>2. tscrpt' = [k \in Table |-> IF k < n THEN [tscrpt[k] EXCEPT !.local = req.dsp]
                                      ELSE tscrpt[k]]
        BY <1>8, <3>1 DEF Program, n
      <4> QED
        BY <2>1, <4>1, <4>2 DEF Descriptors
    <3>2. CASE ~ req.point
      BY <1>8, <3>2 DEF Program, TypeOK
    <3> QED
      BY <3>1, <3>2
  <2>6. TypeOK'
    BY <1>8, <2>3, <2>5 DEF TypeOK, Program
  <2>7. PinsOK'
    BY <1>8 DEF PinsOK, Pinning, Program
  <2>8. \A k \in 0 .. n - 1 : Linked(k, n)'
    BY <1>0, <1>8, <2>5 DEF ChainOK, Linked, Program, Table, n
  <2>9. ChainOK'
    BY <1>8, <2>4, <2>8 DEF ChainOK, Program, n
  <2> QED
    BY <2>6, <2>7, <2>9
<1>9. ASSUME NEW k \in 0 .. n - 1, pc \in {"start", "move"}
      PROVE  /\ tscrpt[k] \in Descriptors
             /\ tscrpt[k].page \in PagesOf(req)
             /\ tscrpt[k].next \in {EOC} \cup 0 .. n - 1
  <2>1. k \in Table
    BY <1>0, <1>9 DEF Table
  <2>2. Linked(k, n)
    BY <1>9 DEF ChainOK, n
  <2> QED
    BY <1>0, <1>9, <2>1, <2>2 DEF TypeOK, Linked, PagesOf, n
<1>10. CASE Load
  <2>1. /\ dma' \in Descriptors
        /\ dma'.page \in PagesOf(req)
        /\ dma'.next \in {EOC} \cup 0 .. n - 1
    <3>1. dma.page \in PagesOf(req)
      BY <1>0, <1>10 DEF Load, ChainOK, PagesOf, n
    <3> QED
      BY <1>9, <1>10, <3>1 DEF Load, ChainOK, TypeOK, n
  <2>2. TypeOK'
    BY <1>10, <2>1 DEF TypeOK, Load
  <2>3. PinsOK'
    BY <1>10 DEF PinsOK, Pinning, Load
  <2>4. ChainOK'
    BY <1>10, <2>1 DEF ChainOK, Linked, PagesOf, Load, n
  <2> QED
    BY <2>2, <2>3, <2>4
<1>11. CASE Move
  <2>1. CASE dma.next = EOC
    BY <1>11, <2>1 DEF Move, TypeOK, PinsOK, ChainOK, Pinning
  <2>2. CASE dma.next # EOC
    <3>1. /\ dma' \in Descriptors
          /\ dma'.page \in PagesOf(req)
          /\ dma'.next \in {EOC} \cup 0 .. n - 1
      BY <1>9, <1>11, <2>2 DEF Move, ChainOK, n
    <3>2. TypeOK'
      BY <1>11, <2>2, <3>1 DEF TypeOK, Move
    <3>3. PinsOK'
      BY <1>11, <2>2 DEF PinsOK, Pinning, Move
    <3>4. ChainOK'
      BY <1>11, <2>2, <3>1 DEF ChainOK, Linked, PagesOf, Move, n
    <3> QED
      BY <3>2, <3>3, <3>4
  <2> QED
    BY <2>1, <2>2
<1>12. CASE SIPLX_Unmap_Pages
  <2>1. pinned' = {}
    <3>1. \A k \in 0 .. n - 1 : pages[k] = Page(req, k)
      BY <1>12 DEF PinsOK, Pinning, SIPLX_Unmap_Pages, n
    <3>2. pinned = {pages[k] : k \in 0 .. n - 1}
      BY <1>12, <3>1 DEF PinsOK, Pinning, PagesOf, SIPLX_Unmap_Pages, n
    <3> QED
      BY <1>12, <3>2 DEF SIPLX_Unmap_Pages, n
  <2>2. TypeOK'
    BY <1>12, <2>1 DEF TypeOK, SIPLX_Unmap_Pages
  <2>3. PinsOK' /\ ChainOK'
    BY <1>12, <2>1 DEF PinsOK, ChainOK, Pinning, SIPLX_Unmap_Pages
  <2> QED
    BY <2>2, <2>3
<1>13. CASE UNCHANGED vars
  BY <1>13 DEF vars, TypeOK, PinsOK, ChainOK, Linked, Pinning
<1> QED
  BY <1>1, <1>2, <1>3, <1>4, <1>5, <1>6, <1>7, <1>8, <1>10, <1>11, <1>12, <1>13
     DEF Next, SIPLX_Build_SGL

\* SGInv holds in every state of every transfer that fits the table.
THEOREM SGInvariant == Spec => []SGInv
<1>1. Init => SGInv
  BY SGInit
<1>2. SGInv /\ [Next]_vars => SGInv'
  BY SGStep
<1> QED
  BY <1>1, <1>2, PTL DEF Spec

\* The variables of Build_SGL and of the engine keep their types, for pages, tables
\* and words of any size: the chain never leads out of the descriptor table.
THEOREM SGTypeCorrect == Spec => []TypeOK
<1>1. SGInv => TypeOK
  BY DEF SGInv
<1> QED
  BY <1>1, SGInvariant, PTL

\* The card only works on pinned pages, and no page stays pinned after a transfer
\* or after get_user_pages pinned too little.
THEOREM PinsAreBalanced == Spec => []PinsBalance
<1>1. SGInv => PinsBalance
  BY DEF SGInv, PinsOK, ChainOK, Pinning, PinsBalance
<1> QED
  BY <1>1, SGInvariant, PTL

-----------------------------------------------------------------------------
\* What the engine moves

\* Neither the number of pages nor the card addresses of a transfer wrap: buffers
\* end below 2^32, which Build_SGL takes for granted and does not test.
NoWrapAround ==
  \A r \in Requests : /\ r.off + Bytes(r) + PageSize - 1 < Modulus
                      /\ ~ r.point => r.dsp + Bytes(r) <= Modulus

\* Where segment k of a transfer starts, as an offset into the transfer and into
\* its page
Upto(r, k) ==
  IF k = 0 THEN 0 ELSE IF k < NrPages(r) THEN PageSize * k - r.off ELSE Bytes(r)
Off(r, k) == IF k = 0 THEN r.off ELSE 0

\* The b-th byte of a transfer: its card address, page and offset
Byte(r, b) ==
  <<IF r.point THEN r.dsp ELSE r.dsp + b, Page(r, (r.off + b) \div PageSize),
    (r.off + b) % PageSize>>

\* A descriptor of segment k, and the link that goes on from it
Describes(d, k) ==
  /\ d.page = Page(req, k) /\ d.off = Off(req, k)
  /\ d.size = Upto(req, k + 1) - Upto(req, k)
  /\ k = 0 \/ ~ req.point => d.local = req.dsp + Upto(req, k)

Link(k) == IF k + 1 = NrPages(req) THEN EOC ELSE k + 1

\* The table describes the segments filled so far, and the engine has moved those
\* before the one in its registers.
MovesOK ==
  /\ pc \in {"pin", "first"} => count = Bytes(req) /\ targetaddr = req.dsp
  /\ pc \in {"pin", "release", "first", "loop", "program", "start"} => moved = {}
  /\ pc \in Pinning => Bytes(req) # 0
  /\ pc = "loop" => /\ NrPages(req) > 1
                    /\ count = Bytes(req) - Upto(req, i)
                    /\ i < NrPages(req) /\ ~ req.point => targetaddr = req.dsp + Upto(req, i)
                    /\ \A k \in 0 .. i - 1 : Describes(tscrpt[k], k)
                    /\ \A k \in 0 .. i - 1 : tscrpt[k].next = k + 1
  /\ pc \in {"program", "start", "move"} =>
       \A k \in 0 .. NrPages(req) - 1 : Describes(tscrpt[k], k) /\ tscrpt[k].next = Link(k)
  /\ pc \in {"start", "move"} /\ req.point =>
       \A k \in 0 .. NrPages(req) - 1 : tscrpt[k].local = req.dsp
  /\ pc = "start" => IF NrPages(req) > 1 THEN dma.next = 0
                     ELSE Describes(dma, 0) /\ dma.next = EOC
  /\ pc = "move" => \E k \in 0 .. NrPages(req) - 1 :
                      /\ Describes(dma, k) /\ dma.next = Link(k)
                      /\ req.point => dma.local = req.dsp
                      /\ moved = {Byte(req, b) : b \in 0 .. Upto(req, k) - 1}
  /\ pc = "unmap" => moved = Wanted(req)

MovesInv == SGInv /\ MovesOK

-----------------------------------------------------------------------------
\* Arithmetic of pages

LEMMA Division ==
  ASSUME NEW a \in Nat, NEW s \in Nat \ {0}
  PROVE  /\ a \div s \in Nat /\ a % s \in 0 .. s - 1
         /\ a = s * (a \div s) + (a % s)
  OBVIOUS

LEMMA PageAndOffset ==
  ASSUME NEW s \in Nat \ {0}, NEW k \in Nat, NEW o \in 0 .. s - 1
  PROVE  (s * k + o) \div s = k /\ (s * k + o) % s = o
  OBVIOUS

LEMMA PagesApart ==
  ASSUME NEW s \in Nat \ {0}, NEW j \in Int, NEW k \in Int, j < k
  PROVE  s * j + s <= s * k
<1>1. s * (k - j - 1) >= 0
  OBVIOUS
<1>2. s * (k - j - 1) = s * k - s * j - s
  OBVIOUS
<1> QED
  BY <1>1, <1>2

\* A transfer's last page is the one with its last byte.
LEMMA LastPage ==
  ASSUME NoWrapAround, NEW r \in Requests
  PROVE  /\ PageSize * (NrPages(r) - 1) < r.off + Bytes(r)
         /\ r.off + Bytes(r) <= PageSize * NrPages(r)
<1> DEFINE a == r.off + Bytes(r) + PageSize - 1
           n == NrPages(r)
<1>1. /\ a \in Nat /\ a < Modulus /\ PageSize \in Nat \ {0} /\ r.off \in Nat /\ Bytes(r) \in Nat
      /\ n \in Nat
  BY Sizes, ScatterGatherAssumption DEF NoWrapAround
<1>2. n = a \div PageSize
  BY <1>1, NoWrap DEF NrPages
<1> HIDE DEF n
<1>3. PageSize * n <= a /\ a < PageSize * n + PageSize
  <2> HIDE DEF a
  <2> QED
    BY <1>1, <1>2, Division
<1>4. PageSize * (n - 1) = PageSize * n - PageSize
  BY <1>1
<1> QED
  BY <1>1, <1>3, <1>4 DEF n

\* Where the segments start: one after another, the first within its page and
\* the others at the start of theirs.
LEMMA Segments ==
  ASSUME NoWrapAround, NEW r \in Requests, Bytes(r) # 0
  PROVE  /\ Upto(r, 0) = 0 /\ Upto(r, NrPages(r)) = Bytes(r)
         /\ \A k \in 0 .. NrPages(r) : Upto(r, k) \in 0 .. Bytes(r)
         /\ \A k \in 0 .. NrPages(r) - 1 :
              /\ Upto(r, k) < Upto(r, k + 1)
              /\ PageSize * k + Off(r, k) = r.off + Upto(r, k)
              /\ Off(r, k) \in 0 .. PageSize - 1
              /\ Off(r, k) + Upto(r, k + 1) - Upto(r, k) <= PageSize
         /\ \A k \in 1 .. NrPages(r) - 1 :
              Upto(r, k + 1) - Upto(r, k) = Lesser(Bytes(r) - Upto(r, k), PageSize)
         /\ NrPages(r) > 1 => Upto(r, 1) = PageSize - r.off
<1> DEFINE n == NrPages(r)
           B == Bytes(r)
           o == r.off
<1>1. /\ n \in Nat \ {0} /\ B \in Nat \ {0} /\ o \in 0 .. PageSize - 1
      /\ PageSize \in Nat \ {0}
  BY Sizes, ScatterGatherAssumption
<1>2. PageSize * (n - 1) < o + B /\ o + B <= PageSize * n
  BY LastPage
<1>u. \A k \in Int : Upto(r, k) = IF k = 0 THEN 0 ELSE IF k < n THEN PageSize * k - o ELSE B
  BY DEF Upto
<1>f. \A k \in Int : Off(r, k) = IF k = 0 THEN o ELSE 0
  BY DEF Off
<1> HIDE DEF n, B, o
<1>3. ASSUME NEW k \in 1 .. n - 1
      PROVE  Upto(r, k) = PageSize * k - o /\ PageSize * k - o \in 1 .. B - 1
  <2>1. PageSize * 0 + PageSize <= PageSize * k
    BY <1>1, PagesApart
  <2>2. PageSize * k <= PageSize * (n - 1)
    <3>1. CASE k = n - 1
      BY <1>1, <3>1
    <3>2. CASE k < n - 1
      BY <1>1, <3>2, PagesApart
    <3> QED
      BY <1>1, <3>1, <3>2
  <2>3. PageSize * k \in Int
    BY <1>1
  <2> QED
    BY <1>1, <1>2, <1>u, <2>1, <2>2, <2>3
<1>4. Upto(r, 0) = 0 /\ Upto(r, n) = B
  BY <1>1, <1>u
<1>5. \A k \in 0 .. n : Upto(r, k) \in 0 .. B
  <2> SUFFICES ASSUME NEW k \in 0 .. n PROVE Upto(r, k) \in 0 .. B
    OBVIOUS
  <2>1. k = 0 \/ k = n \/ k \in 1 .. n - 1
    BY <1>1
  <2> QED
    BY <1>1, <1>3, <1>4, <2>1
<1>6. ASSUME NEW k \in 0 .. n - 1
      PROVE  PageSize * k + Off(r, k) = o + Upto(r, k) /\ Off(r, k) \in 0 .. PageSize - 1
  <2>1. CASE k = 0
    BY <1>1, <1>4, <1>f, <2>1
  <2>2. CASE k \in 1 .. n - 1
    <3>1. PageSize * k \in Int
      BY <1>1, <2>2
    <3> QED
      BY <1>1, <1>3, <1>f, <2>2, <3>1
  <2> QED
    BY <1>1, <2>1, <2>2
<1>7. ASSUME NEW k \in 0 .. n - 1
      PROVE  /\ Upto(r, k) < Upto(r, k + 1)
             /\ Off(r, k) + Upto(r, k + 1) - Upto(r, k) <= PageSize
             /\ k # 0 => Upto(r, k + 1) - Upto(r, k) = Lesser(B - Upto(r, k), PageSize)
  <2>1. PageSize * (k + 1) = PageSize * k + PageSize /\ PageSize * k \in Int
    BY <1>1
  <2>2. CASE k + 1 = n
    <3>1. Upto(r, k + 1) = B /\ PageSize * n = PageSize * k + PageSize
      BY <1>4, <2>1, <2>2
    <3>2. CASE k = 0
      BY <1>1, <1>2, <1>4, <1>f, <2>1, <3>1, <3>2
    <3>3. CASE k \in 1 .. n - 1
      BY <1>1, <1>2, <1>3, <1>f, <2>1, <3>1, <3>3 DEF Lesser
    <3> QED
      BY <1>1, <3>2, <3>3
  <2>3. CASE k + 1 \in 1 .. n - 1
    <3>1. Upto(r, k + 1) = PageSize * k + PageSize - o /\ Upto(r, k + 1) < B
      <4>1. Upto(r, k + 1) = PageSize * (k + 1) - o /\ PageSize * (k + 1) - o \in 1 .. B - 1
        BY <1>3, <2>3
      <4> QED
        BY <1>1, <2>1, <4>1
    <3>2. CASE k = 0
      BY <1>1, <1>4, <1>f, <2>1, <3>1, <3>2
    <3>3. CASE k \in 1 .. n - 1
      BY <1>1, <1>3, <1>f, <2>1, <3>1, <3>3 DEF Lesser
    <3> QED
      BY <1>1, <3>2, <3>3
  <2> QED
    BY <1>1, <2>2, <2>3
<1>8. n > 1 => Upto(r, 1) = PageSize - o
  BY <1>1, <1>u
<1>9. \A k \in 1 .. n - 1 : k \in 0 .. n - 1 /\ k # 0
  BY <1>1
<1> QED
  BY <1>4, <1>5, <1>6, <1>7, <1>8, <1>9 DEF n, B, o

\* The bytes of segment k are the transfer's from Upto(r, k) on.
LEMMA BytesOfSegment ==
  ASSUME NoWrapAround, NEW r \in Requests, Bytes(r) # 0, NEW k \in 0 .. NrPages(r) - 1,
         NEW d \in Descriptors, d.page = Page(r, k), d.off = Off(r, k),
         d.size = Upto(r, k + 1) - Upto(r, k),
         d.local = IF r.point THEN r.dsp ELSE r.dsp + Upto(r, k)
  PROVE  Segment(d, r.point) = {Byte(r, b) : b \in Upto(r, k) .. Upto(r, k + 1) - 1}
<1> DEFINE u == Upto(r, k)
           v == Upto(r, k + 1)
           o == Off(r, k)
           base == PageSize * k
<1>1. /\ u \in Nat /\ v \in Nat /\ o \in Nat /\ u < v /\ v <= Bytes(r)
      /\ base + o = r.off + u /\ o + v - u <= PageSize
  BY Segments, Sizes
<1>2. /\ PageSize \in Nat \ {0} /\ k \in Nat /\ base \in Nat /\ Modulus \in Nat
      /\ r.dsp \in Nat /\ r.off \in Nat /\ Bytes(r) \in Nat /\ r.point \in BOOLEAN
      /\ ~ r.point => r.dsp + Bytes(r) <= Modulus
  BY Sizes, ScatterGatherAssumption DEF NoWrapAround
<1> HIDE DEF u, v, o, base
<1> DEFINE Moved(j) == <<IF r.point THEN d.local ELSE (d.local + j) % Modulus, d.page, d.off + j>>
<1>3. ASSUME NEW j \in 0 .. v - u - 1
      PROVE  Moved(j) = Byte(r, u + j)
  <2>1. r.off + (u + j) = base + (o + j) /\ o + j \in 0 .. PageSize - 1
    BY <1>1, <1>2
  <2>2. (r.off + (u + j)) \div PageSize = k /\ (r.off + (u + j)) % PageSize = o + j
    <3>1. (base + (o + j)) \div PageSize = k /\ (base + (o + j)) % PageSize = o + j
      BY <1>2, <2>1, PageAndOffset DEF base
    <3> QED
      BY <2>1, <3>1
  <2>3. ~ r.point => (d.local + j) % Modulus = r.dsp + (u + j)
    <3>1. ~ r.point => d.local + j = r.dsp + (u + j) /\ r.dsp + (u + j) \in Nat
                       /\ r.dsp + (u + j) < Modulus
      BY <1>1, <1>2 DEF u
    <3> QED
      BY <3>1, NoWrap
  <2>4. r.point => d.local = r.dsp
    OBVIOUS
  <2> QED
    BY <2>2, <2>3, <2>4 DEF Byte, o
<1>4. Segment(d, r.point) = {Moved(j) : j \in 0 .. v - u - 1}
  BY DEF Segment, u, v
<1> HIDE DEF Moved
<1>5. \A b \in u .. v - 1 : b - u \in 0 .. v - u - 1 /\ u + (b - u) = b
  BY <1>1
<1>6. \A j \in 0 .. v - u - 1 : u + j \in u .. v - 1
  BY <1>1
<1>7. {Moved(j) : j \in 0 .. v - u - 1} = {Byte(r, b) : b \in u .. v - 1}
  BY <1>3, <1>5, <1>6
<1> QED
  BY <1>4, <1>7 DEF u, v

-----------------------------------------------------------------------------
\* The chain describes the buffer, and the engine follows it

LEMMA MovesStep ==
  ASSUME NoWrapAround, SGInv, SGInv', MovesOK, [Next]_vars
  PROVE  MovesOK'
<1> DEFINE n == NrPages(req)
           B == Bytes(req)
           Later == {"program", "start", "move"}
<1>0. /\ TypeOK /\ n \in 1 .. MaxPages /\ n \in Nat /\ B \in Nat /\ req \in Requests
      /\ PageSize \in Nat \ {0} /\ Modulus \in Nat /\ MaxPages \in Nat
      /\ req.off \in 0 .. PageSize - 1 /\ req.dsp \in Nat /\ req.point \in BOOLEAN
      /\ count \in Nat /\ targetaddr \in Nat /\ count < Modulus
  BY Sizes, ScatterGatherAssumption DEF SGInv, TypeOK
<1>00. /\ 0 .. n - 1 \subseteq Table /\ 0 \in 0 .. n - 1
       /\ \A k \in Table : tscrpt[k] \in Descriptors
  BY <1>0 DEF Table, TypeOK
<1>s. B # 0 =>
        /\ Upto(req, 0) = 0 /\ Upto(req, n) = B
        /\ \A k \in 0 .. n : Upto(req, k) \in 0 .. B
        /\ \A k \in 0 .. n - 1 : Upto(req, k) < Upto(req, k + 1)
        /\ \A k \in 1 .. n - 1 :
             Upto(req, k + 1) - Upto(req, k) = Lesser(B - Upto(req, k), PageSize)
        /\ n > 1 => Upto(req, 1) = PageSize - req.off
  BY <1>0, Segments
<1> HIDE DEF n, B
<1>1. ASSUME NEW r \in Requests, Call(r) PROVE MovesOK'
  BY <1>1 DEF Call, MovesOK, Pinning
<1>2. CASE ReturnEarly
  <2>1. ~ TooManyPages(req) /\ Rejects(0, NrPages(req))
    BY <1>0, NoWrap DEF TooManyPages, Rejects, n
  <2>2. pc' = "idle"
    BY <1>2, <2>1 DEF ReturnEarly
  <2> QED
    BY <2>2 DEF MovesOK, Pinning
<1>3. CASE GetUserPages
  <2>1. /\ pc = "pin" /\ count # 0 /\ pc' \in {"release", "first"}
        /\ UNCHANGED <<req, count, targetaddr, moved>>
    BY <1>3 DEF GetUserPages
  <2> QED
    BY <2>1 DEF MovesOK, Pinning
<1>4. CASE Release
  BY <1>4 DEF Release, MovesOK, Pinning
<1>5. CASE First
  <2> DEFINE size == IF n > 1 THEN PageSize - req.off ELSE count
             d    == Descriptor(pages[0], req.off, targetaddr, size, IF n > 1 THEN 1 ELSE EOC)
  <2>1. /\ pc = "first" /\ tscrpt' = [tscrpt EXCEPT ![0] = d]
        /\ IF n > 1 THEN /\ pc' = "loop" /\ count' = (count - size) % Modulus
                         /\ targetaddr' = (targetaddr + size) % Modulus
                    ELSE pc' = "program"
        /\ i' = 1 /\ UNCHANGED <<req, moved>>
    BY <1>5 DEF First, n
  <2>2. /\ count = B /\ targetaddr = req.dsp /\ moved = {} /\ B # 0
    BY <2>1 DEF MovesOK, Pinning, B
  <2>3. size = Upto(req, 1) - Upto(req, 0) /\ size \in Nat /\ size <= B
    BY <1>0, <1>s, <2>2
  <2>4. pages[0] = Page(req, 0)
    BY <1>0, <2>1 DEF SGInv, PinsOK, Pinning, n
  <2> HIDE DEF size
  <2>5. /\ d.page = Page(req, 0) /\ d.off = Off(req, 0)
        /\ d.size = Upto(req, 0 + 1) - Upto(req, 0)
        /\ d.local = req.dsp + Upto(req, 0) /\ d.next = IF n > 1 THEN 1 ELSE EOC
    BY <1>0, <1>s, <2>2, <2>3, <2>4 DEF Descriptor, Off
  <2> HIDE DEF d
  <2>6. tscrpt'[0] = d
    BY <1>0, <1>00, <2>1 DEF TypeOK
  <2>7. /\ Describes(tscrpt[0], 0)' /\ tscrpt'[0].next = IF n > 1 THEN 1 ELSE EOC
    BY <2>1, <2>5, <2>6 DEF Describes
  <2>8. CASE n > 1
    <3>1. count' = B - Upto(req, 1)
      <4>1. count - size \in Nat /\ count - size < Modulus /\ count - size = B - Upto(req, 1)
        BY <1>0, <1>s, <2>2, <2>3
      <4> QED
        BY <2>1, <2>8, <4>1, NoWrap
    <3>2. ~ req.point => targetaddr' = req.dsp + Upto(req, 1)
      <4>1. Upto(req, 1) < B
        BY <1>0, <1>s, <2>2, <2>8
      <4>2. ~ req.point => /\ targetaddr + size \in Nat /\ targetaddr + size < Modulus
                           /\ targetaddr + size = req.dsp + Upto(req, 1)
        BY <1>0, <1>s, <2>2, <2>3, <4>1 DEF NoWrapAround, B
      <4> QED
        BY <2>1, <2>8, <4>2, NoWrap
    <3>3. pc' = "loop" /\ \A k \in 0 .. i' - 1 : k = 0
      BY <2>1, <2>8
    <3> QED
      BY <2>1, <2>2, <2>7, <2>8, <3>1, <3>2, <3>3 DEF MovesOK, Pinning, n, B
  <2>9. CASE ~ n > 1
    <3>1. pc' = "program" /\ n = 1 /\ \A k \in 0 .. n - 1 : k = 0
      BY <1>0, <2>1, <2>9
    <3>2. Link(0)' = EOC
      BY <2>1, <3>1 DEF Link, n
    <3> QED
      BY <2>1, <2>2, <2>7, <3>1, <3>2 DEF MovesOK, Pinning, n, B
  <2> QED
    BY <2>8, <2>9
<1>6. CASE Fill
  <2> DEFINE size == Lesser(count, PageSize)
             d    == Descriptor(pages[i], 0, targetaddr, size, i + 1)
             u    == Upto(req, i)
             v    == Upto(req, i + 1)
  <2>1. /\ pc = "loop" /\ pc' = "loop" /\ i < n /\ i \in 1 .. n - 1
        /\ tscrpt' = [tscrpt EXCEPT ![i] = d]
        /\ count' = (count - size) % Modulus
        /\ targetaddr' = (targetaddr + size) % Modulus
        /\ i' = i + 1 /\ UNCHANGED <<req, moved>>
    BY <1>0, <1>6 DEF Fill, SGInv, ChainOK, n
  <2>2. /\ count = B - u /\ (~ req.point => targetaddr = req.dsp + u) /\ moved = {} /\ B # 0 /\ n > 1
        /\ \A k \in 0 .. i - 1 : Describes(tscrpt[k], k) /\ tscrpt[k].next = k + 1
    BY <2>1 DEF MovesOK, Pinning, B, n
  <2>3. size = v - u /\ u \in Nat /\ v \in Nat /\ u < v /\ v <= B
    BY <1>0, <1>s, <2>1, <2>2
  <2>4. pages[i] = Page(req, i)
    BY <2>1 DEF SGInv, PinsOK, Pinning, n
  <2> HIDE DEF size
  <2>5. /\ d.page = Page(req, i) /\ d.off = Off(req, i) /\ d.size = v - u
        /\ (~ req.point => d.local = req.dsp + u) /\ d.next = i + 1
    BY <2>1, <2>2, <2>3, <2>4 DEF Descriptor, Off
  <2> HIDE DEF d, u, v
  <2>6. tscrpt'[i] = d /\ \A k \in 0 .. i - 1 : tscrpt'[k] = tscrpt[k]
    BY <1>0, <1>00, <2>1 DEF TypeOK
  <2>7. \A k \in 0 .. i' - 1 : Describes(tscrpt[k], k)' /\ tscrpt'[k].next = k + 1
    <3> SUFFICES ASSUME NEW k \in 0 .. i
                 PROVE  Describes(tscrpt[k], k)' /\ tscrpt'[k].next = k + 1
      BY <2>1
    <3>1. CASE k = i
      BY <2>1, <2>5, <2>6, <3>1 DEF Describes, u, v
    <3>2. CASE k \in 0 .. i - 1
      BY <2>1, <2>2, <2>6, <3>2 DEF Describes
    <3> QED
      BY <2>1, <3>1, <3>2
  <2>8. count' = B - v
    <3>1. count - size = B - v /\ count - size \in Nat /\ count - size < Modulus
      BY <1>0, <2>2, <2>3
    <3> QED
      BY <2>1, <3>1, NoWrap
  <2>9. i + 1 < n /\ ~ req.point => targetaddr' = req.dsp + v
    <3> SUFFICES ASSUME i + 1 < n, ~ req.point PROVE targetaddr' = req.dsp + v
      OBVIOUS
    <3>1. v < B
      <4>1. i + 1 \in 0 .. n - 1 /\ Upto(req, i + 1) < Upto(req, i + 1 + 1)
            /\ Upto(req, i + 1 + 1) \in 0 .. B
        BY <1>0, <1>s, <2>1, <2>2
      <4> QED
        BY <1>0, <2>3, <4>1 DEF v
    <3>2. /\ targetaddr + size \in Nat /\ targetaddr + size < Modulus
          /\ targetaddr + size = req.dsp + v
      BY <1>0, <2>2, <2>3, <3>1 DEF NoWrapAround, B
    <3> QED
      BY <2>1, <3>2, NoWrap
  <2> QED
    BY <2>1, <2>2, <2>7, <2>8, <2>9 DEF MovesOK, Pinning, B, n, v
<1>7. CASE Close
  <2>1. /\ pc = "loop" /\ pc' = "program" /\ i = n
        /\ tscrpt' = [tscrpt EXCEPT ![n - 1] = [tscrpt[n - 1] EXCEPT !.next = EOC]]
        /\ UNCHANGED <<req, moved>>
    <3>1. i = n /\ n - 1 = i - 1
      BY <1>0, <1>7 DEF Close, SGInv, ChainOK, n
    <3> QED
      BY <1>7, <3>1 DEF Close
  <2>2. /\ moved = {} /\ B # 0
        /\ \A k \in 0 .. n - 1 : Describes(tscrpt[k], k) /\ tscrpt[k].next = k + 1
    BY <2>1 DEF MovesOK, Pinning, B
  <2>3. ASSUME NEW k \in 0 .. n - 1
        PROVE  Describes(tscrpt[k], k)' /\ tscrpt'[k].next = Link(k)
    <3>1. CASE k # n - 1
      <4>1. tscrpt'[k] = tscrpt[k]
        BY <1>0, <1>00, <2>1, <3>1 DEF TypeOK
      <4> QED
        BY <1>0, <2>1, <2>2, <3>1, <4>1 DEF Describes, Link, n
    <3>2. CASE k = n - 1
      <4>1. tscrpt'[k] = [tscrpt[k] EXCEPT !.next = EOC] /\ tscrpt[k] \in Descriptors
        BY <1>0, <1>00, <2>1, <3>2 DEF TypeOK
      <4>2. /\ tscrpt'[k].page = tscrpt[k].page /\ tscrpt'[k].off = tscrpt[k].off
            /\ tscrpt'[k].size = tscrpt[k].size /\ tscrpt'[k].local = tscrpt[k].local
            /\ tscrpt'[k].next = EOC
        BY <4>1 DEF Descriptors
      <4>3. Describes(tscrpt[k], k)
        BY <2>2
      <4>4. Link(k) = EOC
        BY <1>0, <3>2 DEF Link, n
      <4> QED
        BY <2>1, <4>2, <4>3, <4>4 DEF Describes
    <3> QED
      BY <3>1, <3>2
  <2> QED
    BY <2>1, <2>2, <2>3 DEF MovesOK, Pinning, Link, n, B
<1>8. CASE Program
  <2>1. /\ pc = "program" /\ pc' = "start" /\ UNCHANGED <<req, moved>>
        /\ dma' = [tscrpt[0] EXCEPT !.next =
                     IF IoSize(req) > PageSize - req.off THEN 0 ELSE tscrpt[0].next]
        /\ tscrpt' = IF req.point THEN [k \in Table |-> IF k < n THEN [tscrpt[k] EXCEPT !.local = req.dsp]
                                                        ELSE tscrpt[k]]
                     ELSE tscrpt
    BY <1>8 DEF Program, n
  <2>2. /\ moved = {} /\ B # 0
        /\ \A k \in 0 .. n - 1 : Describes(tscrpt[k], k) /\ tscrpt[k].next = Link(k)
    BY <2>1 DEF MovesOK, Pinning, B, n
  <2>3. \A k \in 0 .. n - 1 :
          /\ tscrpt'[k].page = tscrpt[k].page /\ tscrpt'[k].off = tscrpt[k].off
          /\ tscrpt'[k].size = tscrpt[k].size /\ tscrpt'[k].next = tscrpt[k].next
          /\ tscrpt'[k].local = IF req.point THEN req.dsp ELSE tscrpt[k].local
    <3>1. CASE req.point
      <4>1. \A k \in 0 .. n - 1 : /\ tscrpt'[k] = [tscrpt[k] EXCEPT !.local = req.dsp]
                                  /\ tscrpt[k] \in Descriptors
        BY <1>0, <1>00, <2>1, <3>1
      <4> QED
        BY <3>1, <4>1 DEF Descriptors
    <3>2. CASE ~ req.point
      BY <2>1, <3>2
    <3> QED
      BY <3>1, <3>2
  <2>4. ASSUME NEW k \in 0 .. n - 1
        PROVE  Describes(tscrpt[k], k)' /\ tscrpt'[k].next = Link(k)
    <3>1. k = 0 => req.dsp = req.dsp + Upto(req, k)
      BY <1>0, <1>s, <2>2
    <3> QED
      BY <2>1, <2>2, <2>3, <3>1 DEF Describes
  <2>5. IF n > 1 THEN dma'.next = 0 ELSE Describes(dma, 0)' /\ dma'.next = EOC
    <3>1. /\ dma'.page = tscrpt[0].page /\ dma'.off = tscrpt[0].off
          /\ dma'.size = tscrpt[0].size /\ dma'.local = tscrpt[0].local
          /\ dma'.next = IF IoSize(req) > PageSize - req.off THEN 0 ELSE tscrpt[0].next
      BY <1>00, <2>1 DEF Descriptors
    <3>2. IoSize(req) > PageSize - req.off <=> n > 1
      <4> DEFINE top == PageSize * MaxPages
                 P   == PageSize * n
                 Q   == PageSize * (n - 1)
      <4>1. Q < req.off + B /\ req.off + B <= P /\ P = Q + PageSize
        BY <1>0, LastPage DEF n, B
      <4>2. P <= top
        BY <1>0, PagesApart
      <4>3. n > 1 => Q >= PageSize
        BY <1>0, PagesApart
      <4>4. n = 1 => Q = 0
        BY <1>0
      <4>5. top \in Int /\ P \in Int /\ Q \in Int /\ MaxPages * PageSize = top
        BY <1>0
      <4> HIDE DEF top, P, Q
      <4>6. IoSize(req) = B
        BY <1>0, <4>1, <4>2, <4>5 DEF IoSize, Lesser, B
      <4> QED
        BY <1>0, <4>1, <4>3, <4>4, <4>5, <4>6
    <3>3. ~ n > 1 => Link(0) = EOC
      BY <1>0 DEF Link, n
    <3> QED
      BY <1>00, <2>1, <2>2, <3>1, <3>2, <3>3 DEF Describes
  <2> QED
    BY <2>1, <2>2, <2>3, <2>4, <2>5 DEF MovesOK, Pinning, Link, n, B
<1>9. ASSUME NEW k \in 0 .. n - 1, pc \in {"start", "move"}
      PROVE  /\ Describes(tscrpt[k], k) /\ tscrpt[k].next = Link(k)
             /\ req.point => tscrpt[k].local = req.dsp
  BY <1>9 DEF MovesOK, n
<1>10. CASE Load
  <2>1. /\ pc = "start" /\ pc' = "move" /\ UNCHANGED <<req, tscrpt, moved>> /\ moved = {}
        /\ dma' = IF dma.next = EOC THEN dma ELSE tscrpt[dma.next]
        /\ B # 0
    BY <1>10 DEF Load, MovesOK, Pinning, B
  <2>2. Describes(dma, 0)' /\ dma'.next = Link(0)' /\ (req.point => dma'.local = req.dsp)
    <3>1. CASE n > 1
      <4>1. dma' = tscrpt[0]
        BY <2>1, <3>1 DEF MovesOK, EOC, n
      <4> QED
        BY <1>00, <1>9, <2>1, <4>1 DEF Describes, Link
    <3>2. CASE ~ n > 1
      <4>1. dma' = dma /\ Describes(dma, 0) /\ dma.next = EOC /\ n = 1
        BY <1>0, <2>1, <3>2 DEF MovesOK, n
      <4>2. Link(0)' = EOC /\ dma.local = req.dsp
        BY <1>0, <1>s, <2>1, <4>1 DEF Link, Describes, n
      <4> QED
        BY <2>1, <4>1, <4>2 DEF Describes
    <3> QED
      BY <3>1, <3>2
  <2>3. moved' = {Byte(req, b) : b \in 0 .. Upto(req, 0) - 1}
    BY <1>s, <2>1
  <2> QED
    BY <1>00, <2>1, <2>2, <2>3 DEF MovesOK, Pinning, Describes, Link, n, B
<1>11. CASE Move
  <2>1. /\ pc = "move" /\ moved' = moved \cup Segment(dma, req.point) /\ UNCHANGED <<req, tscrpt>>
        /\ IF dma.next = EOC THEN pc' = "unmap" /\ UNCHANGED dma
                             ELSE dma' = tscrpt[dma.next] /\ UNCHANGED pc
        /\ B # 0 /\ dma \in Descriptors
    BY <1>11 DEF Move, MovesOK, Pinning, B, TypeOK, SGInv
  <2>2. PICK k \in 0 .. n - 1 :
          /\ Describes(dma, k) /\ dma.next = Link(k) /\ (req.point => dma.local = req.dsp)
          /\ moved = {Byte(req, b) : b \in 0 .. Upto(req, k) - 1}
    BY <2>1 DEF MovesOK, n
  <2> DEFINE u == Upto(req, k)
             v == Upto(req, k + 1)
  <2>3. Segment(dma, req.point) = {Byte(req, b) : b \in u .. v - 1}
    <3>1. dma.local = IF req.point THEN req.dsp ELSE req.dsp + Upto(req, k)
      BY <2>2 DEF Describes
    <3> QED
      BY <1>0, <2>1, <2>2, <3>1, BytesOfSegment DEF Describes, n, B
  <2>4. u \in Nat /\ v \in Nat /\ u < v
    BY <1>0, <1>s, <2>1
  <2> HIDE DEF u, v
  <2>5. moved' = {Byte(req, b) : b \in 0 .. v - 1}
    <3>1. 0 .. v - 1 = (0 .. u - 1) \cup (u .. v - 1)
      BY <2>4
    <3>2. moved' = {Byte(req, b) : b \in 0 .. u - 1} \cup {Byte(req, b) : b \in u .. v - 1}
      BY <2>1, <2>2, <2>3 DEF u
    <3> QED
      BY <3>1, <3>2
  <2>6. CASE k + 1 = n
    <3>1. pc' = "unmap"
      BY <2>1, <2>2, <2>6 DEF Link, n
    <3>2. v = B
      BY <1>s, <2>1, <2>6 DEF v
    <3>3. moved' = Wanted(req)'
      BY <2>1, <2>5, <3>2 DEF Wanted, Byte, B
    <3> QED
      BY <2>1, <3>1, <3>3 DEF MovesOK, Pinning, B
  <2>7. CASE k + 1 # n
    <3>1. k + 1 \in 0 .. n - 1 /\ dma.next = k + 1 /\ dma.next # EOC
      BY <1>0, <2>2, <2>7 DEF Link, EOC, n
    <3>2. dma' = tscrpt[k + 1] /\ pc' = "move"
      BY <2>1, <3>1
    <3>3. /\ Describes(dma, k + 1)' /\ dma'.next = Link(k + 1)'
          /\ req'.point => dma'.local = req'.dsp
      BY <1>9, <2>1, <3>1, <3>2 DEF Describes, Link
    <3>4. moved' = {Byte(req', b) : b \in 0 .. Upto(req', k + 1) - 1}
      BY <2>1, <2>5 DEF v
    <3>5. \A j \in 0 .. n - 1 : Describes(tscrpt[j], j)' /\ tscrpt'[j].next = Link(j)'
                                /\ (req'.point => tscrpt'[j].local = req'.dsp)
      BY <1>9, <2>1 DEF Describes, Link
    <3>6. n = NrPages(req') /\ Bytes(req') # 0
      BY <2>1 DEF n, B
    <3> QED
      BY <3>1, <3>2, <3>3, <3>4, <3>5, <3>6 DEF MovesOK, Pinning
  <2> QED
    BY <2>6, <2>7
<1>12. CASE SIPLX_Unmap_Pages
  BY <1>12 DEF SIPLX_Unmap_Pages, MovesOK, Pinning
<1>13. CASE UNCHANGED vars
  BY <1>13 DEF vars, MovesOK, Describes, Link
<1> QED
  BY <1>1, <1>2, <1>3, <1>4, <1>5, <1>6, <1>7, <1>8, <1>10, <1>11, <1>12, <1>13
     DEF Next, SIPLX_Build_SGL

\* Build_SGL's chain describes the buffer, segment after segment, and the engine
\* has moved what it has passed of it.
THEOREM MovesInvariant == ASSUME NoWrapAround PROVE Spec => []MovesInv
<1>1. Init => MovesOK
  BY DEF Init, MovesOK, Pinning
<1>2. MovesInv /\ [Next]_vars => MovesInv'
  BY SGStep, MovesStep DEF MovesInv
<1> QED
  BY <1>1, <1>2, SGInit, PTL DEF Spec, MovesInv

\* A transfer that fits the table moves each byte of the buffer to or from the
\* card address it belongs to, and nothing else, for pages, tables and buffers of
\* any size: the first and the last page may be partial, the card's address may
\* stand still, and a buffer of one page is moved without a chain.
THEOREM BufferIsMoved == ASSUME NoWrapAround PROVE Spec => []MovesTheBuffer
<1>1. MovesInv => MovesTheBuffer
  <2> SUFFICES ASSUME MovesInv, pc = "move" PROVE moved \subseteq Wanted(req)
    BY DEF MovesInv, MovesOK, MovesTheBuffer
  <2>1. PICK k \in 0 .. NrPages(req) - 1 : moved = {Byte(req, b) : b \in 0 .. Upto(req, k) - 1}
    BY DEF MovesInv, MovesOK
  <2>2. req \in Requests /\ Bytes(req) # 0
    BY DEF MovesInv, MovesOK, SGInv, TypeOK, Pinning
  <2>3. Upto(req, k) \in 0 .. Bytes(req) /\ Bytes(req) \in Nat
    <3>1. k \in 0 .. NrPages(req)
      BY <2>2, Sizes, ScatterGatherAssumption
    <3> QED
      BY <2>2, <3>1, Segments, Sizes, ScatterGatherAssumption
  <2>4. 0 .. Upto(req, k) - 1 \subseteq 0 .. Bytes(req) - 1
    BY <2>3
  <2> QED
    BY <2>1, <2>4 DEF Wanted, Byte
<1> QED
  BY <1>1, MovesInvariant, PTL

=============================================================================
