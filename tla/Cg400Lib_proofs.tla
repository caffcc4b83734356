--------------------------- MODULE Cg400Lib_proofs ---------------------------
(***************************************************************************)
(* Theorems about Cg400Lib's clock calls, for any programs, kills and      *)
(* cards: what the PLL holds and what the DDS takes, and, for one board,   *)
(* that the DDS follows the frequency.                                     *)
(***************************************************************************)
EXTENDS Cg400Lib, SequenceTheorems, WellFoundedInduction, TLAPS

-----------------------------------------------------------------------------
\* The inductive invariant

Lines == {"DDS_RST", "STRP", "OE", "PLL_SER_CS1n", "PLL_SER_DIN", "PLL_SER_SCLK"}
Halves == 2 ^ HalfBits
Registers == 0 .. 2 ^ PllBits - 1

ClockTypeOK ==
  /\ Port0_Value \in SUBSET Lines /\ WGR \in SUBSET Lines
  /\ port0 \in [Cards -> SUBSET Lines]
  /\ port \in [Cards -> [1 .. 2 -> Int]]
  /\ dds \in [Cards -> Int]
  /\ pll \in [Cards -> [shift : Registers, latch : [0 .. 3 -> Registers]]]
  /\ hDevice \in Cards \cup {NoFile, Closed}
  /\ program \in Programs /\ board \in Boards
  /\ freq \in [Boards -> Int] /\ ready \in SUBSET Boards
  /\ at \in Nat
  /\ at > 0 => call \in program /\ at <= Len(Scripts[call]) + 1

\* The call under way has made its first write.
Under(name) == at > 1 /\ call.name = name

\* The two copies of port 0 differ in the RAM's line only, and a call that sets the
\* clock knows what the port holds.
CopiesOK ==
  /\ "OE" \notin Port0_Value /\ WGR \ {"OE"} = Port0_Value
  /\ (Under("initialize") \/ Under("SetFrequency")) /\ hDevice \in Cards =>
       port0[hDevice] = WGR

\* The tuning words that are asked for, and the one in ports 1 and 2 of a card
TuningWords == {0} \cup {d.word : d \in {e \in UNION Programs : e.name = "SetFrequency"}}
PortWord(c) == port[c][2] * Halves + port[c][1]

\* STRP is up only between the last two writes of cg400_SetFrequency, or on a card
\* whose program was killed there; the ports then hold a whole word.
WordsOK ==
  /\ "STRP" \in Port0_Value <=> Under("SetFrequency") /\ at = 5
  /\ \A c \in Cards : /\ dds[c] \in TuningWords
                      /\ "STRP" \in port0[c] => PortWord(c) \in TuningWords
  /\ Under("SetFrequency") /\ call.word # 0 /\ hDevice \in Cards =>
       /\ at > 2 => port[hDevice][1] = call.word % Halves
       /\ at > 3 => port[hDevice][2] = call.word \div Halves
       /\ at > 5 => dds[hDevice] = call.word

\* The words cg400_initialize loads
PllWord(j) == CASE j = 0 -> Function_LTCH [] j = 1 -> R_Counter [] j = 2 -> N_Counter

\* The first n words of the PLL are in their latches.
Latched(c, n) == \A i \in 0 .. n - 1 : pll[c].latch[PllWord(i) % 4] = PllWord(i)

\* The first q bits of a word are the last q of a shift register.
Holds(shift, w, q) == shift % 2 ^ q = w \div 2 ^ (PllBits - q)

\* q bits of the j-th word of the PLL are in its shift register.
Shifted(j, q) ==
  hDevice \in Cards => Holds(pll[hDevice].shift, PllWord(j), q)

\* cg400_initialize is about to make the k-th write of the j-th word.
Loading(j, k) ==
  /\ hDevice \in Cards => Latched(hDevice, j)
  /\ "PLL_SER_CS1n" \in Port0_Value <=> k <= 3
  /\ k \in {2, 3} => "PLL_SER_SCLK" \notin Port0_Value
  /\ k > 3 => \E q \in 0 .. PllBits :
       \/ k = 3 * q + 4 /\ "PLL_SER_SCLK" \notin Port0_Value /\ Shifted(j, q)
       \/ /\ q < PllBits /\ k = 3 * q + 5
          /\ "PLL_SER_SCLK" \notin Port0_Value /\ Shifted(j, q)
          /\ "PLL_SER_DIN" \in Port0_Value <=> Bit(PllWord(j), PllBits - 1 - q) = 1
       \/ /\ q < PllBits /\ k = 3 * q + 6
          /\ "PLL_SER_SCLK" \in Port0_Value /\ Shifted(j, q + 1)

\* A ready board's PLL has its words and is not selected, unless it is being
\* initialised again.
PllOK ==
  /\ Under("initialize") /\ at > 4 =>
       \E j \in 0 .. 3, k \in 1 .. 67 :
         at = 4 + 67 * j + k /\ (j = 3 => k = 1) /\ Loading(j, k)
  /\ ready # {} /\ ~ Under("initialize") => "PLL_SER_CS1n" \in Port0_Value
  /\ \A b \in ready : /\ b \in Cards
                      /\ ~ (Under("initialize") /\ hDevice = b) =>
                           Latched(b, 3) /\ "PLL_SER_CS1n" \in port0[b]

ClockInv == ClockTypeOK /\ CopiesOK /\ WordsOK /\ PllOK

-----------------------------------------------------------------------------
\* One board, and frequencies below full scale

\* All handles share one device, so a second board's calls would reach the first.
OneBoard == \A b, c \in Boards : b = c

\* The tuning words of frequencies at full scale and above do not fit in the ports.
BelowFullScale ==
  \A c \in UNION Programs :
    c.name = "SetFrequency" /\ Accepts(c.freq) => c.freq * Scale <= (Scale - 1) * FullScale

\* A ready board's port has what the copy says, and its DDS follows the frequency,
\* unless it is just being set.
DdsOK ==
  /\ \A b \in ready : hDevice = b /\ port0[b] = WGR
  /\ Under("initialize") /\ at > 2 => "DDS_RST" \in Port0_Value
  /\ Under("SetFrequency") => ("DDS_RST" \in Port0_Value <=> call.word = 0)
  /\ \A b \in ready : ~ Under("initialize") /\ ~ Under("SetFrequency") =>
       /\ freq[b] = 0 <=> "DDS_RST" \in Port0_Value
       /\ freq[b] # 0 => /\ freq[b] > 0 /\ freq[b] * Scale <= (Scale - 1) * FullScale
                         /\ dds[b] \in FTWs(freq[b])

-----------------------------------------------------------------------------
\* Sequences of sequences, flattened

\* Induction up to n, over a set of numbers
LEMMA Induct ==
  ASSUME NEW n \in Nat, NEW T, 1 \in T, \A i \in 1 .. n - 1 : i \in T => i + 1 \in T
  PROVE  1 .. n \subseteq T
<1> DEFINE Rest == (1 .. n) \ T
<1> SUFFICES ASSUME Rest # {} PROVE FALSE
  OBVIOUS
<1>1. PICK x \in Rest : \A y \in Rest : <<y, x>> \notin OpToRel(<, Nat)
  <2>1. Rest \subseteq Nat
    OBVIOUS
  <2> HIDE DEF Rest
  <2> QED
    BY <2>1, NatLessThanWellFounded, WFMin
<1>2. x \in 1 .. n /\ x \notin T
  OBVIOUS
<1>3. x # 1 /\ x - 1 \in 1 .. n - 1 /\ (x - 1) + 1 = x
  BY <1>2
<1>4. x - 1 \notin Rest
  <2>1. <<x - 1, x>> \in OpToRel(<, Nat)
    BY <1>2, <1>3 DEF OpToRel
  <2> QED
    BY <1>1, <2>1
<1>5. x - 1 \in T
  BY <1>3, <1>4
<1> QED
  BY <1>2, <1>3, <1>5

\* The recursive function of FlattenSeq, on the first m sequences of s
JoinsTo(f, s, m) == f = [i \in 1 .. m |-> IF i = 1 THEN s[i] ELSE f[i - 1] \o s[i]]

\* There is such a function, whatever s is.
LEMMA JoinExists ==
  ASSUME NEW s, NEW n \in Nat \ {0}
  PROVE  \E f : JoinsTo(f, s, n)
<1> DEFINE T == {m \in 1 .. n : \E f : JoinsTo(f, s, m)}
<1>1. 1 \in T
  <2>1. JoinsTo([i \in 1 .. 1 |-> s[i]], s, 1)
    BY DEF JoinsTo
  <2> QED
    BY <2>1
<1>2. ASSUME NEW m \in 1 .. n - 1, m \in T PROVE m + 1 \in T
  <2>1. PICK f : JoinsTo(f, s, m)
    BY <1>2
  <2> DEFINE g == [i \in 1 .. m + 1 |-> IF i = m + 1 THEN f[m] \o s[i] ELSE f[i]]
  <2>2. ASSUME NEW i \in 1 .. m + 1
        PROVE  g[i] = IF i = 1 THEN s[i] ELSE g[i - 1] \o s[i]
    <3>1. CASE i = m + 1
      <4>1. m \in 1 .. m + 1 /\ m # m + 1 /\ i # 1 /\ i - 1 = m
        BY <3>1
      <4>2. g[i] = f[m] \o s[i] /\ g[m] = f[m]
        BY <3>1, <4>1
      <4> HIDE DEF g
      <4> QED
        BY <4>1, <4>2
    <3>2. CASE i # m + 1
      <4>1. i \in 1 .. m /\ g[i] = f[i] /\ (i # 1 => g[i - 1] = f[i - 1])
        BY <3>2
      <4> HIDE DEF g
      <4> QED
        BY <2>1, <4>1 DEF JoinsTo
    <3> QED
      BY <3>1, <3>2
  <2>3. g = [i \in 1 .. m + 1 |-> IF i = 1 THEN s[i] ELSE g[i - 1] \o s[i]]
    <3>1. g = [i \in 1 .. m + 1 |-> g[i]]
      OBVIOUS
    <3> HIDE DEF g
    <3> QED
      BY <2>2, <3>1
  <2> HIDE DEF g
  <2>4. m + 1 \in 1 .. n
    OBVIOUS
  <2>5. JoinsTo(g, s, m + 1)
    BY <2>3 DEF JoinsTo
  <2> QED
    BY <2>4, <2>5
<1>3. n \in 1 .. n
  OBVIOUS
<1>4. 1 .. n \subseteq T
  <2> HIDE DEF T
  <2> QED
    BY <1>1, <1>2, Induct
<1> QED
  BY <1>3, <1>4

\* FlattenSeq joins the sequences one by one.
LEMMA FlattenJoins ==
  ASSUME NEW s, Len(s) \in Nat \ {0}
  PROVE  \E f : /\ FlattenSeq(s) = f[Len(s)]
                /\ f[1] = s[1]
                /\ \A i \in 1 .. Len(s) - 1 : f[i + 1] = f[i] \o s[i + 1]
<1>1. \E f : f = [i \in 1 .. Len(s) |-> IF i = 1 THEN s[i] ELSE f[i - 1] \o s[i]]
  BY JoinExists DEF JoinsTo
<1> DEFINE f == CHOOSE f : f = [i \in 1 .. Len(s) |-> IF i = 1 THEN s[i] ELSE f[i - 1] \o s[i]]
<1>2. f = [i \in 1 .. Len(s) |-> IF i = 1 THEN s[i] ELSE f[i - 1] \o s[i]]
  BY <1>1
<1>3. FlattenSeq(s) = f[Len(s)]
  BY DEF FlattenSeq
<1> HIDE DEF f
<1>4. f[1] = s[1]
  BY <1>2
<1>5. ASSUME NEW i \in 1 .. Len(s) - 1
      PROVE  f[i + 1] = f[i] \o s[i + 1]
  <2>1. i + 1 \in 1 .. Len(s) /\ i + 1 # 1 /\ (i + 1) - 1 = i
    OBVIOUS
  <2> QED
    BY <1>2, <2>1
<1> QED
  BY <1>3, <1>4, <1>5

\* A sequence of sequences over S, flattened, is one over S.
LEMMA FlattenType ==
  ASSUME NEW S, NEW s \in Seq(Seq(S))
  PROVE  FlattenSeq(s) \in Seq(S)
<1>1. CASE s = <<>>
  BY <1>1 DEF FlattenSeq
<1>2. CASE s # <<>>
  <2>1. Len(s) \in Nat \ {0}
    BY <1>2, EmptySeq
  <2>2. PICK f : /\ FlattenSeq(s) = f[Len(s)]
                 /\ f[1] = s[1]
                 /\ \A i \in 1 .. Len(s) - 1 : f[i + 1] = f[i] \o s[i + 1]
    BY <2>1, FlattenJoins
  <2> DEFINE T == {i \in 1 .. Len(s) : f[i] \in Seq(S)}
  <2>3. 1 \in T
    BY <2>1, <2>2, ElementOfSeq
  <2>4. ASSUME NEW i \in 1 .. Len(s) - 1, i \in T PROVE i + 1 \in T
    <3>1. i + 1 \in 1 .. Len(s) /\ s[i + 1] \in Seq(S)
      BY <2>1, ElementOfSeq
    <3>2. f[i] \o s[i + 1] \in Seq(S)
      BY <2>4, <3>1, ConcatProperties
    <3> QED
      BY <2>2, <3>1, <3>2
  <2>5. 1 .. Len(s) \subseteq T
    <3> HIDE DEF T
    <3> QED
      BY <2>1, <2>3, <2>4, Induct
  <2> QED
    BY <2>1, <2>2, <2>5
<1> QED
  BY <1>1, <1>2

\* Triples, flattened: the r-th element of the j-th is at 3 * (j - 1) + r.
LEMMA FlattenTriples ==
  ASSUME NEW S, NEW s \in Seq(Seq(S)), s # <<>>,
         \A j \in 1 .. Len(s) : Len(s[j]) = 3
  PROVE  /\ FlattenSeq(s) \in Seq(S) /\ Len(FlattenSeq(s)) = 3 * Len(s)
         /\ \A j \in 1 .. Len(s), r \in 1 .. 3 : FlattenSeq(s)[3 * (j - 1) + r] = s[j][r]
<1>1. Len(s) \in Nat \ {0}
  BY EmptySeq
<1>2. PICK f : /\ FlattenSeq(s) = f[Len(s)]
               /\ f[1] = s[1]
               /\ \A i \in 1 .. Len(s) - 1 : f[i + 1] = f[i] \o s[i + 1]
  BY <1>1, FlattenJoins
<1> DEFINE Good(i) == /\ f[i] \in Seq(S) /\ Len(f[i]) = 3 * i
                      /\ \A j \in 1 .. i, r \in 1 .. 3 : f[i][3 * (j - 1) + r] = s[j][r]
           T == {i \in 1 .. Len(s) : Good(i)}
<1>3. 1 \in T
  <2>1. 1 \in 1 .. Len(s) /\ s[1] \in Seq(S)
    BY <1>1, ElementOfSeq
  <2>2. \A j \in 1 .. 1, r \in 1 .. 3 : j = 1 /\ 3 * (j - 1) + r = r
    OBVIOUS
  <2> QED
    BY <1>2, <2>1, <2>2
<1>4. ASSUME NEW i \in 1 .. Len(s) - 1, i \in T PROVE i + 1 \in T
  <2>1. i + 1 \in 1 .. Len(s) /\ s[i + 1] \in Seq(S) /\ Len(s[i + 1]) = 3
    BY <1>1, ElementOfSeq
  <2>2. /\ f[i] \o s[i + 1] \in Seq(S)
        /\ Len(f[i] \o s[i + 1]) = Len(f[i]) + Len(s[i + 1])
        /\ \A x \in 1 .. Len(f[i]) + Len(s[i + 1]) : (f[i] \o s[i + 1])[x] =
                                       IF x <= Len(f[i]) THEN f[i][x] ELSE s[i + 1][x - Len(f[i])]
    BY <1>4, <2>1, ConcatProperties
  <2>3. f[i + 1] = f[i] \o s[i + 1] /\ Len(f[i]) = 3 * i
    BY <1>2, <1>4
  <2>4. 3 * (i + 1) = 3 * i + 3
    OBVIOUS
  <2>5. ASSUME NEW j \in 1 .. i + 1, NEW r \in 1 .. 3
        PROVE  f[i + 1][3 * (j - 1) + r] = s[j][r]
    <3>1. CASE j = i + 1
      <4>1. 3 * (j - 1) + r \in 1 .. 3 * i + 3 /\ ~ (3 * (j - 1) + r <= 3 * i)
            /\ (3 * (j - 1) + r) - 3 * i = r
        BY <3>1
      <4> QED
        BY <2>1, <2>2, <2>3, <3>1, <4>1
    <3>2. CASE j # i + 1
      <4>1. 3 * (j - 1) + r \in 1 .. 3 * i + 3 /\ 3 * (j - 1) + r <= 3 * i /\ j \in 1 .. i
        BY <3>2
      <4> QED
        BY <1>4, <2>1, <2>2, <2>3, <4>1
    <3> QED
      BY <3>1, <3>2
  <2> QED
    BY <2>1, <2>2, <2>3, <2>4, <2>5
<1>5. 1 .. Len(s) \subseteq T
  <2> HIDE DEF T
  <2> QED
    BY <1>1, <1>3, <1>4, Induct
<1>6. Len(s) \in 1 .. Len(s)
  BY <1>1
<1>7. Good(Len(s))
  BY <1>5, <1>6
<1> QED
  BY <1>1, <1>2, <1>7

-----------------------------------------------------------------------------
\* Registers

\* The powers of two that the bits of a register take
LEMMA PowersOfTwo ==
  ASSUME NEW n \in 0 .. 32
  PROVE  2 ^ n \in Nat \ {0} /\ 2 ^ (n + 1) = 2 * 2 ^ n
<1>0. CASE n = 0
  BY <1>0, SMT
<1>1. CASE n = 1
  BY <1>1, SMT
<1>2. CASE n = 2
  BY <1>2, SMT
<1>3. CASE n = 3
  BY <1>3, SMT
<1>4. CASE n = 4
  BY <1>4, SMT
<1>5. CASE n = 5
  BY <1>5, SMT
<1>6. CASE n = 6
  BY <1>6, SMT
<1>7. CASE n = 7
  BY <1>7, SMT
<1>8. CASE n = 8
  BY <1>8, SMT
<1>9. CASE n = 9
  BY <1>9, SMT
<1>10. CASE n = 10
  BY <1>10, SMT
<1>11. CASE n = 11
  BY <1>11, SMT
<1>12. CASE n = 12
  BY <1>12, SMT
<1>13. CASE n = 13
  BY <1>13, SMT
<1>14. CASE n = 14
  BY <1>14, SMT
<1>15. CASE n = 15
  BY <1>15, SMT
<1>16. CASE n = 16
  BY <1>16, SMT
<1>17. CASE n = 17
  BY <1>17, SMT
<1>18. CASE n = 18
  BY <1>18, SMT
<1>19. CASE n = 19
  BY <1>19, SMT
<1>20. CASE n = 20
  BY <1>20, SMT
<1>21. CASE n = 21
  BY <1>21, SMT
<1>22. CASE n = 22
  BY <1>22, SMT
<1>23. CASE n = 23
  BY <1>23, SMT
<1>24. CASE n = 24
  BY <1>24, SMT
<1>25. CASE n = 25
  BY <1>25, SMT
<1>26. CASE n = 26
  BY <1>26, SMT
<1>27. CASE n = 27
  BY <1>27, SMT
<1>28. CASE n = 28
  BY <1>28, SMT
<1>29. CASE n = 29
  BY <1>29, SMT
<1>30. CASE n = 30
  BY <1>30, SMT
<1>31. CASE n = 31
  BY <1>31, SMT
<1>32. CASE n = 32
  BY <1>32, SMT
<1> QED
  BY <1>0, <1>1, <1>2, <1>3, <1>4, <1>5, <1>6, <1>7, <1>8, <1>9, <1>10, <1>11, <1>12,
     <1>13, <1>14, <1>15, <1>16, <1>17, <1>18, <1>19, <1>20, <1>21, <1>22, <1>23,
     <1>24, <1>25, <1>26, <1>27, <1>28, <1>29, <1>30, <1>31, <1>32, SMT

-----------------------------------------------------------------------------
\* The calls, as sequences

EepromOps == [op : {"clear", "set"}, lines : SUBSET {"cs", "din", "clk"}] \cup {Sample, Pause}

\* A bit, and a word of n bits, are sent to the EEPROM through CNTRL alone.
LEMMA SerialBit == \A b : WriteSer(b) \in Seq(EepromOps)
<1> TAKE b
<1> DEFINE a == <<Clear({"din", "clk"})>>
           m == IF b = 1 THEN <<Set({"din"})>> ELSE <<>>
           z == <<Set({"clk"}), Clear({"din", "clk"})>>
<1>1. /\ Clear({"din", "clk"}) \in EepromOps /\ Set({"din"}) \in EepromOps
      /\ Set({"clk"}) \in EepromOps
  BY DEF EepromOps, Clear, Set
<1>2. a \in Seq(EepromOps) /\ m \in Seq(EepromOps) /\ z \in Seq(EepromOps)
  BY <1>1
<1>3. WriteSer(b) = (a \o m) \o z
  BY DEF WriteSer
<1> HIDE DEF a, m, z
<1> QED
  BY <1>2, <1>3, ConcatProperties

LEMMA SerialWord ==
  ASSUME NEW v, NEW n \in Nat
  PROVE  Send(v, n) \in Seq(EepromOps)
<1> DEFINE s == [x \in 1 .. n |-> WriteSer(Bits(v, n)[x])]
<1>1. s \in [1 .. n -> Seq(EepromOps)]
  BY SerialBit
<1>2. s \in Seq(Seq(EepromOps))
  BY <1>1, SeqDef
<1> QED
  BY <1>2, FlattenType DEF Send

\* The EEPROM's calls write no port.
LEMMA EepromScripts ==
  ASSUME NEW a, NEW v
  PROVE  /\ cg400_EEPROMReadDWord(a) \in Seq(EepromOps)
         /\ cg400_EEPROMWriteDWord(a, v) \in Seq(EepromOps)
<1> DEFINE E == Seq(EepromOps)
<1>0. CommandBits \in Nat /\ WordBits \in Nat /\ 2 * WordBits \in Nat
  BY Cg400Assumption DEF CommandBits
<1>1. \A s, t \in E : s \o t \in E
  BY ConcatProperties
<1>2. /\ <<>> \in E /\ <<Set({"cs"})>> \in E /\ <<Clear({"cs"})>> \in E
      /\ <<Clear({"din", "clk"}), Set({"cs"})>> \in E /\ <<Clear({"cs"}), Pause>> \in E
      /\ <<Sample>> \in E
  <2>1. /\ Set({"cs"}) \in EepromOps /\ Clear({"cs"}) \in EepromOps /\ Pause \in EepromOps
        /\ Clear({"din", "clk"}) \in EepromOps /\ Sample \in EepromOps
    BY DEF EepromOps, Clear, Set
  <2> QED
    BY <2>1
<1>3. \A w : Send(w, CommandBits) \in E /\ Send(w, WordBits) \in E
  BY <1>0, SerialWord
<1>4. FlattenSeq([x \in 1 .. 2 * WordBits |-> <<Sample>> \o WriteSer(0)]) \in E
  <2> DEFINE s == [x \in 1 .. 2 * WordBits |-> <<Sample>> \o WriteSer(0)]
  <2>1. s \in [1 .. 2 * WordBits -> Seq(EepromOps)]
    BY <1>1, <1>2, SerialBit
  <2>2. s \in Seq(Seq(EepromOps))
    BY <1>0, <2>1, SeqDef
  <2> QED
    BY <2>2, FlattenType
<1>5. WriteSer(0) \in E
  BY SerialBit
<1> HIDE DEF E
<1>6. WriteEnable \in E /\ \A x, w : WriteWord(x, w) \in E
  BY <1>1, <1>2, <1>3 DEF WriteEnable, WriteWord
<1>7. cg400_EEPROMReadDWord(a) \in E
  BY <1>1, <1>2, <1>3, <1>4, <1>5, <1>6 DEF cg400_EEPROMReadDWord
<1>8. cg400_EEPROMWriteDWord(a, v) \in E
  BY <1>1, <1>2, <1>6 DEF cg400_EEPROMWriteDWord
<1> QED
  BY <1>7, <1>8 DEF E

Port0Ops == {Port0_Zero} \cup {Set_Port0(line, value) : line \in Lines, value \in Int}

\* A sequence given by its elements
LEMMA FromFunction ==
  ASSUME NEW S, NEW n \in Nat, NEW s \in [1 .. n -> S]
  PROVE  s \in Seq(S) /\ Len(s) = n
<1>1. s \in Seq(S)
  BY SeqDef
<1>2. Len(s) \in Nat /\ 1 .. Len(s) = 1 .. n
  BY <1>1, LenProperties
<1> QED
  BY <1>1, <1>2

\* The parts of a sequence made of three
LEMMA ThreeParts ==
  ASSUME NEW S, NEW a \in Seq(S), NEW m \in Seq(S), NEW z \in Seq(S)
  PROVE  /\ (a \o m) \o z \in Seq(S) /\ Len((a \o m) \o z) = Len(a) + Len(m) + Len(z)
         /\ \A x \in 1 .. Len(a) : ((a \o m) \o z)[x] = a[x]
         /\ \A x \in 1 .. Len(m) : ((a \o m) \o z)[Len(a) + x] = m[x]
         /\ \A x \in 1 .. Len(z) : ((a \o m) \o z)[Len(a) + Len(m) + x] = z[x]
<1> DEFINE s == a \o m
<1>1. Len(a) \in Nat /\ Len(m) \in Nat /\ Len(z) \in Nat
  BY LenProperties
<1>2. /\ Len(s) = Len(a) + Len(m)
      /\ \A x \in 1 .. Len(a) + Len(m) : s[x] = IF x <= Len(a) THEN a[x] ELSE m[x - Len(a)]
  BY ConcatProperties
<1>0. s \in Seq(S)
  BY ConcatProperties
<1> HIDE DEF s
<1>3. /\ s \o z \in Seq(S) /\ Len(s \o z) = Len(s) + Len(z)
      /\ \A x \in 1 .. Len(s) + Len(z) : (s \o z)[x] = IF x <= Len(s) THEN s[x] ELSE z[x - Len(s)]
  BY <1>0, ConcatProperties
<1>4. \A x \in 1 .. Len(a) : (s \o z)[x] = a[x]
  BY <1>1, <1>2, <1>3
<1>5. ASSUME NEW x \in 1 .. Len(m) PROVE (s \o z)[Len(a) + x] = m[x]
  <2>1. /\ Len(a) + x \in 1 .. Len(s) + Len(z) /\ Len(a) + x <= Len(s)
        /\ Len(a) + x \in 1 .. Len(a) + Len(m) /\ ~ (Len(a) + x <= Len(a))
        /\ (Len(a) + x) - Len(a) = x
    BY <1>1, <1>2
  <2> QED
    BY <1>2, <1>3, <2>1
<1>6. ASSUME NEW x \in 1 .. Len(z) PROVE (s \o z)[Len(a) + Len(m) + x] = z[x]
  <2>1. /\ Len(a) + Len(m) + x \in 1 .. Len(s) + Len(z) /\ ~ (Len(a) + Len(m) + x <= Len(s))
        /\ (Len(a) + Len(m) + x) - Len(s) = x
    BY <1>1, <1>2
  <2> QED
    BY <1>3, <2>1
<1> QED
  BY <1>1, <1>2, <1>3, <1>4, <1>5, <1>6 DEF s

\* The bits of a word are shifted in, the high one first.
LEMMA LoadScript ==
  ASSUME NEW w \in Nat
  PROVE  LET s == Load_PLL(w)
         IN  /\ s \in Seq(Port0Ops) /\ Len(s) = 67
             /\ s[1] = Set_Port0("PLL_SER_SCLK", 0) /\ s[2] = Set_Port0("PLL_SER_DIN", 0)
             /\ s[3] = Set_Port0("PLL_SER_CS1n", 0) /\ s[67] = Set_Port0("PLL_SER_CS1n", 1)
             /\ \A q \in 0 .. 20 :
                  /\ s[3 * q + 4] = Set_Port0("PLL_SER_DIN", Bit(w, 20 - q))
                  /\ s[3 * q + 5] = Set_Port0("PLL_SER_SCLK", 1)
                  /\ s[3 * q + 6] = Set_Port0("PLL_SER_SCLK", 0)
<1> DEFINE a == <<Set_Port0("PLL_SER_SCLK", 0), Set_Port0("PLL_SER_DIN", 0),
                  Set_Port0("PLL_SER_CS1n", 0)>>
           z == <<Set_Port0("PLL_SER_CS1n", 1)>>
           t == [i \in 1 .. 21 |-> <<Set_Port0("PLL_SER_DIN", Bit(w, 21 - i)),
                                     Set_Port0("PLL_SER_SCLK", 1), Set_Port0("PLL_SER_SCLK", 0)>>]
           m == FlattenSeq(t)
<1>1. \A i \in 1 .. 21 : Bit(w, 21 - i) \in Int
  <2> SUFFICES ASSUME NEW i \in 1 .. 21 PROVE Bit(w, 21 - i) \in Int
    OBVIOUS
  <2>1. 21 - i \in 0 .. 32
    OBVIOUS
  <2>2. 2 ^ (21 - i) \in Nat \ {0}
    BY <2>1, PowersOfTwo
  <2> QED
    BY <2>2, SMT DEF Bit
<1>2. \A v \in Int : /\ Set_Port0("PLL_SER_SCLK", v) \in Port0Ops
                     /\ Set_Port0("PLL_SER_DIN", v) \in Port0Ops
                     /\ Set_Port0("PLL_SER_CS1n", v) \in Port0Ops
  BY DEF Port0Ops, Lines
<1>3. /\ a \in Seq(Port0Ops) /\ Len(a) = 3 /\ z \in Seq(Port0Ops) /\ Len(z) = 1
      /\ a[1] = Set_Port0("PLL_SER_SCLK", 0) /\ a[2] = Set_Port0("PLL_SER_DIN", 0)
      /\ a[3] = Set_Port0("PLL_SER_CS1n", 0) /\ z[1] = Set_Port0("PLL_SER_CS1n", 1)
  BY <1>2
<1>4. \A i \in 1 .. 21 :
        /\ t[i] \in Seq(Port0Ops) /\ Len(t[i]) = 3
        /\ t[i][1] = Set_Port0("PLL_SER_DIN", Bit(w, 21 - i))
        /\ t[i][2] = Set_Port0("PLL_SER_SCLK", 1) /\ t[i][3] = Set_Port0("PLL_SER_SCLK", 0)
  <2> TAKE i \in 1 .. 21
  <2>1. t[i] = <<Set_Port0("PLL_SER_DIN", Bit(w, 21 - i)),
                 Set_Port0("PLL_SER_SCLK", 1), Set_Port0("PLL_SER_SCLK", 0)>>
    OBVIOUS
  <2>2. /\ Set_Port0("PLL_SER_DIN", Bit(w, 21 - i)) \in Port0Ops
        /\ Set_Port0("PLL_SER_SCLK", 1) \in Port0Ops /\ Set_Port0("PLL_SER_SCLK", 0) \in Port0Ops
    BY <1>1, <1>2
  <2> HIDE DEF t
  <2> QED
    BY <2>1, <2>2
<1>5. t \in [1 .. 21 -> Seq(Port0Ops)]
  BY <1>4
<1>6. t \in Seq(Seq(Port0Ops)) /\ Len(t) = 21 /\ t # <<>>
  <2> HIDE DEF t
  <2>1. t \in Seq(Seq(Port0Ops)) /\ Len(t) = 21
    BY <1>5, FromFunction
  <2>2. t = <<>> => Len(t) = 0
    OBVIOUS
  <2> QED
    BY <2>1, <2>2
<1>7. Load_PLL(w) = (a \o m) \o z
  BY DEF Load_PLL, PllBits
<1> HIDE DEF a, z, t
<1>8. /\ m \in Seq(Port0Ops) /\ Len(m) = 63
      /\ \A j \in 1 .. 21, r \in 1 .. 3 : m[3 * (j - 1) + r] = t[j][r]
  <2>1. \A j \in 1 .. Len(t) : Len(t[j]) = 3
    BY <1>4, <1>6
  <2>2. /\ m \in Seq(Port0Ops) /\ Len(m) = 3 * Len(t)
        /\ \A j \in 1 .. Len(t), r \in 1 .. 3 : m[3 * (j - 1) + r] = t[j][r]
    BY <1>6, <2>1, FlattenTriples, ZenonT(30)
  <2> QED
    BY <1>6, <2>2
<1> HIDE DEF m
<1>9. /\ Load_PLL(w) \in Seq(Port0Ops)
      /\ Len(Load_PLL(w)) = Len(a) + Len(m) + Len(z)
      /\ \A x \in 1 .. Len(a) : Load_PLL(w)[x] = a[x]
      /\ \A x \in 1 .. Len(m) : Load_PLL(w)[Len(a) + x] = m[x]
      /\ \A x \in 1 .. Len(z) : Load_PLL(w)[Len(a) + Len(m) + x] = z[x]
  <2>1. a \in Seq(Port0Ops) /\ m \in Seq(Port0Ops) /\ z \in Seq(Port0Ops)
    BY <1>3, <1>8
  <2> QED
    BY <1>7, <2>1, ThreeParts
<1>10. /\ Len(Load_PLL(w)) = 67
       /\ \A x \in 1 .. 3 : Load_PLL(w)[x] = a[x]
       /\ \A x \in 1 .. 63 : Load_PLL(w)[3 + x] = m[x]
       /\ \A x \in 1 .. 1 : Load_PLL(w)[3 + 63 + x] = z[x]
  <2>1. Len(a) = 3 /\ Len(m) = 63 /\ Len(z) = 1
    BY <1>3, <1>8
  <2> QED
    BY <1>9, <2>1
<1>11. ASSUME NEW q \in 0 .. 20
       PROVE  /\ Load_PLL(w)[3 * q + 4] = t[q + 1][1]
              /\ Load_PLL(w)[3 * q + 5] = t[q + 1][2]
              /\ Load_PLL(w)[3 * q + 6] = t[q + 1][3]
  <2>1. q + 1 \in 1 .. 21
    OBVIOUS
  <2>2. ASSUME NEW r \in 1 .. 3
        PROVE  Load_PLL(w)[3 + (3 * ((q + 1) - 1) + r)] = t[q + 1][r]
    <3>1. 3 * ((q + 1) - 1) + r \in 1 .. 63
      OBVIOUS
    <3>2. m[3 * ((q + 1) - 1) + r] = t[q + 1][r]
      BY <1>8, <2>1, ZenonT(30)
    <3> QED
      BY <1>10, <3>1, <3>2
  <2>3. /\ 3 * q + 4 = 3 + (3 * ((q + 1) - 1) + 1)
        /\ 3 * q + 5 = 3 + (3 * ((q + 1) - 1) + 2)
        /\ 3 * q + 6 = 3 + (3 * ((q + 1) - 1) + 3)
    OBVIOUS
  <2>4. 1 \in 1 .. 3 /\ 2 \in 1 .. 3 /\ 3 \in 1 .. 3
    OBVIOUS
  <2> QED
    BY <2>2, <2>3, <2>4
<1>12. ASSUME NEW q \in 0 .. 20
       PROVE  /\ Load_PLL(w)[3 * q + 4] = Set_Port0("PLL_SER_DIN", Bit(w, 20 - q))
              /\ Load_PLL(w)[3 * q + 5] = Set_Port0("PLL_SER_SCLK", 1)
              /\ Load_PLL(w)[3 * q + 6] = Set_Port0("PLL_SER_SCLK", 0)
  <2>1. q + 1 \in 1 .. 21 /\ 21 - (q + 1) = 20 - q
    OBVIOUS
  <2> QED
    BY <1>4, <1>11, <2>1
<1>13. /\ Load_PLL(w)[1] = a[1] /\ Load_PLL(w)[2] = a[2] /\ Load_PLL(w)[3] = a[3]
       /\ Load_PLL(w)[67] = z[1]
  <2>1. 3 + 63 + 1 = 67 /\ 1 \in 1 .. 3 /\ 2 \in 1 .. 3 /\ 3 \in 1 .. 3 /\ 1 \in 1 .. 1
    OBVIOUS
  <2> QED
    BY <1>10, <2>1
<1> QED
  BY <1>3, <1>9, <1>10, <1>12, <1>13

\* A word is its two halves.
LEMMA Join ==
  ASSUME NEW w \in Nat, NEW h \in Nat \ {0}
  PROVE  \E q, r \in Nat : w \div h = q /\ w % h = r /\ q * h + r = w
<1> DEFINE q == w \div h
           r == w % h
<1>1. w = h * q + r
  BY SMT
<1>2. r \in Nat
  BY SMT
<1>3. q \in Nat
  BY SMT
<1>5. w \div h = q /\ w % h = r
  OBVIOUS
<1> HIDE DEF q, r
<1>4. q * h + r = w
  BY <1>1, <1>2, <1>3, SMT
<1> QED
  BY <1>2, <1>3, <1>4, <1>5

\* A shift register after the next bit
Shift(shift, bit) == (2 * shift + bit) % 2 ^ PllBits

\* A bit shifted in adds one to the bits held.
LEMMA ShiftIn ==
  ASSUME NEW s \in Nat, NEW w \in Nat, NEW q \in 0 .. 20, Holds(s, w, q)
  PROVE  Holds(Shift(s, Bit(w, 20 - q)), w, q + 1)
<1> SUFFICES ASSUME NEW b, b = (w \div 2 ^ (20 - q)) % 2, s % 2 ^ q = w \div 2 ^ (21 - q)
             PROVE  ((2 * s + b) % 2 ^ 21) % 2 ^ (q + 1) = w \div 2 ^ (21 - (q + 1))
  BY DEF Holds, Shift, Bit, PllBits
<1>0. CASE q = 0
  BY <1>0, SMT
<1>1. CASE q = 1
  BY <1>1, SMT
<1>2. CASE q = 2
  BY <1>2, SMT
<1>3. CASE q = 3
  BY <1>3, SMT
<1>4. CASE q = 4
  BY <1>4, SMT
<1>5. CASE q = 5
  BY <1>5, SMT
<1>6. CASE q = 6
  BY <1>6, SMT
<1>7. CASE q = 7
  BY <1>7, SMT
<1>8. CASE q = 8
  BY <1>8, SMT
<1>9. CASE q = 9
  BY <1>9, SMT
<1>10. CASE q = 10
  BY <1>10, SMT
<1>11. CASE q = 11
  BY <1>11, SMT
<1>12. CASE q = 12
  BY <1>12, SMT
<1>13. CASE q = 13
  BY <1>13, SMT
<1>14. CASE q = 14
  BY <1>14, SMT
<1>15. CASE q = 15
  BY <1>15, SMT
<1>16. CASE q = 16
  BY <1>16, SMT
<1>17. CASE q = 17
  BY <1>17, SMT
<1>18. CASE q = 18
  BY <1>18, SMT
<1>19. CASE q = 19
  BY <1>19, SMT
<1>20. CASE q = 20
  BY <1>20, SMT
<1> QED
  BY <1>0, <1>1, <1>2, <1>3, <1>4, <1>5, <1>6, <1>7, <1>8, <1>9, <1>10, <1>11,
     <1>12, <1>13, <1>14, <1>15, <1>16, <1>17, <1>18, <1>19, <1>20, SMT

\* A quotient rounded up
LEMMA Ceil ==
  ASSUME NEW a \in Nat, NEW f \in Nat \ {0}, NEW k \in Nat
  PROVE  k * f >= a <=> k >= (a + f - 1) \div f
  BY SMT

\* Scale is the square of a half.
LEMMA Square ==
  ASSUME NEW n \in 1 .. 16
  PROVE  2 ^ (2 * n) = 2 ^ n * 2 ^ n /\ 2 ^ n \in Nat \ {0}
<1>1. CASE n = 1
  BY <1>1, SMT
<1>2. CASE n = 2
  BY <1>2, SMT
<1>3. CASE n = 3
  BY <1>3, SMT
<1>4. CASE n = 4
  BY <1>4, SMT
<1>5. CASE n = 5
  BY <1>5, SMT
<1>6. CASE n = 6
  BY <1>6, SMT
<1>7. CASE n = 7
  BY <1>7, SMT
<1>8. CASE n = 8
  BY <1>8, SMT
<1>9. CASE n = 9
  BY <1>9, SMT
<1>10. CASE n = 10
  BY <1>10, SMT
<1>11. CASE n = 11
  BY <1>11, SMT
<1>12. CASE n = 12
  BY <1>12, SMT
<1>13. CASE n = 13
  BY <1>13, SMT
<1>14. CASE n = 14
  BY <1>14, SMT
<1>15. CASE n = 15
  BY <1>15, SMT
<1>16. CASE n = 16
  BY <1>16, SMT
<1> QED
  BY <1>1, <1>2, <1>3, <1>4, <1>5, <1>6, <1>7, <1>8, <1>9, <1>10, <1>11, <1>12,
     <1>13, <1>14, <1>15, <1>16, SMT


\* cg400_initialize clears the port, deselects the PLL and loads its three words.
LEMMA InitScript ==
  LET s == cg400_initialize
  IN  /\ Len(s) = 205
      /\ s[1] = Port0_Zero /\ s[2] = Set_Port0("DDS_RST", 1) /\ s[3] = Set_Port0("STRP", 0)
      /\ s[4] = Set_Port0("PLL_SER_CS1n", 1)
      /\ \A j \in 0 .. 2, k \in 1 .. 67 : s[4 + 67 * j + k] = Load_PLL(PllWord(j))[k]
<1> DEFINE h == <<Port0_Zero, Set_Port0("DDS_RST", 1), Set_Port0("STRP", 0),
                  Set_Port0("PLL_SER_CS1n", 1)>>
           l0 == Load_PLL(PllWord(0))
           l1 == Load_PLL(PllWord(1))
           l2 == Load_PLL(PllWord(2))
           s == (h \o l0) \o l1
<1>1. \A j \in 0 .. 2 : PllWord(j) \in Nat
  BY DEF PllWord, Function_LTCH, R_Counter, N_Counter
<1>2. \A j \in 0 .. 2 : Load_PLL(PllWord(j)) \in Seq(Port0Ops) /\ Len(Load_PLL(PllWord(j))) = 67
  BY <1>1, LoadScript
<1>3. /\ h \in Seq(Port0Ops) /\ Len(h) = 4
      /\ h[1] = Port0_Zero /\ h[2] = Set_Port0("DDS_RST", 1) /\ h[3] = Set_Port0("STRP", 0)
      /\ h[4] = Set_Port0("PLL_SER_CS1n", 1)
  BY DEF Port0Ops, Lines
<1>4. cg400_initialize = s \o l2
  BY DEF cg400_initialize, PllWord
<1>5. /\ l0 \in Seq(Port0Ops) /\ l1 \in Seq(Port0Ops) /\ l2 \in Seq(Port0Ops)
  BY <1>2
<1>17. Len(l0) = 67 /\ Len(l1) = 67 /\ Len(l2) = 67
  BY <1>2
<1> HIDE DEF h, l0, l1, l2
<1>6. h \in Seq(Port0Ops)
  BY <1>3
<1>7. /\ s \in Seq(Port0Ops) /\ Len(s) = Len(h) + Len(l0) + Len(l1)
      /\ \A x \in 1 .. Len(h) : s[x] = h[x]
      /\ \A x \in 1 .. Len(l0) : s[Len(h) + x] = l0[x]
      /\ \A x \in 1 .. Len(l1) : s[Len(h) + Len(l0) + x] = l1[x]
  BY <1>5, <1>6, ThreeParts, SMTT(20)
<1>15. Len(h) = 4 /\ Len(l0) = 67 /\ Len(l1) = 67 /\ Len(l2) = 67
  BY <1>3, <1>17
<1> HIDE DEF s
<1>16. Len(s) = 138
  <2>1. Len(s) = Len(h) + Len(l0) + Len(l1)
    BY <1>7
  <2> QED
    BY <1>15, <2>1
<1>8. /\ \A x \in 1 .. 4 : s[x] = h[x]
      /\ \A x \in 1 .. 67 : s[4 + x] = l0[x] /\ s[4 + 67 + x] = l1[x]
  BY <1>7, <1>15
<1>9. s \in Seq(Port0Ops)
  BY <1>7
<1>10. /\ Len(s \o l2) = Len(s) + Len(l2)
       /\ \A x \in 1 .. Len(s) + Len(l2) : (s \o l2)[x] =
                                             IF x <= Len(s) THEN s[x] ELSE l2[x - Len(s)]
  BY <1>5, <1>9, ConcatProperties
<1>11. /\ Len(cg400_initialize) = 205
       /\ \A x \in 1 .. 205 : cg400_initialize[x] = IF x <= 138 THEN s[x] ELSE l2[x - 138]
  <2>1. Len(s) = 138 /\ Len(l2) = 67 /\ Len(s) + Len(l2) = 205
    BY <1>15, <1>16
  <2>2. \A x \in 1 .. 205 : (s \o l2)[x] = IF x <= 138 THEN s[x] ELSE l2[x - 138]
    <3> SUFFICES ASSUME NEW x \in 1 .. 205
                 PROVE  (s \o l2)[x] = IF x <= 138 THEN s[x] ELSE l2[x - 138]
      OBVIOUS
    <3>1. (s \o l2)[x] = IF x <= Len(s) THEN s[x] ELSE l2[x - Len(s)]
      <4>1. x \in 1 .. Len(s) + Len(l2)
        BY <2>1
      <4> QED
        BY <1>10, <4>1
    <3> QED
      BY <2>1, <3>1
  <2>3. Len(s \o l2) = 205
    BY <1>10, <2>1
  <2> QED
    BY <1>4, <2>2, <2>3
<1>12. ASSUME NEW k \in 1 .. 67
       PROVE  /\ cg400_initialize[4 + k] = l0[k]
              /\ cg400_initialize[71 + k] = l1[k]
              /\ cg400_initialize[138 + k] = l2[k]
  <2>1. /\ 4 + k \in 1 .. 205 /\ 4 + k <= 138 /\ 71 + k \in 1 .. 205 /\ 71 + k <= 138
        /\ 138 + k \in 1 .. 205 /\ ~ (138 + k <= 138) /\ (138 + k) - 138 = k /\ 4 + 67 + k = 71 + k
    OBVIOUS
  <2> QED
    BY <1>8, <1>11, <2>1
<1>13. ASSUME NEW j \in 0 .. 2, NEW k \in 1 .. 67
       PROVE  cg400_initialize[4 + 67 * j + k] = Load_PLL(PllWord(j))[k]
  <2>1. CASE j = 0
    <3>1. 4 + 67 * j + k = 4 + k
      BY <2>1
    <3> QED
      BY <1>12, <2>1, <3>1 DEF l0
  <2>2. CASE j = 1
    <3>1. 4 + 67 * j + k = 71 + k
      BY <2>2
    <3> QED
      BY <1>12, <2>2, <3>1 DEF l1
  <2>3. CASE j = 2
    <3>1. 4 + 67 * j + k = 138 + k
      BY <2>3
    <3> QED
      BY <1>12, <2>3, <3>1 DEF l2
  <2> QED
    BY <2>1, <2>2, <2>3
<1>14. /\ cg400_initialize[1] = h[1] /\ cg400_initialize[2] = h[2]
       /\ cg400_initialize[3] = h[3] /\ cg400_initialize[4] = h[4]
  <2>1. /\ 1 \in 1 .. 4 /\ 2 \in 1 .. 4 /\ 3 \in 1 .. 4 /\ 4 \in 1 .. 4
        /\ 1 \in 1 .. 205 /\ 2 \in 1 .. 205 /\ 3 \in 1 .. 205 /\ 4 \in 1 .. 205
        /\ 1 <= 138 /\ 2 <= 138 /\ 3 <= 138 /\ 4 <= 138
    OBVIOUS
  <2> QED
    BY <1>8, <1>11, <2>1
<1> QED
  BY <1>3, <1>11, <1>13, <1>14

-----------------------------------------------------------------------------
\* What a call does

CallsOf(c) ==
  \/ c.name = "initialize" /\ Scripts[c] = cg400_initialize
  \/ /\ c.name = "SetFrequency" /\ c.freq \in Int /\ c.word \in Nat
     /\ Accepts(c.freq) => c.word \in FTWs(c.freq)
     /\ Scripts[c] = IF Accepts(c.freq) THEN cg400_SetFrequency(c.word) ELSE <<>>
  \/ c.name \in {"ReadRAM", "WriteRAM"} /\ \E on \in BOOLEAN : Scripts[c] = <<RamOutput(on)>>
  \/ c.name \in {"ReadDWord", "WriteDWord"} /\ Scripts[c] \in Seq(EepromOps)

\* A request has one of the four kinds of calls.
LEMMA CallKinds == \A c \in UNION Programs : CallsOf(c)
<1> SUFFICES ASSUME NEW c \in UNION Programs PROVE CallsOf(c)
  OBVIOUS
<1>1. c \in Requests
  BY Cg400Assumption
<1>2. Scripts[c] = ScriptOf(c)
  BY DEF Scripts
<1>3. CASE c \in [name : {"initialize", "ReadRAM", "WriteRAM"}]
  BY <1>2, <1>3 DEF ScriptOf, CallsOf, cg400_ReadRAM, cg400_WriteRAM
<1>4. CASE c \in {r \in [name : {"SetFrequency"}, freq : Int, word : Nat] :
                    Accepts(r.freq) => r.word \in FTWs(r.freq)}
  BY <1>2, <1>4 DEF ScriptOf, CallsOf
<1>5. CASE c \in [name : {"ReadDWord"}, addr : Nat]
  <2>1. c.name = "ReadDWord" /\ Scripts[c] = cg400_EEPROMReadDWord(c.addr)
    BY <1>2, <1>5 DEF ScriptOf
  <2> QED
    BY <2>1, EepromScripts DEF CallsOf
<1>6. CASE c \in [name : {"WriteDWord"}, addr : Nat, value : 0 .. 2 ^ (2 * WordBits) - 1]
  <2>1. c.name = "WriteDWord" /\ Scripts[c] = cg400_EEPROMWriteDWord(c.addr, c.value)
    BY <1>2, <1>6 DEF ScriptOf
  <2> QED
    BY <2>1, EepromScripts DEF CallsOf
<1> QED
  BY <1>1, <1>3, <1>4, <1>5, <1>6 DEF Requests

\* The k-th write of the j-th word
LoadWrite(j, k, op) ==
  \/ k = 1 /\ op = Set_Port0("PLL_SER_SCLK", 0)
  \/ k = 2 /\ op = Set_Port0("PLL_SER_DIN", 0)
  \/ k = 3 /\ op = Set_Port0("PLL_SER_CS1n", 0)
  \/ \E q \in 0 .. 20 :
       \/ k = 3 * q + 4 /\ op = Set_Port0("PLL_SER_DIN", Bit(PllWord(j), 20 - q))
       \/ k = 3 * q + 5 /\ op = Set_Port0("PLL_SER_SCLK", 1)
       \/ k = 3 * q + 6 /\ op = Set_Port0("PLL_SER_SCLK", 0)
  \/ k = 67 /\ op = Set_Port0("PLL_SER_CS1n", 1)

\* Load_PLL makes its 67 writes in this order.
LEMMA LoadWrites ==
  ASSUME NEW j \in 0 .. 2, NEW k \in 1 .. 67
  PROVE  LoadWrite(j, k, Load_PLL(PllWord(j))[k])
<1>1. PllWord(j) \in Nat
  BY DEF PllWord, Function_LTCH, R_Counter, N_Counter
<1> DEFINE s == Load_PLL(PllWord(j))
<1>2. /\ s[1] = Set_Port0("PLL_SER_SCLK", 0) /\ s[2] = Set_Port0("PLL_SER_DIN", 0)
      /\ s[3] = Set_Port0("PLL_SER_CS1n", 0) /\ s[67] = Set_Port0("PLL_SER_CS1n", 1)
      /\ \A q \in 0 .. 20 :
           /\ s[3 * q + 4] = Set_Port0("PLL_SER_DIN", Bit(PllWord(j), 20 - q))
           /\ s[3 * q + 5] = Set_Port0("PLL_SER_SCLK", 1)
           /\ s[3 * q + 6] = Set_Port0("PLL_SER_SCLK", 0)
  BY <1>1, LoadScript
<1> SUFFICES LoadWrite(j, k, s[k])
  OBVIOUS
<1> HIDE DEF s
<1>3. CASE k \in {1, 2, 3, 67}
  BY <1>2, <1>3 DEF LoadWrite
<1>4. CASE k \in 4 .. 66
  <2>1. PICK q \in 0 .. 20 : k = 3 * q + 4 \/ k = 3 * q + 5 \/ k = 3 * q + 6
    <3>1. (k - 4) \div 3 \in 0 .. 20
      BY <1>4
    <3>2. LET q == (k - 4) \div 3 IN k = 3 * q + 4 \/ k = 3 * q + 5 \/ k = 3 * q + 6
      BY <1>4
    <3> QED
      BY <3>1, <3>2
  <2> QED
    BY <1>2, <2>1 DEF LoadWrite
<1> QED
  BY <1>3, <1>4

InitWrite(x, op) ==
  \/ x = 1 /\ op = Port0_Zero
  \/ x = 2 /\ op = Set_Port0("DDS_RST", 1)
  \/ x = 3 /\ op = Set_Port0("STRP", 0)
  \/ x = 4 /\ op = Set_Port0("PLL_SER_CS1n", 1)
  \/ \E j \in 0 .. 2, k \in 1 .. 67 : x = 4 + 67 * j + k /\ LoadWrite(j, k, op)

\* cg400_initialize makes its 205 writes in this order.
LEMMA InitWrites ==
  /\ Len(cg400_initialize) = 205
  /\ \A x \in 1 .. 205 : InitWrite(x, cg400_initialize[x])
<1>1. ASSUME NEW x \in 1 .. 205 PROVE InitWrite(x, cg400_initialize[x])
  <2>1. CASE x <= 4
    <3>1. x = 1 \/ x = 2 \/ x = 3 \/ x = 4
      BY <2>1
    <3> QED
      BY <3>1, InitScript DEF InitWrite
  <2>2. CASE x > 4
    <3>1. PICK j \in 0 .. 2, k \in 1 .. 67 : x = 4 + 67 * j + k
      <4>1. /\ (x - 5) \div 67 \in 0 .. 2
            /\ (x - 4) - 67 * ((x - 5) \div 67) \in 1 .. 67
        BY <2>2
      <4>2. x = 4 + 67 * ((x - 5) \div 67) + ((x - 4) - 67 * ((x - 5) \div 67))
        BY <2>2
      <4> QED
        BY <4>1, <4>2
    <3>2. cg400_initialize[x] = Load_PLL(PllWord(j))[k]
      BY <3>1, InitScript
    <3>3. LoadWrite(j, k, cg400_initialize[x])
      BY <3>2, LoadWrites
    <3> QED
      BY <3>1, <3>3 DEF InitWrite
  <2> QED
    BY <2>1, <2>2
<1> QED
  BY <1>1, InitScript

-----------------------------------------------------------------------------
\* The steps

\* Set_Port0(line, value) with its write to the port
Puts(line, value) ==
  /\ Port0_Value' = IF value = 1 THEN Port0_Value \cup {line} ELSE Port0_Value \ {line}
  /\ WritePort0(Port0_Value')

PutsPort(addr, value) ==
  /\ port' = IF hDevice \in Cards THEN [port EXCEPT ![hDevice][addr] = value] ELSE port
  /\ UNCHANGED <<Port0_Value, WGR, port0, pll, dds, rom>>

Loads(j, k) ==
  \/ k = 1 /\ Puts("PLL_SER_SCLK", 0)
  \/ k = 2 /\ Puts("PLL_SER_DIN", 0)
  \/ k = 3 /\ Puts("PLL_SER_CS1n", 0)
  \/ \E q \in 0 .. 20 :
       \/ k = 3 * q + 4 /\ Puts("PLL_SER_DIN", Bit(PllWord(j), 20 - q))
       \/ k = 3 * q + 5 /\ Puts("PLL_SER_SCLK", 1)
       \/ k = 3 * q + 6 /\ Puts("PLL_SER_SCLK", 0)
  \/ k = 67 /\ Puts("PLL_SER_CS1n", 1)

Initializes ==
  /\ call.name = "initialize"
  /\ \/ at = 1 /\ Port0_Value' = {} /\ WritePort0({})
     \/ at = 2 /\ Puts("DDS_RST", 1)
     \/ at = 3 /\ Puts("STRP", 0)
     \/ at = 4 /\ Puts("PLL_SER_CS1n", 1)
     \/ \E j \in 0 .. 2, k \in 1 .. 67 : at = 4 + 67 * j + k /\ Loads(j, k)

SetsFrequency ==
  /\ call.name = "SetFrequency" /\ call.word \in Nat
  /\ \/ call.word = 0 /\ at = 1 /\ Puts("DDS_RST", 1)
     \/ call.word # 0 /\ at = 1 /\ Puts("DDS_RST", 0)
     \/ call.word # 0 /\ at = 2 /\ PutsPort(1, call.word % Halves)
     \/ call.word # 0 /\ at = 3 /\ PutsPort(2, call.word \div Halves)
     \/ call.word # 0 /\ at = 4 /\ Puts("STRP", 1)
     \/ call.word # 0 /\ at = 5 /\ Puts("STRP", 0)

UsesRam ==
  /\ call.name \in {"ReadRAM", "WriteRAM"} /\ at = 1 /\ UNCHANGED Port0_Value
  /\ WritePort0(WGR \ {"OE"}) \/ WritePort0(WGR \cup {"OE"})

UsesEeprom ==
  call.name \in {"ReadDWord", "WriteDWord"} /\ UNCHANGED <<Port0_Value, WGR, clock>>

\* One operation of the call under way
Onward ==
  /\ at \in 1 .. Len(Scripts[call]) /\ at' = at + 1 /\ call \in UNION Programs
  /\ UNCHANGED <<hPlx, hDevice, hist, program, call, board>>
  /\ Initializes \/ SetsFrequency \/ UsesRam \/ UsesEeprom

Operations ==
  \/ ClearLines \/ SetLines \/ SampleBit \/ PauseForWrite
  \/ ZeroPort0 \/ SetPort0 \/ UseRam \/ WritePort

\* An operation is the write the call is at.
LEMMA OneOperation ==
  ASSUME ClockTypeOK, Operations
  PROVE  Onward
<1> DEFINE op == Scripts[call][at]
<1>1. /\ at > 0 /\ at <= Len(Scripts[call]) /\ at' = at + 1
      /\ UNCHANGED <<hPlx, hDevice, hist, program, call, board>>
  BY DEF Operations, Operates, ClearLines, SetLines, SampleBit, PauseForWrite, ZeroPort0,
         SetPort0, UseRam, WritePort
<1>2. at \in Nat /\ call \in UNION Programs
  BY <1>1 DEF ClockTypeOK
<1>3. CallsOf(call)
  BY <1>2, CallKinds
<1>4. op.op \in {"clear", "set", "sample", "pause"} => UNCHANGED <<Port0_Value, WGR, clock>>
  BY DEF Operations, Operates, ClearLines, SetLines, SampleBit, PauseForWrite, ZeroPort0,
         SetPort0, UseRam, WritePort
<1>5. op.op = "zero" => Port0_Value' = {} /\ WritePort0({})
  BY DEF Operations, Operates, ClearLines, SetLines, SampleBit, PauseForWrite, ZeroPort0,
         SetPort0, UseRam, WritePort
<1>6. op.op = "port0" => Puts(op.line, op.value)
  BY DEF Operations, Operates, ClearLines, SetLines, SampleBit, PauseForWrite, ZeroPort0,
         SetPort0, UseRam, WritePort, Puts, Arg
<1>7. op.op = "port" => PutsPort(op.addr, op.value)
  BY DEF Operations, Operates, ClearLines, SetLines, SampleBit, PauseForWrite, ZeroPort0,
         SetPort0, UseRam, WritePort, PutsPort, Arg
<1>8. op.op = "ram" =>
        UNCHANGED Port0_Value /\ (WritePort0(WGR \ {"OE"}) \/ WritePort0(WGR \cup {"OE"}))
  BY DEF Operations, Operates, ClearLines, SetLines, SampleBit, PauseForWrite, ZeroPort0,
         SetPort0, UseRam, WritePort, Arg
<1>9. \A l, v : op = Set_Port0(l, v) => Puts(l, v)
  BY <1>6 DEF Set_Port0
<1> HIDE DEF op
<1>10. CASE call.name = "initialize"
  <2>1. at \in 1 .. 205 /\ op = cg400_initialize[at]
    <3>1. Scripts[call] = cg400_initialize
      BY <1>3, <1>10 DEF CallsOf
    <3>2. Len(cg400_initialize) = 205
      BY InitWrites
    <3> QED
      BY <1>1, <1>2, <3>1, <3>2 DEF op
  <2>2. InitWrite(at, op)
    BY <2>1, InitWrites
  <2>3. ASSUME NEW j \in 0 .. 2, NEW k \in 1 .. 67, LoadWrite(j, k, op)
        PROVE  Loads(j, k)
    BY <1>9, <2>3 DEF LoadWrite, Loads
  <2>4. op = Port0_Zero => Port0_Value' = {} /\ WritePort0({})
    BY <1>5 DEF Port0_Zero
  <2>5. Initializes
    BY <1>9, <1>10, <2>2, <2>3, <2>4 DEF InitWrite, Initializes
  <2> QED
    BY <1>1, <1>2, <2>5 DEF Onward
<1>11. CASE call.name = "SetFrequency"
  <2>1. /\ call.word \in Nat /\ Accepts(call.freq)
        /\ Scripts[call] = cg400_SetFrequency(call.word)
    <3>1. Scripts[call] = <<>> => FALSE
      BY <1>1, <1>2
    <3> QED
      BY <1>3, <1>11, <3>1 DEF CallsOf
  <2>2. \A a, v : op = WritePortW(a, v) => PutsPort(a, v)
    BY <1>7 DEF WritePortW
  <2>3. CASE call.word = 0
    <3>1. Scripts[call] = <<Set_Port0("DDS_RST", 1)>>
      BY <2>1, <2>3 DEF cg400_SetFrequency
    <3>2. at = 1 /\ op = Set_Port0("DDS_RST", 1)
      BY <1>1, <1>2, <3>1 DEF op
    <3> QED
      BY <1>1, <1>2, <1>9, <1>11, <2>1, <2>3, <3>2 DEF SetsFrequency, Onward
  <2>4. CASE call.word # 0
    <3>1. Scripts[call] = <<Set_Port0("DDS_RST", 0), WritePortW(1, call.word % Halves),
                            WritePortW(2, call.word \div Halves), Set_Port0("STRP", 1),
                            Set_Port0("STRP", 0)>>
      BY <2>1, <2>4 DEF cg400_SetFrequency, Halves
    <3>2. /\ at \in 1 .. 5
          /\ at = 1 => op = Set_Port0("DDS_RST", 0)
          /\ at = 2 => op = WritePortW(1, call.word % Halves)
          /\ at = 3 => op = WritePortW(2, call.word \div Halves)
          /\ at = 4 => op = Set_Port0("STRP", 1)
          /\ at = 5 => op = Set_Port0("STRP", 0)
      BY <1>1, <1>2, <3>1 DEF op
    <3>3. at = 1 \/ at = 2 \/ at = 3 \/ at = 4 \/ at = 5
      BY <3>2
    <3> QED
      BY <1>1, <1>2, <1>9, <1>11, <2>1, <2>2, <2>4, <3>2, <3>3 DEF SetsFrequency, Onward
  <2> QED
    BY <2>3, <2>4
<1>12. CASE call.name \in {"ReadRAM", "WriteRAM"}
  <2>1. PICK on \in BOOLEAN : Scripts[call] = <<RamOutput(on)>>
    BY <1>3, <1>12 DEF CallsOf
  <2>2. at = 1 /\ op.op = "ram"
    BY <1>1, <1>2, <2>1 DEF op, RamOutput
  <2> QED
    BY <1>1, <1>2, <1>8, <1>12, <2>2 DEF UsesRam, Onward
<1>13. CASE call.name \in {"ReadDWord", "WriteDWord"}
  <2>1. Scripts[call] \in Seq(EepromOps)
    BY <1>3, <1>13 DEF CallsOf
  <2>2. op \in EepromOps
    BY <1>1, <1>2, <2>1, ElementOfSeq DEF op
  <2>3. op.op \in {"clear", "set", "sample", "pause"}
    BY <2>2 DEF EepromOps, Sample, Pause
  <2> QED
    BY <1>1, <1>2, <1>4, <1>13, <2>3 DEF UsesEeprom, Onward
<1> QED
  BY <1>3, <1>10, <1>11, <1>12, <1>13 DEF CallsOf

\* A step between two operations, or the end of the process
Ends == Exit \/ Kill

Between ==
  \/ \E b \in Boards : cg400_Open(b) \/ cg400_Close(b)
  \/ \E b \in Boards, c \in program : Call(b, c)
  \/ Return
  \/ Ends

\* Every step is one of an operation, or between two.
LEMMA Steps == Next => Operations \/ Between
  BY DEF Next, Step, Operations, Between, Ends

\* Between operations the clock stays, and the copies with it, unless they are lost.
LEMMA BetweenSteps ==
  ASSUME ClockTypeOK, Between
  PROVE  /\ UNCHANGED clock /\ at' \in {0, 1}
         /\ \/ Port0_Value' = {} /\ WGR' = {} /\ ready' = {}
            \/ UNCHANGED <<Port0_Value, WGR>> /\ (at = 0 \/ Return)
<1>1. CASE \E b \in Boards : cg400_Open(b) \/ cg400_Close(b)
  BY <1>1 DEF cg400_Open, cg400_Close
<1>2. CASE \E b \in Boards, c \in program : Call(b, c)
  BY <1>2 DEF Call, lib
<1>3. CASE Return
  BY <1>3 DEF Return, lib
<1>4. CASE Ends
  BY <1>4 DEF Ends, Exit, Kill, Gone
<1> QED
  BY <1>1, <1>2, <1>3, <1>4 DEF Between

PllType == [shift : Registers, latch : [0 .. 3 -> Registers]]

\* The PLL's registers keep their width.
LEMMA PllDrivenType ==
  ASSUME NEW p \in PllType, NEW old, NEW new
  PROVE  PllDriven(p, old, new) \in PllType
<1>1. p.shift \in Registers /\ p.latch \in [0 .. 3 -> Registers] /\ p.shift % 4 \in 0 .. 3
  <2>1. p.shift \in Registers /\ p.latch \in [0 .. 3 -> Registers]
    BY DEF PllType
  <2>2. p.shift \in Nat
    BY <2>1, SMT DEF Registers
  <2> QED
    BY <2>1, <2>2
<1>2. [p EXCEPT !.latch[p.shift % 4] = p.shift] \in PllType
  BY <1>1 DEF PllType
<1>3. ASSUME NEW bit \in {0, 1}
      PROVE  [p EXCEPT !.shift = (2 * p.shift + bit) % 2 ^ PllBits] \in PllType
  <2>1. (2 * p.shift + bit) % 2 ^ PllBits \in Registers
    <3>1. p.shift \in Nat
      BY <1>1, SMT DEF Registers
    <3>2. \A x \in Nat : x % 2 ^ 21 \in 0 .. 2 ^ 21 - 1
      BY SMT
    <3>3. 2 * p.shift + bit \in Nat
      BY <3>1
    <3> QED
      BY <3>2, <3>3 DEF Registers, PllBits
  <2> QED
    BY <2>1 DEF PllType
<1> QED
  BY <1>2, <1>3 DEF PllDriven

\* A write to port 0 reaches the card whose file is open, and no other.
LEMMA PortWritten ==
  ASSUME ClockTypeOK, NEW lines \in SUBSET Lines, WritePort0(lines)
  PROVE  /\ WGR' = lines /\ port' = port
         /\ port0' \in [Cards -> SUBSET Lines] /\ dds' \in [Cards -> Int]
         /\ pll' \in [Cards -> PllType]
         /\ \A c \in Cards : c # hDevice =>
              port0'[c] = port0[c] /\ dds'[c] = dds[c] /\ pll'[c] = pll[c]
         /\ hDevice \in Cards =>
              /\ port0'[hDevice] = lines
              /\ pll'[hDevice] = PllDriven(pll[hDevice], port0[hDevice], lines)
              /\ dds'[hDevice] = IF "STRP" \in port0[hDevice] \ lines
                                 THEN PortWord(hDevice) ELSE dds[hDevice]
<1>1. /\ port0 \in [Cards -> SUBSET Lines] /\ dds \in [Cards -> Int]
      /\ pll \in [Cards -> PllType]
  BY DEF ClockTypeOK, PllType
<1>2. WGR' = lines /\ port' = port
  BY DEF WritePort0
<1>3. CASE hDevice \in Cards
  <2>1. /\ port0' = [port0 EXCEPT ![hDevice] = lines]
        /\ pll' = [pll EXCEPT ![hDevice] = PllDriven(pll[hDevice], port0[hDevice], lines)]
        /\ dds' = [dds EXCEPT ![hDevice] = DdsDriven(dds[hDevice], port0[hDevice], lines,
                                                     port[hDevice][1], port[hDevice][2])]
    BY <1>3 DEF WritePort0
  <2>2. DdsDriven(dds[hDevice], port0[hDevice], lines, port[hDevice][1], port[hDevice][2])
          = IF "STRP" \in port0[hDevice] \ lines THEN PortWord(hDevice) ELSE dds[hDevice]
    BY DEF DdsDriven, PortWord, Halves
  <2>3. PllDriven(pll[hDevice], port0[hDevice], lines) \in PllType
    BY <1>1, <1>3, PllDrivenType
  <2>4. PortWord(hDevice) \in Int
    <3>1. Halves \in Int
      BY Cg400Assumption, Square DEF Halves
    <3>2. port[hDevice][1] \in Int /\ port[hDevice][2] \in Int
      BY <1>3 DEF ClockTypeOK
    <3> QED
      BY <3>1, <3>2 DEF PortWord
  <2>5. dds[hDevice] \in Int
    BY <1>1, <1>3
  <2> QED
    BY <1>1, <1>2, <1>3, <2>1, <2>2, <2>3, <2>4, <2>5
<1>4. CASE hDevice \notin Cards
  <2>1. port0' = port0 /\ pll' = pll /\ dds' = dds
    BY <1>4 DEF WritePort0
  <2> QED
    BY <1>1, <1>2, <1>4, <2>1
<1> QED
  BY <1>3, <1>4

\* What an operation does to the ports
LEMMA PortEffects ==
  ASSUME ClockTypeOK, CopiesOK, Onward
  PROVE  \/ /\ UNCHANGED <<Port0_Value, WGR, clock>>
            /\ call.name \notin {"initialize", "SetFrequency"}
         \/ /\ \E a \in 1 .. 2, v \in Nat : PutsPort(a, v)
            /\ call.name = "SetFrequency" /\ at \in {2, 3}
         \/ \E lines \in SUBSET Lines :
              /\ WritePort0(lines) /\ Port0_Value' = lines \ {"OE"}
              /\ call.name \in {"initialize", "SetFrequency"} => lines = Port0_Value'
              /\ call.name = "SetFrequency" => at \notin {2, 3}
<1>1. Port0_Value \in SUBSET Lines /\ WGR \in SUBSET Lines /\ at \in Nat
      /\ "OE" \notin Port0_Value /\ WGR \ {"OE"} = Port0_Value
  BY DEF ClockTypeOK, CopiesOK
<1> DEFINE Written == \E lines \in SUBSET Lines :
                        /\ WritePort0(lines) /\ Port0_Value' = lines \ {"OE"}
                        /\ call.name \in {"initialize", "SetFrequency"} => lines = Port0_Value'
                        /\ call.name = "SetFrequency" => at \notin {2, 3}
<1>2. ASSUME NEW l \in Lines \ {"OE"}, NEW v, Puts(l, v),
             call.name = "SetFrequency" => at \notin {2, 3}
      PROVE  Written
  <2>1. Port0_Value' \in SUBSET Lines /\ "OE" \notin Port0_Value' /\ WritePort0(Port0_Value')
    BY <1>1, <1>2 DEF Puts
  <2> QED
    BY <1>2, <2>1
<1>3. {"DDS_RST", "STRP", "PLL_SER_CS1n", "PLL_SER_DIN", "PLL_SER_SCLK"} \subseteq Lines \ {"OE"}
  BY DEF Lines
<1>4. CASE Initializes
  <2>0. call.name = "initialize"
    BY <1>4 DEF Initializes
  <2>1. CASE Port0_Value' = {} /\ WritePort0({})
    BY <2>0, <2>1
  <2>2. CASE ~ (Port0_Value' = {} /\ WritePort0({}))
    <3>1. \E l \in Lines \ {"OE"} : \E v : Puts(l, v)
      BY <1>3, <1>4, <2>2 DEF Initializes, Loads
    <3> QED
      BY <1>2, <2>0, <3>1
  <2> QED
    BY <2>1, <2>2
<1>5. CASE SetsFrequency
  <2>1. CASE at \in {2, 3}
    <3>0. PICK q, r \in Nat : call.word \div Halves = q /\ call.word % Halves = r
      <4>1. Halves \in Nat \ {0} /\ call.word \in Nat
        BY <1>5, Cg400Assumption, Square DEF Halves, SetsFrequency
      <4> QED
        BY <4>1, Join
    <3>1. \E a \in 1 .. 2, v \in Nat : PutsPort(a, v)
      BY <1>5, <2>1, <3>0 DEF SetsFrequency
    <3> QED
      BY <1>5, <2>1, <3>1 DEF SetsFrequency
  <2>2. CASE at \notin {2, 3}
    <3>1. \E l \in Lines \ {"OE"} : \E v : Puts(l, v)
      BY <1>3, <1>5, <2>2 DEF SetsFrequency
    <3> QED
      BY <1>2, <2>2, <3>1
  <2> QED
    BY <2>1, <2>2
<1>6. CASE UsesRam
  <2>1. WGR \ {"OE"} \in SUBSET Lines /\ WGR \cup {"OE"} \in SUBSET Lines
    BY <1>1 DEF Lines
  <2>2. /\ (WGR \ {"OE"}) \ {"OE"} = Port0_Value /\ (WGR \cup {"OE"}) \ {"OE"} = Port0_Value
    BY <1>1
  <2> QED
    BY <1>6, <2>1, <2>2 DEF UsesRam
<1>7. CASE UsesEeprom
  BY <1>7 DEF UsesEeprom
<1> QED
  BY <1>4, <1>5, <1>6, <1>7 DEF Onward

-----------------------------------------------------------------------------
\* The types

\* How long the calls are
LEMMA ScriptLengths ==
  ASSUME NEW c \in UNION Programs
  PROVE  /\ Len(Scripts[c]) \in Nat
         /\ c.name = "initialize" => Len(Scripts[c]) = 205
         /\ c.name = "SetFrequency" => Len(Scripts[c]) \in {0, 1, 5} /\ c.freq \in Int
<1>1. CallsOf(c)
  BY CallKinds
<1>2. CASE c.name = "initialize"
  <2>1. Scripts[c] = cg400_initialize
    BY <1>1, <1>2 DEF CallsOf
  <2>2. Len(cg400_initialize) = 205
    BY InitWrites
  <2> QED
    BY <1>2, <2>1, <2>2
<1>3. CASE c.name = "SetFrequency"
  <2>1. /\ Scripts[c] = IF Accepts(c.freq) THEN cg400_SetFrequency(c.word) ELSE <<>>
        /\ c.freq \in Int
    BY <1>1, <1>3 DEF CallsOf
  <2>2. Len(cg400_SetFrequency(c.word)) \in {1, 5}
    BY DEF cg400_SetFrequency
  <2>3. Len(Scripts[c]) \in {0, 1, 5}
    BY <2>1, <2>2
  <2> QED
    BY <1>3, <2>1, <2>3
<1>4. CASE c.name \in {"ReadRAM", "WriteRAM"}
  <2>1. PICK on \in BOOLEAN : Scripts[c] = <<RamOutput(on)>>
    BY <1>1, <1>4 DEF CallsOf
  <2> QED
    BY <1>4, <2>1
<1>5. CASE c.name \in {"ReadDWord", "WriteDWord"}
  <2>1. Scripts[c] \in Seq(EepromOps)
    BY <1>1, <1>5 DEF CallsOf
  <2>2. Len(Scripts[c]) \in Nat
    BY <2>1, LenProperties
  <2> QED
    BY <1>5, <2>2
<1> QED
  BY <1>1, <1>2, <1>3, <1>4, <1>5 DEF CallsOf

\* The types, after an operation
LEMMA TypeOnward ==
  ASSUME ClockTypeOK, CopiesOK, Onward
  PROVE  ClockTypeOK'
<1>1. /\ hDevice' \in Cards \cup {NoFile, Closed} /\ program' \in Programs /\ board' \in Boards
      /\ freq' \in [Boards -> Int] /\ ready' \in SUBSET Boards
  BY DEF Onward, ClockTypeOK, hist
<1>2. at' \in Nat /\ (at' > 0 => call' \in program' /\ at' <= Len(Scripts[call']) + 1)
  <2>1. call \in UNION Programs /\ at \in Nat /\ at > 0
    BY DEF Onward, ClockTypeOK
  <2>2. Len(Scripts[call]) \in Nat
    BY <2>1, ScriptLengths
  <2>3. call' = call /\ program' = program /\ at' = at + 1 /\ at <= Len(Scripts[call])
    BY <2>2 DEF Onward
  <2>4. call \in program
    BY <2>1 DEF ClockTypeOK
  <2> QED
    BY <2>1, <2>2, <2>3, <2>4
<1>3. /\ Port0_Value' \in SUBSET Lines /\ WGR' \in SUBSET Lines
      /\ port0' \in [Cards -> SUBSET Lines] /\ port' \in [Cards -> [1 .. 2 -> Int]]
      /\ dds' \in [Cards -> Int] /\ pll' \in [Cards -> PllType]
  <2>1. CASE UNCHANGED <<Port0_Value, WGR, clock>>
    BY <2>1 DEF ClockTypeOK, PllType, clock
  <2>2. CASE \E a \in 1 .. 2, v \in Nat : PutsPort(a, v)
    <3>1. PICK a \in 1 .. 2, v \in Nat : PutsPort(a, v)
      BY <2>2
    <3>2. port' \in [Cards -> [1 .. 2 -> Int]]
      BY <3>1 DEF PutsPort, ClockTypeOK
    <3> QED
      BY <3>1, <3>2 DEF PutsPort, ClockTypeOK, PllType
  <2>3. CASE \E lines \in SUBSET Lines : WritePort0(lines) /\ Port0_Value' = lines \ {"OE"}
    <3>1. PICK lines \in SUBSET Lines : WritePort0(lines) /\ Port0_Value' = lines \ {"OE"}
      BY <2>3
    <3>2. /\ WGR' = lines /\ port' = port
          /\ port0' \in [Cards -> SUBSET Lines] /\ dds' \in [Cards -> Int]
          /\ pll' \in [Cards -> PllType]
      BY <3>1, PortWritten
    <3>3. port \in [Cards -> [1 .. 2 -> Int]]
      BY DEF ClockTypeOK
    <3> QED
      BY <3>1, <3>2, <3>3
  <2> QED
    BY <2>1, <2>2, <2>3, PortEffects
<1> QED
  BY <1>1, <1>2, <1>3 DEF ClockTypeOK, PllType

\* The types, between two operations
LEMMA TypeBetween ==
  ASSUME ClockTypeOK, Between
  PROVE  ClockTypeOK'
<1>1. /\ UNCHANGED clock /\ at' \in {0, 1}
      /\ \/ Port0_Value' = {} /\ WGR' = {}
         \/ UNCHANGED <<Port0_Value, WGR>>
  BY BetweenSteps
<1>2. /\ Port0_Value' \in SUBSET Lines /\ WGR' \in SUBSET Lines
      /\ port0' \in [Cards -> SUBSET Lines] /\ port' \in [Cards -> [1 .. 2 -> Int]]
      /\ dds' \in [Cards -> Int] /\ pll' \in [Cards -> PllType] /\ at' \in Nat
  BY <1>1 DEF ClockTypeOK, PllType, clock
<1> DEFINE Rest == /\ hDevice' \in Cards \cup {NoFile, Closed}
                   /\ program' \in Programs /\ board' \in Boards
                   /\ freq' \in [Boards -> Int] /\ ready' \in SUBSET Boards
                   /\ at' > 0 => call' \in program' /\ at' <= Len(Scripts[call']) + 1
<1> SUFFICES Rest
  BY <1>2 DEF ClockTypeOK, PllType
<1>3. ASSUME NEW b \in Boards, cg400_Open(b) \/ cg400_Close(b) PROVE Rest
  <2>1. hDevice' \in Cards \cup {NoFile, Closed}
    BY <1>3 DEF cg400_Open, cg400_Close
  <2>2. at' = 0
    BY <1>3 DEF cg400_Open, cg400_Close
  <2> QED
    BY <1>3, <2>1, <2>2 DEF cg400_Open, cg400_Close, hist, ClockTypeOK
<1>4. ASSUME NEW b \in Boards, NEW c \in program, Call(b, c) PROVE Rest
  <2>1. c \in UNION Programs
    BY DEF ClockTypeOK
  <2>2. Len(Scripts[c]) \in Nat
    BY <2>1, ScriptLengths
  <2> QED
    BY <1>4, <2>2 DEF Call, lib, ClockTypeOK
<1>5. CASE Return
  <2>1. at > 0 /\ call \in UNION Programs /\ at' = 0
    BY <1>5 DEF Return, ClockTypeOK
  <2>2. call.name = "SetFrequency" => call.freq \in Int
    BY <2>1, ScriptLengths
  <2>3. ready' \in SUBSET Boards
    BY <1>5 DEF Return, ClockTypeOK
  <2>4. freq' \in [Boards -> Int]
    <3>1. freq \in [Boards -> Int] /\ board \in Boards
      BY DEF ClockTypeOK
    <3>2. CASE call.name = "initialize"
      BY <1>5, <3>1, <3>2 DEF Return
    <3>3. CASE call.name = "SetFrequency" /\ Accepts(call.freq)
      BY <1>5, <2>2, <3>1, <3>3 DEF Return
    <3>4. CASE ~ (call.name = "initialize") /\ ~ (call.name = "SetFrequency" /\ Accepts(call.freq))
      BY <1>5, <3>1, <3>4 DEF Return
    <3> QED
      BY <3>2, <3>3, <3>4
  <2>5. hDevice' = hDevice /\ program' = program /\ board' = board
    BY <1>5 DEF Return, lib
  <2>6. hDevice \in Cards \cup {NoFile, Closed} /\ program \in Programs /\ board \in Boards
    BY DEF ClockTypeOK
  <2> QED
    BY <2>1, <2>3, <2>4, <2>5, <2>6
<1>6. CASE Ends
  <2>1. /\ hDevice' = NoFile /\ at' = 0 /\ ready' = {} /\ freq' = [b \in Boards |-> 0]
        /\ program' = program /\ board' = board
    BY <1>6 DEF Ends, Exit, Kill, Gone
  <2>2. program \in Programs /\ board \in Boards
    BY DEF ClockTypeOK
  <2>3. freq' \in [Boards -> Int] /\ ready' \in SUBSET Boards
    BY <2>1
  <2> QED
    BY <2>1, <2>2, <2>3
<1> HIDE DEF Rest
<1> QED
  BY <1>3, <1>4, <1>5, <1>6 DEF Between

-----------------------------------------------------------------------------
\* The copies of port 0

\* The copies, after an operation
LEMMA CopiesOnward ==
  ASSUME ClockTypeOK, CopiesOK, Onward
  PROVE  CopiesOK'
<1>1. hDevice' = hDevice /\ call' = call /\ at' = at + 1 /\ at \in Nat
  BY DEF Onward, ClockTypeOK
<1>2. CASE /\ UNCHANGED <<Port0_Value, WGR, clock>>
           /\ call.name \notin {"initialize", "SetFrequency"}
  BY <1>1, <1>2 DEF CopiesOK, Under
<1>3. CASE /\ \E a \in 1 .. 2, v \in Nat : PutsPort(a, v)
           /\ call.name = "SetFrequency" /\ at \in {2, 3}
  <2>1. UNCHANGED <<Port0_Value, WGR, port0>>
    BY <1>3 DEF PutsPort
  <2>2. Under("SetFrequency")
    BY <1>3 DEF Under
  <2> QED
    BY <1>1, <2>1, <2>2 DEF CopiesOK
<1>4. ASSUME NEW lines \in SUBSET Lines, WritePort0(lines), Port0_Value' = lines \ {"OE"},
             call.name \in {"initialize", "SetFrequency"} => lines = Port0_Value'
      PROVE  CopiesOK'
  <2>1. WGR' = lines /\ (hDevice \in Cards => port0'[hDevice] = lines)
    BY <1>4, PortWritten
  <2> QED
    BY <1>1, <1>4, <2>1 DEF CopiesOK
<1> QED
  BY <1>2, <1>3, <1>4, PortEffects

\* The copies, between two operations
LEMMA CopiesBetween ==
  ASSUME ClockTypeOK, CopiesOK, Between
  PROVE  CopiesOK'
  BY BetweenSteps DEF CopiesOK, Under

-----------------------------------------------------------------------------
\* The tuning words

\* Two halves in the ports are the word they were taken from.
LEMMA WholeWord ==
  ASSUME ClockTypeOK, NEW c \in Cards, NEW w \in Nat,
         port[c][1] = w % Halves, port[c][2] = w \div Halves
  PROVE  PortWord(c) = w
<1>1. Halves \in Nat \ {0}
  BY Cg400Assumption, Square DEF Halves
<1>2. PICK q, r \in Nat : w \div Halves = q /\ w % Halves = r /\ q * Halves + r = w
  BY <1>1, Join
<1> QED
  BY <1>2 DEF PortWord

\* STRP goes up in the fourth write of cg400_SetFrequency and down in the fifth.
LEMMA StrpOnward ==
  ASSUME ClockTypeOK, WordsOK, Onward
  PROVE  "STRP" \in Port0_Value' <=> (Under("SetFrequency") /\ at = 5)'
<1>1. at \in Nat \ {0} /\ call' = call /\ at' = at + 1
  BY DEF Onward, ClockTypeOK
<1>2. "STRP" \in Port0_Value <=> call.name = "SetFrequency" /\ at = 5
  BY <1>1 DEF WordsOK, Under
<1>3. (Under("SetFrequency") /\ at = 5)' <=> call.name = "SetFrequency" /\ at = 4
  BY <1>1 DEF Under
<1>4. CASE Initializes
  <2>1. call.name = "initialize" /\ "STRP" \notin Port0_Value
    BY <1>2, <1>4 DEF Initializes
  <2>2. "STRP" \notin Port0_Value'
    BY <1>4, <2>1 DEF Initializes, Loads, Puts
  <2> QED
    BY <1>3, <2>1, <2>2
<1>5. CASE SetsFrequency
  <2>1. call.name = "SetFrequency"
    BY <1>5 DEF SetsFrequency
  <2>2. "STRP" \in Port0_Value' <=> at = 4
    BY <1>2, <1>5 DEF SetsFrequency, Puts, PutsPort
  <2> QED
    BY <1>3, <2>1, <2>2
<1>6. CASE UsesRam
  BY <1>2, <1>3, <1>6 DEF UsesRam
<1>7. CASE UsesEeprom
  BY <1>2, <1>3, <1>7 DEF UsesEeprom
<1> QED
  BY <1>4, <1>5, <1>6, <1>7 DEF Onward

\* What the ports and the DDS of a card hold
CardWords(c) ==
  /\ dds[c] \in TuningWords
  /\ "STRP" \in port0[c] => PortWord(c) \in TuningWords

\* What cg400_SetFrequency has written so far
WordSent ==
  Under("SetFrequency") /\ call.word # 0 /\ hDevice \in Cards =>
    /\ at > 2 => port[hDevice][1] = call.word % Halves
    /\ at > 3 => port[hDevice][2] = call.word \div Halves
    /\ at > 5 => dds[hDevice] = call.word

\* The words, after an operation
LEMMA WordsOnward ==
  ASSUME ClockTypeOK, CopiesOK, WordsOK, Onward
  PROVE  WordsOK'
<1>0. /\ \A c \in Cards : CardWords(c)
      /\ WordSent
  BY DEF WordsOK, CardWords, WordSent
<1>1. /\ at \in Nat \ {0} /\ call' = call /\ at' = at + 1 /\ hDevice' = hDevice
      /\ call \in UNION Programs
  BY DEF Onward, ClockTypeOK
<1>2. \A x \in Lines \ {"OE"} : x \in WGR <=> x \in Port0_Value
  BY DEF CopiesOK
<1>3. "STRP" \in Lines \ {"OE"}
  BY DEF Lines
<1>4. CASE /\ UNCHANGED <<Port0_Value, WGR, clock>>
           /\ call.name \notin {"initialize", "SetFrequency"}
  <2>1. \A c \in Cards : CardWords(c)'
    BY <1>0, <1>4 DEF CardWords, PortWord, clock
  <2>2. WordSent'
    BY <1>1, <1>4 DEF WordSent, Under
  <2> QED
    BY <2>1, <2>2, StrpOnward DEF WordsOK, CardWords, WordSent
<1>5. CASE /\ \E a \in 1 .. 2, v \in Nat : PutsPort(a, v)
           /\ call.name = "SetFrequency" /\ at \in {2, 3}
  <2>1. /\ SetsFrequency /\ call.word \in Nat /\ call.word # 0
        /\ at = 2 => PutsPort(1, call.word % Halves)
        /\ at = 3 => PutsPort(2, call.word \div Halves)
    BY <1>5 DEF Onward, Initializes, SetsFrequency, UsesRam, UsesEeprom
  <2>2. /\ UNCHANGED <<Port0_Value, WGR, port0, pll, dds>>
        /\ port' = IF hDevice \in Cards
                   THEN [port EXCEPT ![hDevice][at - 1] = IF at = 2 THEN call.word % Halves
                                                          ELSE call.word \div Halves]
                   ELSE port
    <3>1. CASE at = 2
      <4>1. at - 1 = 1 /\ PutsPort(1, call.word % Halves)
        BY <2>1, <3>1
      <4> QED
        BY <3>1, <4>1 DEF PutsPort
    <3>2. CASE at = 3
      <4>1. at - 1 = 2 /\ at # 2 /\ PutsPort(2, call.word \div Halves)
        BY <2>1, <3>2
      <4> QED
        BY <3>2, <4>1 DEF PutsPort
    <3> QED
      BY <1>5, <3>1, <3>2
  <2>3. Under("SetFrequency") /\ (hDevice \in Cards => "STRP" \notin port0[hDevice])
    <3>1. Under("SetFrequency")
      BY <1>5 DEF Under
    <3>2. "STRP" \notin Port0_Value
      BY <1>5 DEF WordsOK
    <3> QED
      BY <1>2, <1>3, <3>1, <3>2 DEF CopiesOK
  <2>4. port \in [Cards -> [1 .. 2 -> Int]]
    BY DEF ClockTypeOK
  <2>5. ASSUME NEW c \in Cards PROVE CardWords(c)'
    <3>1. CASE c = hDevice
      BY <1>0, <2>2, <2>3, <3>1 DEF CardWords
    <3>2. CASE c # hDevice
      <4>1. port'[c] = port[c]
        BY <2>2, <2>4, <3>2
      <4> QED
        BY <1>0, <2>2, <4>1 DEF CardWords, PortWord
    <3> QED
      BY <3>1, <3>2
  <2>6. WordSent'
    <3> SUFFICES ASSUME hDevice \in Cards
                 PROVE  /\ port'[hDevice][1] = call.word % Halves
                        /\ at = 3 => port'[hDevice][2] = call.word \div Halves
      BY <1>1, <1>5 DEF WordSent
    <3>1. CASE at = 2
      BY <2>2, <2>4, <3>1
    <3>2. CASE at = 3
      <4>1. port[hDevice][1] = call.word % Halves
        BY <1>0, <2>1, <2>3, <3>2 DEF WordSent
      <4> QED
        BY <2>2, <2>4, <3>2, <4>1
    <3> QED
      BY <1>5, <3>1, <3>2
  <2> QED
    BY <2>5, <2>6, StrpOnward DEF WordsOK, CardWords, WordSent
<1>6. ASSUME NEW lines \in SUBSET Lines, WritePort0(lines), Port0_Value' = lines \ {"OE"},
             call.name \in {"initialize", "SetFrequency"} => lines = Port0_Value',
             call.name = "SetFrequency" => at \notin {2, 3}
      PROVE  WordsOK'
  <2>1. /\ port' = port
        /\ \A c \in Cards : c # hDevice => port0'[c] = port0[c] /\ dds'[c] = dds[c]
        /\ hDevice \in Cards =>
             /\ port0'[hDevice] = lines
             /\ dds'[hDevice] = IF "STRP" \in port0[hDevice] \ lines
                                THEN PortWord(hDevice) ELSE dds[hDevice]
    BY <1>6, PortWritten
  <2>2. "STRP" \in lines => Under("SetFrequency") /\ at = 4
    <3>1. "STRP" \in lines => "STRP" \in Port0_Value'
      BY <1>6
    <3> QED
      BY <1>1, <3>1, StrpOnward DEF Under
  <2>3. ASSUME Under("SetFrequency"), at \in {4, 5}
        PROVE  call.word \in Nat /\ call.word # 0
    BY <2>3 DEF Onward, Initializes, SetsFrequency, UsesRam, UsesEeprom, Under
  <2>4. ASSUME Under("SetFrequency"), at \in {4, 5}, hDevice \in Cards
        PROVE  PortWord(hDevice) = call.word
    <3>1. call.word \in Nat /\ call.word # 0
      BY <2>3, <2>4
    <3>2. port[hDevice][1] = call.word % Halves /\ port[hDevice][2] = call.word \div Halves
      BY <1>0, <2>4, <3>1 DEF WordSent
    <3> QED
      BY <2>4, <3>1, <3>2, WholeWord
  <2>5. ASSUME NEW c \in Cards PROVE CardWords(c)'
    <3>1. CASE c # hDevice
      BY <1>0, <2>1, <3>1 DEF CardWords, PortWord
    <3>2. CASE c = hDevice
      <4>1. dds'[c] \in TuningWords
        BY <1>0, <2>1, <3>2 DEF CardWords
      <4>2. "STRP" \in lines => PortWord(c) \in TuningWords
        <5>1. call.name = "SetFrequency" => call.word \in TuningWords
          BY <1>1 DEF TuningWords
        <5> QED
          BY <2>2, <2>4, <3>2, <5>1 DEF Under
      <4> QED
        BY <2>1, <3>2, <4>1, <4>2 DEF CardWords, PortWord
    <3> QED
      BY <3>1, <3>2
  <2>6. WordSent'
    <3>1. CASE call.name # "SetFrequency"
      BY <1>1, <3>1 DEF WordSent, Under
    <3>2. CASE call.name = "SetFrequency"
      <4>1. at = 1 \/ at \in {4, 5}
        BY <1>6, <3>2 DEF Onward, Initializes, SetsFrequency, UsesRam, UsesEeprom
      <4>2. CASE at = 1
        BY <1>1, <4>2 DEF WordSent
      <4>3. CASE at = 4
        BY <1>0, <1>1, <2>1, <3>2, <4>3 DEF WordSent, Under
      <4>4. CASE at = 5
        <5>1. Under("SetFrequency")
          BY <3>2, <4>4 DEF Under
        <5>2. hDevice \in Cards => "STRP" \in port0[hDevice]
          BY <1>2, <1>3, <4>4, <5>1 DEF WordsOK, CopiesOK
        <5>3. hDevice \in Cards => dds'[hDevice] = call.word
          BY <2>1, <2>2, <2>4, <4>4, <5>1, <5>2
        <5> QED
          BY <1>0, <1>1, <2>1, <4>4, <5>1, <5>3 DEF WordSent
      <4> QED
        BY <4>1, <4>2, <4>3, <4>4
    <3> QED
      BY <3>1, <3>2
  <2> QED
    BY <2>5, <2>6, StrpOnward DEF WordsOK, CardWords, WordSent
<1> QED
  BY <1>4, <1>5, <1>6, PortEffects

\* The words, between two operations
LEMMA WordsBetween ==
  ASSUME ClockTypeOK, WordsOK, Between
  PROVE  WordsOK'
<1>1. /\ UNCHANGED clock /\ at' \in {0, 1}
      /\ \/ Port0_Value' = {}
         \/ Port0_Value' = Port0_Value /\ (at = 0 \/ Return)
  BY BetweenSteps
<1>2. at = 0 \/ Return => ~ (Under("SetFrequency") /\ at = 5)
  <2>1. CASE at = 0
    BY <2>1
  <2>2. CASE Return /\ call.name = "SetFrequency"
    <3>1. call \in UNION Programs /\ at = Len(Scripts[call]) + 1
      BY <2>2 DEF Return, ClockTypeOK
    <3>2. Len(Scripts[call]) \in {0, 1, 5}
      BY <2>2, <3>1, ScriptLengths
    <3>3. \A n \in {0, 1, 5} : n + 1 # 5
      OBVIOUS
    <3>4. at # 5
      BY <3>1, <3>2, <3>3
    <3> QED
      BY <3>4
  <2> QED
    BY <2>1, <2>2 DEF Under
<1>3. "STRP" \notin Port0_Value'
  BY <1>1, <1>2 DEF WordsOK
<1>4. \A c \in Cards : CardWords(c)'
  BY <1>1 DEF WordsOK, CardWords, PortWord, clock
<1> QED
  BY <1>1, <1>3, <1>4 DEF WordsOK, CardWords, Under

-----------------------------------------------------------------------------
\* The PLL

\* A write of cg400_initialize, after the first, moves the PLL as the copy changes.
LEMMA PllMoves ==
  ASSUME ClockTypeOK, CopiesOK, Under("initialize"), hDevice \in Cards,
         Port0_Value' \in SUBSET Lines, WritePort0(Port0_Value')
  PROVE  pll'[hDevice] = PllDriven(pll[hDevice], Port0_Value, Port0_Value')
<1>1. pll'[hDevice] = PllDriven(pll[hDevice], port0[hDevice], Port0_Value')
  BY PortWritten
<1>2. port0[hDevice] = WGR /\ WGR \ {"OE"} = Port0_Value
  BY DEF CopiesOK
<1>3. /\ "PLL_SER_CS1n" \in port0[hDevice] <=> "PLL_SER_CS1n" \in Port0_Value
      /\ "PLL_SER_SCLK" \in port0[hDevice] <=> "PLL_SER_SCLK" \in Port0_Value
  BY <1>2
<1> QED
  BY <1>1, <1>3 DEF PllDriven

\* A write that raises neither CS1n nor, while that is low, the clock
LEMMA PllStays ==
  ASSUME ClockTypeOK, CopiesOK, Under("initialize"), hDevice \in Cards,
         Port0_Value' \in SUBSET Lines, WritePort0(Port0_Value'),
         "PLL_SER_CS1n" \in Port0_Value' => "PLL_SER_CS1n" \in Port0_Value,
         "PLL_SER_CS1n" \notin Port0_Value' /\ "PLL_SER_SCLK" \in Port0_Value' =>
           "PLL_SER_SCLK" \in Port0_Value
  PROVE  pll'[hDevice] = pll[hDevice]
  BY PllMoves DEF PllDriven

\* The three words fit the PLL's register.
LEMMA WordsFit ==
  \A j \in 0 .. 2 : PllWord(j) \in Registers /\ PllWord(j) \in Nat
<1>1. \A w \in {146, 1048616, 4001} : w \in 0 .. 2 ^ 21 - 1
  BY SMT
<1>2. \A j \in 0 .. 2 : PllWord(j) \in {146, 1048616, 4001}
  BY DEF PllWord, Function_LTCH, R_Counter, N_Counter
<1> QED
  BY <1>1, <1>2 DEF Registers, PllBits

\* The j-th word is whole in the register, which latches it by its low bits.
LEMMA WordLatched ==
  ASSUME ClockTypeOK, hDevice \in Cards, hDevice' = hDevice, NEW j \in 0 .. 2, Shifted(j, PllBits),
         pll'[hDevice] = [pll[hDevice] EXCEPT !.latch[pll[hDevice].shift % 4] = pll[hDevice].shift],
         Latched(hDevice, j)
  PROVE  Latched(hDevice, j + 1)'
<1>1. pll[hDevice].shift \in Registers /\ pll[hDevice].latch \in [0 .. 3 -> Registers]
  BY DEF ClockTypeOK
<1>2. pll[hDevice].shift = PllWord(j)
  <2>1. pll[hDevice].shift % 2 ^ 21 = PllWord(j) \div 2 ^ (21 - 21)
    BY DEF Shifted, Holds, PllBits
  <2>2. \A x \in 0 .. 2 ^ 21 - 1, w \in 0 .. 2 ^ 21 - 1 : x % 2 ^ 21 = w \div 2 ^ (21 - 21) => x = w
    BY SMT
  <2> QED
    BY <1>1, <2>1, <2>2, WordsFit DEF Registers, PllBits
<1>3. \A i \in 0 .. 2 : PllWord(i) % 4 \in 0 .. 3 /\ (i # j => PllWord(i) % 4 # PllWord(j) % 4)
  <2>1. /\ PllWord(0) = 146 /\ PllWord(1) = 1048616 /\ PllWord(2) = 4001
    BY DEF PllWord, Function_LTCH, R_Counter, N_Counter
  <2>2. PllWord(0) % 4 = 2 /\ PllWord(1) % 4 = 0 /\ PllWord(2) % 4 = 1
    BY <2>1, SMT
  <2> QED
    BY <2>2
<1>4. pll'[hDevice].latch = [pll[hDevice].latch EXCEPT ![PllWord(j) % 4] = PllWord(j)]
  BY <1>1, <1>2
<1>5. ASSUME NEW i \in 0 .. j
      PROVE  pll'[hDevice].latch[PllWord(i) % 4] = PllWord(i)
  <2>1. CASE i = j
    BY <1>1, <1>3, <1>4, <2>1
  <2>2. CASE i # j
    <3>1. i \in 0 .. j - 1 /\ i \in 0 .. 2
      BY <2>2
    <3>2. pll[hDevice].latch[PllWord(i) % 4] = PllWord(i)
      BY <3>1 DEF Latched
    <3> QED
      BY <1>1, <1>3, <1>4, <2>2, <3>1, <3>2
  <2> QED
    BY <2>1, <2>2
<1>6. (j + 1) - 1 = j
  OBVIOUS
<1> QED
  BY <1>5, <1>6 DEF Latched

\* The bit on DIN follows those in the shift register.
LEMMA BitShifted ==
  ASSUME ClockTypeOK, hDevice \in Cards, NEW j \in 0 .. 2, NEW q \in 0 .. 20, Shifted(j, q),
         pll'[hDevice] = [pll[hDevice] EXCEPT
                            !.shift = Shift(pll[hDevice].shift, Bit(PllWord(j), 20 - q))]
  PROVE  Holds(pll'[hDevice].shift, PllWord(j), q + 1)
<1>1. pll[hDevice].shift \in Nat
  <2>1. pll[hDevice].shift \in Registers
    BY DEF ClockTypeOK
  <2> QED
    BY <2>1, SMT DEF Registers
<1>2. pll'[hDevice].shift = Shift(pll[hDevice].shift, Bit(PllWord(j), 20 - q))
  BY DEF ClockTypeOK
<1>3. PllWord(j) \in Nat /\ Holds(pll[hDevice].shift, PllWord(j), q)
  BY WordsFit DEF Shifted
<1> QED
  BY <1>1, <1>2, <1>3, ShiftIn

\* One write of a word
LEMMA LoadStep ==
  ASSUME ClockTypeOK, ClockTypeOK', CopiesOK, Under("initialize"), hDevice' = hDevice,
         NEW j \in 0 .. 2, NEW k \in 1 .. 67, Loading(j, k), Loads(j, k)
  PROVE  /\ k = 67 => Loading(j + 1, 1)'
         /\ k # 67 => Loading(j, k + 1)'
<1>1. Port0_Value' \in SUBSET Lines /\ WritePort0(Port0_Value')
  BY DEF ClockTypeOK, Loads, Puts
<1>2. /\ hDevice \in Cards => Latched(hDevice, j)
      /\ "PLL_SER_CS1n" \in Port0_Value <=> k <= 3
      /\ k \in {2, 3} => "PLL_SER_SCLK" \notin Port0_Value
  BY DEF Loading
<1> DEFINE Same == hDevice \in Cards => pll'[hDevice] = pll[hDevice]
<1>3. Same => /\ hDevice \in Cards => Latched(hDevice, j)'
              /\ \A q \in 0 .. PllBits : Shifted(j, q) => Shifted(j, q)'
  BY <1>2 DEF Latched, Shifted
<1>4. CASE k = 1
  <2>1. Puts("PLL_SER_SCLK", 0)
    BY <1>4 DEF Loads
  <2>2. Same
    BY <1>1, <2>1, PllStays DEF Puts
  <2> QED
    BY <1>2, <1>3, <1>4, <2>1, <2>2 DEF Puts, Loading
<1>5. CASE k = 2
  <2>1. Puts("PLL_SER_DIN", 0)
    BY <1>5 DEF Loads
  <2>2. Same
    BY <1>1, <2>1, PllStays DEF Puts
  <2> QED
    BY <1>2, <1>3, <1>5, <2>1, <2>2 DEF Puts, Loading
<1>6. CASE k = 3
  <2>1. Puts("PLL_SER_CS1n", 0)
    BY <1>6 DEF Loads
  <2>2. Same
    BY <1>1, <2>1, PllStays DEF Puts
  <2>3. Shifted(j, 0)
    <3>1. \A x \in 0 .. 2 ^ 21 - 1, w \in 0 .. 2 ^ 21 - 1 : x % 2 ^ 0 = w \div 2 ^ (21 - 0)
      BY SMT
    <3>2. hDevice \in Cards => pll[hDevice].shift \in Registers
      BY DEF ClockTypeOK
    <3> QED
      BY <3>1, <3>2, WordsFit DEF Shifted, Holds, Registers, PllBits
  <2>4. "PLL_SER_CS1n" \notin Port0_Value' /\ "PLL_SER_SCLK" \notin Port0_Value'
    BY <1>2, <1>6, <2>1 DEF Puts
  <2>5. 0 \in 0 .. PllBits /\ k + 1 = 3 * 0 + 4 /\ k + 1 = 4
    BY <1>6 DEF PllBits
  <2>6. hDevice \in Cards => Latched(hDevice, j)'
    BY <1>3, <2>2
  <2>7. Shifted(j, 0)'
    BY <1>3, <2>2, <2>3, <2>5
  <2>8. Loading(j, k + 1)'
    BY <2>4, <2>5, <2>6, <2>7 DEF Loading
  <2> QED
    BY <1>6, <2>8
<1>7. CASE k > 3
  <2>1. PICK q \in 0 .. PllBits :
          \/ k = 3 * q + 4 /\ "PLL_SER_SCLK" \notin Port0_Value /\ Shifted(j, q)
          \/ /\ q < PllBits /\ k = 3 * q + 5
             /\ "PLL_SER_SCLK" \notin Port0_Value /\ Shifted(j, q)
             /\ "PLL_SER_DIN" \in Port0_Value <=> Bit(PllWord(j), PllBits - 1 - q) = 1
          \/ /\ q < PllBits /\ k = 3 * q + 6
             /\ "PLL_SER_SCLK" \in Port0_Value /\ Shifted(j, q + 1)
    BY <1>7 DEF Loading
  <2>2. q \in 0 .. 21 /\ PllBits = 21 /\ PllBits - 1 - q = 20 - q
    BY DEF PllBits
  <2>3. CASE k = 3 * q + 4 /\ q < 21
    <3>1. Puts("PLL_SER_DIN", Bit(PllWord(j), 20 - q))
      <4>1. \A p \in 0 .. 20 : (k = 3 * p + 4 => p = q) /\ k # 3 * p + 5 /\ k # 3 * p + 6
        BY <2>2, <2>3
      <4>2. k \notin {1, 2, 3, 67}
        BY <2>2, <2>3
      <4> QED
        BY <4>1, <4>2 DEF Loads
    <3>2. "PLL_SER_SCLK" \notin Port0_Value /\ Shifted(j, q) /\ "PLL_SER_CS1n" \notin Port0_Value
      <4>1. k # 3 * q + 5 /\ k # 3 * q + 6
        BY <2>3
      <4> QED
        BY <1>2, <1>7, <2>1, <4>1
    <3>3. /\ "PLL_SER_SCLK" \notin Port0_Value' /\ "PLL_SER_CS1n" \notin Port0_Value'
          /\ "PLL_SER_DIN" \in Port0_Value' <=> Bit(PllWord(j), PllBits - 1 - q) = 1
      BY <2>2, <3>1, <3>2 DEF Puts
    <3>4. Same
      BY <1>1, <3>3, PllStays
    <3>5. Shifted(j, q)' /\ (hDevice \in Cards => Latched(hDevice, j)')
      BY <1>3, <3>2, <3>4
    <3>6. k # 67 /\ k + 1 = 3 * q + 5 /\ k + 1 > 3 /\ ~ (k + 1 <= 3) /\ k + 1 \notin {2, 3}
      BY <2>2, <2>3
    <3> QED
      BY <2>2, <2>3, <3>3, <3>5, <3>6 DEF Loading
  <2>4. CASE k = 3 * q + 5 /\ q < 21
    <3>1. Puts("PLL_SER_SCLK", 1)
      <4>1. \A p \in 0 .. 20 : k # 3 * p + 4 /\ k # 3 * p + 6
        BY <2>2, <2>4
      <4>2. k \notin {1, 2, 3, 67}
        BY <2>2, <2>4
      <4> QED
        BY <4>1, <4>2 DEF Loads
    <3>2. /\ "PLL_SER_SCLK" \notin Port0_Value /\ Shifted(j, q) /\ "PLL_SER_CS1n" \notin Port0_Value
          /\ "PLL_SER_DIN" \in Port0_Value <=> Bit(PllWord(j), 20 - q) = 1
      <4>1. k # 3 * q + 4 /\ k # 3 * q + 6
        BY <2>4
      <4> QED
        BY <1>2, <1>7, <2>1, <2>2, <4>1
    <3>3. /\ "PLL_SER_SCLK" \in Port0_Value' /\ "PLL_SER_CS1n" \notin Port0_Value'
          /\ "PLL_SER_DIN" \in Port0_Value' <=> Bit(PllWord(j), 20 - q) = 1
      BY <3>1, <3>2 DEF Puts
    <3>4. q \in 0 .. 20
      BY <2>2, <2>4
    <3>5. Bit(PllWord(j), 20 - q) \in {0, 1}
      <4>1. 20 - q \in 0 .. 32
        BY <3>4
      <4>2. 2 ^ (20 - q) \in Nat \ {0} /\ PllWord(j) \in Nat
        BY <4>1, PowersOfTwo, WordsFit
      <4> QED
        BY <4>2, SMT DEF Bit
    <3>6. ASSUME hDevice \in Cards
          PROVE  pll'[hDevice] = [pll[hDevice] EXCEPT !.shift =
                                    Shift(pll[hDevice].shift, Bit(PllWord(j), 20 - q))]
      <4>1. pll'[hDevice] = PllDriven(pll[hDevice], Port0_Value, Port0_Value')
        BY <1>1, <3>6, PllMoves
      <4>2. (IF "PLL_SER_DIN" \in Port0_Value' THEN 1 ELSE 0) = Bit(PllWord(j), 20 - q)
        BY <3>3, <3>5
      <4> QED
        BY <3>2, <3>3, <4>1, <4>2 DEF PllDriven, Shift
    <3>7. Shifted(j, q + 1)'
      BY <3>2, <3>4, <3>6, BitShifted DEF Shifted
    <3>8. hDevice \in Cards => Latched(hDevice, j)'
      <4>1. hDevice \in Cards => pll'[hDevice].latch = pll[hDevice].latch
        BY <3>6 DEF ClockTypeOK
      <4> QED
        BY <1>2, <4>1 DEF Latched
    <3>9. k # 67 /\ k + 1 = 3 * q + 6 /\ k + 1 > 3 /\ ~ (k + 1 <= 3) /\ k + 1 \notin {2, 3}
      BY <2>2, <2>4
    <3> QED
      BY <2>2, <2>4, <3>3, <3>7, <3>8, <3>9 DEF Loading
  <2>5. CASE k = 3 * q + 6 /\ q < 21
    <3>1. Puts("PLL_SER_SCLK", 0)
      <4>1. \A p \in 0 .. 20 : k # 3 * p + 4 /\ k # 3 * p + 5
        BY <2>2, <2>5
      <4>2. k \notin {2, 3, 67}
        BY <2>2, <2>5
      <4> QED
        BY <4>1, <4>2 DEF Loads
    <3>2. Shifted(j, q + 1) /\ "PLL_SER_CS1n" \notin Port0_Value
      <4>1. k # 3 * q + 4 /\ k # 3 * q + 5
        BY <2>5
      <4> QED
        BY <1>2, <1>7, <2>1, <4>1
    <3>3. "PLL_SER_SCLK" \notin Port0_Value' /\ "PLL_SER_CS1n" \notin Port0_Value'
      BY <3>1, <3>2 DEF Puts
    <3>4. Same
      BY <1>1, <3>3, PllStays
    <3>5. q + 1 \in 0 .. PllBits
      BY <2>2, <2>5
    <3>6. Shifted(j, q + 1)' /\ (hDevice \in Cards => Latched(hDevice, j)')
      BY <1>3, <3>2, <3>4, <3>5
    <3>7. k # 67 /\ k + 1 = 3 * (q + 1) + 4 /\ k + 1 > 3 /\ ~ (k + 1 <= 3) /\ k + 1 \notin {2, 3}
      BY <2>2, <2>5
    <3> QED
      BY <3>3, <3>5, <3>6, <3>7 DEF Loading
  <2>6. CASE k = 3 * q + 4 /\ q = 21
    <3>0. k = 67 /\ k # 3 * q + 5 /\ k # 3 * q + 6
      BY <2>6
    <3>1. Puts("PLL_SER_CS1n", 1)
      <4>1. \A p \in 0 .. 20 : k # 3 * p + 4 /\ k # 3 * p + 5 /\ k # 3 * p + 6
        BY <3>0
      <4> QED
        BY <3>0, <4>1 DEF Loads
    <3>2. Shifted(j, PllBits) /\ "PLL_SER_CS1n" \notin Port0_Value
      BY <1>2, <1>7, <2>1, <2>2, <2>6, <3>0
    <3>3. "PLL_SER_CS1n" \in Port0_Value'
      BY <3>1 DEF Puts
    <3>4. ASSUME hDevice \in Cards PROVE Latched(hDevice, j + 1)'
      <4>1. pll'[hDevice] = PllDriven(pll[hDevice], Port0_Value, Port0_Value')
        BY <1>1, <3>4, PllMoves
      <4>2. pll'[hDevice] = [pll[hDevice] EXCEPT !.latch[pll[hDevice].shift % 4] = pll[hDevice].shift]
        BY <3>2, <3>3, <4>1 DEF PllDriven
      <4> QED
        BY <1>2, <3>2, <3>4, <4>2, WordLatched
    <3> QED
      BY <3>0, <3>3, <3>4 DEF Loading
  <2> QED
    BY <2>1, <2>2, <2>3, <2>4, <2>5, <2>6
<1> QED
  BY <1>4, <1>5, <1>6, <1>7

\* cg400_initialize loads its three words one after the other.
LoadingSome ==
  \E j \in 0 .. 3, k \in 1 .. 67 :
    at = 4 + 67 * j + k /\ (j = 3 => k = 1) /\ Loading(j, k)

\* The PLL of a card, once initialised
Programmed(b) == Latched(b, 3) /\ "PLL_SER_CS1n" \in port0[b]

\* A write of cg400_initialize leads to the next.
LEMMA LoadingOnward ==
  ASSUME ClockTypeOK, ClockTypeOK', CopiesOK, PllOK, Onward, call.name = "initialize", at >= 4
  PROVE  LoadingSome'
<1>1. at \in Nat /\ at' = at + 1 /\ hDevice' = hDevice /\ Under("initialize") /\ Initializes
  BY DEF Onward, ClockTypeOK, Under, SetsFrequency, UsesRam, UsesEeprom
<1>2. CASE at = 4
  <2>1. Puts("PLL_SER_CS1n", 1)
    <3>1. \A j \in 0 .. 2, k \in 1 .. 67 : at # 4 + 67 * j + k
      BY <1>2
    <3> QED
      BY <1>1, <1>2, <3>1 DEF Initializes
  <2>2. "PLL_SER_CS1n" \in Port0_Value'
    BY <2>1 DEF Puts
  <2>3. Loading(0, 1)'
    BY <2>2 DEF Loading, Latched
  <2>4. at' = 4 + 67 * 0 + 1 /\ 0 \in 0 .. 3 /\ 1 \in 1 .. 67
    BY <1>1, <1>2
  <2> QED
    BY <2>3, <2>4 DEF LoadingSome
<1>3. CASE at > 4
  <2>1. LoadingSome
    BY <1>1, <1>3 DEF PllOK, LoadingSome
  <2>2. PICK j \in 0 .. 2, k \in 1 .. 67 : at = 4 + 67 * j + k /\ Loads(j, k)
    BY <1>1, <1>3 DEF Initializes
  <2>3. Loading(j, k)
    <3>1. \A i \in 0 .. 3, m \in 1 .. 67 : 4 + 67 * i + m = 4 + 67 * j + k => i = j /\ m = k
      OBVIOUS
    <3> QED
      BY <2>1, <2>2, <3>1 DEF LoadingSome
  <2>4. /\ k = 67 => Loading(j + 1, 1)'
        /\ k # 67 => Loading(j, k + 1)'
    BY <1>1, <2>2, <2>3, LoadStep
  <2>5. CASE k = 67
    <3>1. j + 1 \in 0 .. 3 /\ 1 \in 1 .. 67 /\ at' = 4 + 67 * (j + 1) + 1
      BY <1>1, <2>2, <2>5
    <3> QED
      BY <2>4, <2>5, <3>1 DEF LoadingSome
  <2>6. CASE k # 67
    <3>1. j \in 0 .. 3 /\ j # 3 /\ k + 1 \in 1 .. 67 /\ at' = 4 + 67 * j + (k + 1)
      BY <1>1, <2>2, <2>6
    <3> QED
      BY <2>4, <2>6, <3>1 DEF LoadingSome
  <2> QED
    BY <2>5, <2>6
<1> QED
  BY <1>1, <1>2, <1>3

\* The PLL, after an operation
LEMMA PllOnward ==
  ASSUME ClockTypeOK, ClockTypeOK', CopiesOK, PllOK, Onward
  PROVE  PllOK'
<1>1. /\ at \in Nat \ {0} /\ at' = at + 1 /\ hDevice' = hDevice /\ call' = call /\ ready' = ready
      /\ ready \in SUBSET Boards
  BY DEF Onward, ClockTypeOK, hist
<1>2. Under("initialize")' <=> call.name = "initialize"
  BY <1>1 DEF Under
<1>3. Under("initialize")' /\ at' > 4 => LoadingSome'
  BY <1>1, <1>2, LoadingOnward
\* Only cg400_initialize touches CS1n.
<1>4. ASSUME call.name # "initialize"
      PROVE  "PLL_SER_CS1n" \in Port0_Value => "PLL_SER_CS1n" \in Port0_Value'
  BY <1>4 DEF Onward, Initializes, SetsFrequency, UsesRam, UsesEeprom, Puts, PutsPort
<1>5. ready' # {} /\ ~ Under("initialize")' => "PLL_SER_CS1n" \in Port0_Value'
  BY <1>1, <1>2, <1>4 DEF PllOK, Under
<1>6. ASSUME NEW b \in ready, ~ (Under("initialize")' /\ hDevice = b)
      PROVE  Programmed(b)'
  <2>1. b \in Cards /\ Programmed(b)
    BY <1>2, <1>6 DEF PllOK, Programmed, Under
  <2>2. CASE UNCHANGED clock
    BY <2>1, <2>2 DEF Programmed, Latched, clock
  <2>3. CASE \E a \in 1 .. 2, v \in Nat : PutsPort(a, v)
    <3>1. UNCHANGED <<port0, pll>>
      BY <2>3 DEF PutsPort
    <3> QED
      BY <2>1, <3>1 DEF Programmed, Latched
  <2>4. ASSUME NEW lines \in SUBSET Lines, WritePort0(lines), Port0_Value' = lines \ {"OE"}
        PROVE  Programmed(b)'
    <3>1. CASE b # hDevice
      <4>1. port0'[b] = port0[b] /\ pll'[b] = pll[b]
        BY <2>1, <2>4, <3>1, PortWritten
      <4> QED
        BY <2>1, <4>1 DEF Programmed, Latched
    <3>2. CASE b = hDevice
      <4>1. port0'[b] = lines /\ pll'[b] = PllDriven(pll[b], port0[b], lines)
        BY <2>1, <2>4, <3>2, PortWritten
      <4>2. "PLL_SER_CS1n" \in lines
        BY <1>1, <1>2, <1>5, <1>6, <2>4, <3>2
      <4>3. pll'[b] = pll[b]
        BY <2>1, <4>1, <4>2 DEF Programmed, PllDriven
      <4> QED
        BY <2>1, <4>1, <4>2, <4>3 DEF Programmed, Latched
    <3> QED
      BY <3>1, <3>2
  <2> QED
    BY <2>2, <2>3, <2>4, PortEffects
<1>7. \A b \in ready : b \in Cards
  BY DEF PllOK
<1> QED
  BY <1>1, <1>3, <1>5, <1>6, <1>7 DEF PllOK, LoadingSome, Programmed

\* The PLL, between two operations
LEMMA PllBetween ==
  ASSUME ClockTypeOK, CopiesOK, PllOK, Between
  PROVE  PllOK'
<1>1. /\ UNCHANGED clock /\ at' \in {0, 1}
      /\ \/ ready' = {}
         \/ UNCHANGED <<Port0_Value, WGR>> /\ (at = 0 \/ Return)
  BY BetweenSteps
<1>2. ~ Under("initialize")' /\ ~ (at' > 4)
  BY <1>1 DEF Under
<1>3. \A b \in Cards : Programmed(b)' <=> Programmed(b)
  BY <1>1 DEF Programmed, Latched, clock
<1> SUFFICES ASSUME ready' # {}
             PROVE  /\ "PLL_SER_CS1n" \in Port0_Value
                    /\ \A b \in ready' : b \in Cards /\ Programmed(b)
  BY <1>1, <1>2, <1>3 DEF PllOK, Programmed
<1>4. CASE at = 0
  <2>1. ready' \subseteq ready /\ ~ Under("initialize")
    BY <1>4 DEF Between, cg400_Open, cg400_Close, Call, Return, Ends, Exit, Kill,
       Gone, hist, Under
  <2> QED
    BY <2>1 DEF PllOK, Programmed
<1>5. CASE Return
  <2>1. /\ at \in Nat \ {0} /\ call \in UNION Programs /\ at = Len(Scripts[call]) + 1
        /\ board \in Boards /\ hDevice \in Cards \cup {NoFile, Closed}
    BY <1>5 DEF Return, ClockTypeOK
  <2>2. CASE call.name # "initialize"
    <3>1. ready' = ready /\ ~ Under("initialize")
      BY <1>5, <2>2 DEF Return, Under
    <3> QED
      BY <3>1 DEF PllOK, Programmed
  <2>3. CASE call.name = "initialize"
    <3>1. Len(Scripts[call]) = 205
      BY <2>1, <2>3, ScriptLengths
    <3>2. at = 206 /\ Under("initialize")
      BY <2>1, <2>3, <3>1 DEF Under
    <3>3. PICK j \in 0 .. 3, k \in 1 .. 67 : at = 4 + 67 * j + k /\ (j = 3 => k = 1) /\ Loading(j, k)
      BY <3>2 DEF PllOK
    <3>4. j = 3 /\ k = 1
      BY <3>2, <3>3
    <3>5. "PLL_SER_CS1n" \in Port0_Value /\ (hDevice \in Cards => Latched(hDevice, 3))
      BY <3>3, <3>4 DEF Loading
    <3>6. hDevice \in Cards => Programmed(hDevice)
      BY <3>2, <3>5 DEF CopiesOK, Programmed
    <3>7. \A b \in ready : b \in Cards /\ Programmed(b)
      BY <3>6 DEF PllOK, Programmed
    <3>8. ready' = ready \/ (ready' = ready \cup {hDevice} /\ hDevice = board)
      BY <1>5 DEF Return
    <3>9. hDevice = board => hDevice \in Cards
      <4>1. board \in 1 .. 4
        BY <2>1, Cg400Assumption
      <4> QED
        BY <2>1, <4>1 DEF NoFile, Closed
    <3> QED
      BY <3>5, <3>6, <3>7, <3>8, <3>9
  <2> QED
    BY <2>2, <2>3
<1> QED
  BY <1>1, <1>4, <1>5

-----------------------------------------------------------------------------
\* The theorems

\* ClockInv is inductive.
LEMMA ClockStart == Init => ClockInv
<1> SUFFICES ASSUME Init PROVE ClockInv
  OBVIOUS
<1>1. ClockTypeOK
  <2>1. pll \in [Cards -> PllType]
    <3>1. PowerUp \in PllType
      <4>1. 0 \in Registers
        BY SMT DEF Registers, PllBits
      <4> QED
        BY <4>1 DEF PowerUp, PllType
    <3> QED
      BY <3>1 DEF Init
  <2> QED
    BY <2>1 DEF Init, ClockTypeOK, PllType
<1>2. CopiesOK /\ WordsOK /\ PllOK
  BY DEF Init, CopiesOK, WordsOK, PllOK, Under, TuningWords
<1> QED
  BY <1>1, <1>2 DEF ClockInv

LEMMA ClockStep == ClockInv /\ [Next]_vars => ClockInv'
<1> SUFFICES ASSUME ClockInv, [Next]_vars PROVE ClockInv'
  OBVIOUS
<1>0. ClockTypeOK /\ CopiesOK /\ WordsOK /\ PllOK
  BY DEF ClockInv
<1>1. CASE Operations
  <2>1. Onward
    BY <1>0, <1>1, OneOperation
  <2>2. ClockTypeOK'
    BY <1>0, <2>1, TypeOnward
  <2> QED
    BY <1>0, <2>1, <2>2, CopiesOnward, WordsOnward, PllOnward DEF ClockInv
<1>2. CASE Between
  BY <1>0, <1>2, TypeBetween, CopiesBetween, WordsBetween, PllBetween DEF ClockInv
<1>3. CASE UNCHANGED vars
  <2>1. UNCHANGED <<hPlx, hDevice, Port0_Value, WGR, port0, port, pll, dds>>
    BY <1>3 DEF vars, lib, clock
  <2>2. UNCHANGED <<ready, freq, program, call, board, at>>
    BY <1>3 DEF vars, hist, run
  <2>3. ClockTypeOK' /\ CopiesOK'
    BY <1>0, <2>1, <2>2 DEF ClockTypeOK, CopiesOK, Under
  <2>4. WordsOK'
    BY <1>0, <2>1, <2>2 DEF WordsOK, PortWord, Under
  <2>5. PllOK'
    <3>1. \A name : Under(name)' <=> Under(name)
      BY <2>2 DEF Under
    <3>2. \A c, n : Latched(c, n)' <=> Latched(c, n)
      BY <2>1 DEF Latched
    <3>3. \A j, q : Shifted(j, q)' <=> Shifted(j, q)
      BY <2>1 DEF Shifted
    <3>4. \A j, k : Loading(j, k)' <=> Loading(j, k)
      BY <2>1, <3>2, <3>3 DEF Loading
    <3> QED
      BY <1>0, <2>1, <2>2, <3>1, <3>2, <3>4 DEF PllOK
  <2> QED
    BY <2>3, <2>4, <2>5 DEF ClockInv
<1> QED
  BY <1>1, <1>2, <1>3, Steps

\* The types, the copies of port 0, the words in the ports and the PLL's register
THEOREM ClockInvariant == Spec => []ClockInv
  BY ClockStart, ClockStep, PTL DEF Spec

\* The DDS never takes a mix of two tuning words, wherever a program is killed: the
\* ports hold a whole one whenever STRP can fall.
THEOREM WholeWords == Spec => []NoTornWord
<1>1. ClockInv => NoTornWord
  BY DEF ClockInv, WordsOK, NoTornWord, TuningWords
<1> QED
  BY <1>1, ClockInvariant, PTL

\* The PLL of an initialised board holds its three words, whatever was in its shift
\* register before.
THEOREM PllIsProgrammed == Spec => []PllProgrammed
<1>1. ASSUME ClockInv PROVE PllProgrammed
  <2> SUFFICES ASSUME NEW b \in Boards, Resting(b)
               PROVE  \A w \in {Function_LTCH, R_Counter, N_Counter} : pll[b].latch[w % 4] = w
    BY DEF PllProgrammed
  <2>1. Latched(b, 3)
    BY <1>1 DEF ClockInv, PllOK, Resting, Under
  <2>2. \A i \in 0 .. 2 : pll[b].latch[PllWord(i) % 4] = PllWord(i)
    BY <2>1 DEF Latched
  <2>3. PllWord(0) = Function_LTCH /\ PllWord(1) = R_Counter /\ PllWord(2) = N_Counter
    BY DEF PllWord
  <2> QED
    BY <2>2, <2>3
<1> QED
  BY <1>1, ClockInvariant, PTL

-----------------------------------------------------------------------------
\* The frequency, on one board

\* A frequency below full scale gets the smallest tuning word that reaches it.
LEMMA TuningWord ==
  ASSUME NEW f \in Nat, f * Scale <= (Scale - 1) * FullScale, NEW w \in FTWs(f)
  PROVE  /\ \A k \in Nat : k * FullScale >= f * Scale <=> k >= w
         /\ f = 0 <=> w = 0
<1> DEFINE F == (f * Scale + FullScale - 1) \div FullScale
           a == f * Scale
<1>1. Scale \in Nat \ {0} /\ FullScale \in Nat \ {0}
  <2>1. 2 ^ HalfBits \in Nat \ {0} /\ Scale = 2 ^ HalfBits * 2 ^ HalfBits
    BY Cg400Assumption, Square DEF Scale
  <2>2. \A h \in Nat \ {0} : h * h \in Nat \ {0}
    BY SMT
  <2> QED
    BY <2>1, <2>2, Cg400Assumption
<1>2. a \in Nat /\ (f = 0 <=> a = 0)
  <2>1. \A s \in Nat \ {0} : f * s \in Nat /\ (f = 0 <=> f * s = 0)
    BY SMT
  <2> QED
    BY <1>1, <2>1
<1>3. \A k \in Nat : k * FullScale >= a <=> k >= F
  <2> HIDE DEF a
  <2>1. F = (a + FullScale - 1) \div FullScale
    BY DEF a
  <2> QED
    BY <1>1, <1>2, <2>1, Ceil
<1>4. F \in Int
  <2> HIDE DEF a
  <2>1. \A x \in Nat, y \in Nat \ {0} : (x + y - 1) \div y \in Int
    BY SMT
  <2>2. (a + FullScale - 1) \div FullScale \in Int
    BY <1>1, <1>2, <2>1
  <2> QED
    BY <2>2 DEF a
<1>5. FTWs(f) = IF F < Scale THEN {F} ELSE 0 .. Scale - 1
  BY DEF FTWs
<1> HIDE DEF F
<1>6. F < Scale
  <2>1. Scale - 1 \in Nat /\ (Scale - 1) * FullScale >= a
    <3>1. Scale - 1 \in Nat
      BY <1>1
    <3>2. (Scale - 1) * FullScale \in Int
      BY <1>1, <3>1
    <3> QED
      BY <1>2, <3>1, <3>2
  <2>2. Scale - 1 >= F
    BY <1>3, <2>1
  <2> QED
    BY <1>1, <1>4, <2>2
<1>7. w = F
  BY <1>5, <1>6
<1>8. a = 0 <=> F = 0
  <2>1. 0 * FullScale = 0 /\ 0 \in Nat
    BY <1>1
  <2>2. 0 >= a <=> 0 >= F
    BY <1>3, <2>1
  <2>3. F >= 0
    BY <1>1, <1>2, SMT DEF F
  <2> QED
    BY <1>2, <1>4, <2>2, <2>3
<1> QED
  BY <1>2, <1>3, <1>7, <1>8

\* The DDS of a ready board, between the calls that set it
Follows(b) ==
  /\ freq[b] = 0 <=> "DDS_RST" \in Port0_Value
  /\ freq[b] # 0 => /\ freq[b] > 0 /\ freq[b] * Scale <= (Scale - 1) * FullScale
                    /\ dds[b] \in FTWs(freq[b])

\* The DDS, after an operation
LEMMA DdsOnward ==
  ASSUME ClockInv, DdsOK, Onward
  PROVE  DdsOK'
<1>0. ClockTypeOK /\ CopiesOK /\ WordsOK /\ PllOK
  BY DEF ClockInv
<1>1. /\ at \in Nat \ {0} /\ at' = at + 1 /\ hDevice' = hDevice /\ call' = call
      /\ ready' = ready /\ freq' = freq
  BY <1>0 DEF Onward, ClockTypeOK, hist
<1>2. \A b \in ready : b \in Cards /\ hDevice = b /\ port0[b] = WGR
  BY <1>0 DEF PllOK, DdsOK
<1>3. \A b \in ready : port0'[b] = WGR'
  <2>1. CASE UNCHANGED <<Port0_Value, WGR, clock>>
    BY <1>2, <2>1 DEF clock
  <2>2. CASE \E a \in 1 .. 2, v \in Nat : PutsPort(a, v)
    BY <1>2, <2>2 DEF PutsPort
  <2>3. ASSUME NEW lines \in SUBSET Lines, WritePort0(lines)
        PROVE  \A b \in ready : port0'[b] = WGR'
    <3>1. WGR' = lines /\ (hDevice \in Cards => port0'[hDevice] = lines)
      BY <1>0, <2>3, PortWritten
    <3> QED
      BY <1>2, <3>1
  <2> QED
    BY <1>0, <2>1, <2>2, <2>3, PortEffects
<1>4. ASSUME call.name = "initialize", at' > 2 PROVE "DDS_RST" \in Port0_Value'
  <2>1. Initializes
    BY <1>4 DEF Onward, SetsFrequency, UsesRam, UsesEeprom
  <2>2. CASE at = 2
    <3>1. Puts("DDS_RST", 1)
      <4>1. \A j \in 0 .. 2, k \in 1 .. 67 : at # 4 + 67 * j + k
        BY <2>2
      <4> QED
        BY <2>1, <2>2, <4>1 DEF Initializes
    <3> QED
      BY <3>1 DEF Puts
  <2>3. CASE at > 2
    <3>1. "DDS_RST" \in Port0_Value
      BY <1>1, <1>4, <2>3 DEF DdsOK, Under
    <3> QED
      BY <2>1, <2>3, <3>1 DEF Initializes, Loads, Puts
  <2> QED
    BY <1>1, <1>4, <2>2, <2>3
<1>5. ASSUME call.name = "SetFrequency"
      PROVE  "DDS_RST" \in Port0_Value' <=> call.word = 0
  <2>1. SetsFrequency
    BY <1>5 DEF Onward, Initializes, UsesRam, UsesEeprom
  <2>2. CASE at = 1
    BY <2>1, <2>2 DEF SetsFrequency, Puts
  <2>3. CASE at # 1
    <3>1. "DDS_RST" \in Port0_Value <=> call.word = 0
      BY <1>1, <1>5, <2>3 DEF DdsOK, Under
    <3> QED
      BY <2>1, <2>3, <3>1 DEF SetsFrequency, Puts, PutsPort
  <2> QED
    BY <2>2, <2>3
<1>6. ASSUME call.name \notin {"initialize", "SetFrequency"}, NEW b \in ready
      PROVE  Follows(b)'
  <2>1. Follows(b)
    BY <1>6 DEF DdsOK, Follows, Under
  <2>2. Port0_Value' = Port0_Value
    BY <1>6 DEF Onward, Initializes, SetsFrequency, UsesRam, UsesEeprom
  <2>3. dds'[b] = dds[b]
    <3>1. CASE UsesEeprom
      BY <3>1 DEF UsesEeprom, clock
    <3>2. CASE UsesRam
      <4>1. PICK lines \in SUBSET Lines : WritePort0(lines)
        BY <1>0, <1>6, PortEffects, <3>2 DEF UsesRam, ClockTypeOK, Lines
      <4>2. "STRP" \notin port0[b]
        <5>1. "STRP" \notin Port0_Value
          BY <1>0, <1>6 DEF WordsOK, Under
        <5> QED
          BY <1>0, <1>2, <5>1 DEF CopiesOK
      <4> QED
        BY <1>0, <1>2, <4>1, <4>2, PortWritten
    <3> QED
      BY <1>6, <3>1, <3>2 DEF Onward, Initializes, SetsFrequency
  <2> QED
    BY <1>1, <2>1, <2>2, <2>3 DEF Follows
<1> QED
  BY <1>1, <1>2, <1>3, <1>4, <1>5, <1>6 DEF DdsOK, Follows, Under

\* The DDS, between two operations, of which the end of a call is one
LEMMA DdsBetween ==
  ASSUME OneBoard, BelowFullScale, ClockInv, DdsOK, Between
  PROVE  DdsOK'
<1>0. ClockTypeOK /\ CopiesOK /\ WordsOK /\ PllOK
  BY DEF ClockInv
<1>1. /\ UNCHANGED clock /\ at' \in {0, 1}
      /\ \/ ready' = {}
         \/ UNCHANGED <<Port0_Value, WGR>> /\ (at = 0 \/ Return)
  BY <1>0, BetweenSteps
<1>2. \A b \in Boards, c \in Boards : b = c
  BY DEF OneBoard
<1>3. /\ \A b \in ready : b \in Boards /\ b \in Cards /\ hDevice = b /\ port0[b] = WGR
      /\ board \in Boards /\ freq \in [Boards -> Int]
  BY <1>0 DEF PllOK, DdsOK, ClockTypeOK
<1>4. ASSUME NEW b \in ready', at = 0
      PROVE  b \in ready /\ hDevice' = b /\ freq' = freq
  <2>1. ASSUME NEW c \in Boards, cg400_Open(c) \/ cg400_Close(c)
        PROVE  b \in ready /\ hDevice' = b /\ freq' = freq
    <3>1. b \in ready /\ freq' = freq
      BY <1>4, <2>1 DEF cg400_Open, cg400_Close, hist
    <3>2. b = c
      BY <1>2, <1>3, <3>1
    <3>3. cg400_Open(c)
      BY <1>4, <2>1, <3>2 DEF cg400_Close
    <3> QED
      BY <1>3, <3>1, <3>2, <3>3 DEF cg400_Open
  <2>2. CASE \E c \in Boards, d \in program : Call(c, d)
    BY <1>3, <1>4, <2>2 DEF Call, lib
  <2>3. ~ Return
    BY <1>4 DEF Return
  <2>4. CASE Ends
    BY <1>4, <2>4 DEF Ends, Exit, Kill, Gone
  <2> QED
    BY <2>1, <2>2, <2>3, <2>4 DEF Between
<1>5. ASSUME NEW b \in ready', Return
      PROVE  hDevice' = b /\ port0[b] = WGR /\ Follows(b)'
  <2>1. /\ at \in Nat \ {0} /\ call \in UNION Programs /\ at = Len(Scripts[call]) + 1
        /\ UNCHANGED <<Port0_Value, WGR, hDevice, dds>>
        /\ hDevice \in Cards \cup {NoFile, Closed}
    BY <1>0, <1>5 DEF Return, ClockTypeOK, lib, clock
  <2>2. Len(Scripts[call]) \in Nat
    BY <2>1, ScriptLengths
  <2>3. CASE call.name = "initialize"
    <3>1. Len(Scripts[call]) = 205
      BY <2>1, <2>3, ScriptLengths
    <3>2. at > 2 /\ Under("initialize")
      BY <2>1, <2>3, <3>1 DEF Under
    <3>3. b \in ready \/ (b = board /\ hDevice = board)
      BY <1>5, <2>3 DEF Return
    <3>4. b = board /\ hDevice = b
      BY <1>2, <1>3, <3>3
    <3>5. b \in Cards
      <4>1. board \in 1 .. 4
        BY <1>3, Cg400Assumption
      <4> QED
        BY <2>1, <3>4, <4>1 DEF NoFile, Closed
    <3>6. port0[b] = WGR
      BY <1>0, <3>2, <3>4, <3>5 DEF CopiesOK
    <3>7. freq'[b] = 0
      BY <1>3, <1>5, <2>3, <3>4 DEF Return
    <3>8. "DDS_RST" \in Port0_Value
      BY <3>2 DEF DdsOK
    <3> QED
      BY <2>1, <3>4, <3>6, <3>7, <3>8 DEF Follows
  <2>4. CASE call.name # "initialize"
    <3>1. b \in ready
      BY <1>5, <2>4 DEF Return
    <3>2. b = board /\ b \in Boards /\ b \in Cards /\ hDevice = b /\ port0[b] = WGR
      BY <1>2, <1>3, <3>1
    <3>3. CASE call.name = "SetFrequency" /\ Accepts(call.freq)
      <4>1. /\ call.freq \in Int /\ call.word \in Nat /\ call.word \in FTWs(call.freq)
            /\ Scripts[call] = cg400_SetFrequency(call.word)
        <5>1. CallsOf(call)
          BY <2>1, CallKinds
        <5> QED
          BY <3>3, <5>1 DEF CallsOf
      <4>2. call.freq >= 0 /\ call.freq * Scale <= (Scale - 1) * FullScale
        <5>1. call.freq >= 0
          BY <3>3 DEF Accepts
        <5> QED
          BY <2>1, <3>3, <5>1 DEF BelowFullScale
      <4>3. call.freq = 0 <=> call.word = 0
        BY <4>1, <4>2, TuningWord
      <4>4. IF call.word = 0 THEN at = 2 ELSE at = 6
        <5>1. CASE call.word = 0
          BY <2>1, <4>1, <5>1 DEF cg400_SetFrequency
        <5>2. CASE call.word # 0
          BY <2>1, <4>1, <5>2 DEF cg400_SetFrequency
        <5> QED
          BY <5>1, <5>2
      <4>5. Under("SetFrequency")
        BY <3>3, <4>4 DEF Under
      <4>6. "DDS_RST" \in Port0_Value <=> call.word = 0
        BY <4>5 DEF DdsOK
      <4>7. freq'[b] = call.freq
        BY <1>3, <1>5, <3>2, <3>3 DEF Return
      <4>8. call.word # 0 => dds[b] = call.word
        BY <1>0, <3>2, <4>4, <4>5 DEF WordsOK
      <4>9. Follows(b)'
        <5>1. Port0_Value' = Port0_Value /\ dds'[b] = dds[b]
          BY <2>1
        <5>2. call.freq # 0 => /\ call.freq > 0 /\ call.freq * Scale <= (Scale - 1) * FullScale
                               /\ dds[b] \in FTWs(call.freq)
          BY <4>1, <4>2, <4>3, <4>8
        <5>3. call.freq = 0 <=> "DDS_RST" \in Port0_Value
          BY <4>3, <4>6
        <5> QED
          BY <4>7, <5>1, <5>2, <5>3 DEF Follows
      <4> QED
        BY <2>1, <3>2, <4>9
    <3>4. CASE ~ (call.name = "SetFrequency" /\ Accepts(call.freq))
      <4>1. freq'[b] = freq[b]
        BY <1>3, <1>5, <2>4, <3>2, <3>4 DEF Return
      <4>2. ~ Under("initialize") /\ ~ Under("SetFrequency")
        <5>1. CASE call.name = "SetFrequency"
          <6>1. Scripts[call] = <<>>
            <7>1. CallsOf(call)
              BY <2>1, CallKinds
            <7> QED
              BY <3>4, <5>1, <7>1 DEF CallsOf
          <6>2. at = 1
            BY <2>1, <6>1
          <6> QED
            BY <6>2 DEF Under
        <5>2. CASE call.name # "SetFrequency"
          BY <2>4, <5>2 DEF Under
        <5> QED
          BY <5>1, <5>2
      <4>3. Follows(b)
        BY <3>1, <4>2 DEF DdsOK, Follows
      <4> QED
        BY <2>1, <3>2, <4>1, <4>3 DEF Follows
    <3> QED
      BY <3>3, <3>4
  <2> QED
    BY <2>3, <2>4
<1>6. ASSUME NEW b \in ready' PROVE hDevice' = b /\ port0'[b] = WGR' /\ Follows(b)'
  <2>1. UNCHANGED <<Port0_Value, WGR, port0, dds>>
    BY <1>1, <1>6 DEF clock
  <2>2. CASE at = 0
    <3>1. b \in ready /\ hDevice' = b /\ freq' = freq
      BY <1>4, <1>6, <2>2
    <3>2. Follows(b)
      BY <2>2, <3>1 DEF DdsOK, Follows, Under
    <3> QED
      BY <1>3, <2>1, <3>1, <3>2 DEF Follows
  <2>3. CASE Return
    BY <1>5, <1>6, <2>1, <2>3
  <2> QED
    BY <1>1, <1>6, <2>2, <2>3
<1>7. ~ Under("initialize")' /\ ~ Under("SetFrequency")'
  BY <1>1 DEF Under
<1> QED
  BY <1>6, <1>7 DEF DdsOK, Follows

\* With one board and frequencies below full scale, a finished cg400_SetFrequency leaves
\* the smallest tuning word that reaches the frequency in the DDS, and the RAM's use of
\* the same port leaves it there.
THEOREM FrequencyFollowed ==
  ASSUME OneBoard, BelowFullScale
  PROVE  Spec => []DdsFollows
<1>1. Init => DdsOK
  BY DEF Init, DdsOK, Under
<1>2. ClockInv /\ DdsOK /\ [Next]_vars => DdsOK'
  <2> SUFFICES ASSUME ClockInv, DdsOK, [Next]_vars PROVE DdsOK'
    OBVIOUS
  <2>1. CASE Operations
    BY <2>1, OneOperation, DdsOnward DEF ClockInv
  <2>2. CASE Between
    BY <2>2, DdsBetween
  <2>3. CASE UNCHANGED vars
    <3>1. UNCHANGED <<hDevice, Port0_Value, WGR, port0, dds, ready, freq, call, at>>
      BY <2>3 DEF vars, lib, clock, hist, run
    <3> QED
      BY <3>1 DEF DdsOK, Under
  <2> QED
    BY <2>1, <2>2, <2>3, Steps
<1>3. ASSUME ClockInv, DdsOK PROVE DdsFollows
  <2> SUFFICES ASSUME NEW b \in Boards, Resting(b)
               PROVE  /\ freq[b] = 0 <=> "DDS_RST" \in port0[b]
                      /\ freq[b] # 0 =>
                           \A k \in 0 .. Scale - 1 :
                             k * FullScale >= freq[b] * Scale <=> k >= dds[b]
    BY DEF DdsFollows
  <2>1. b \in ready /\ port0[b] = WGR /\ Follows(b)
    BY <1>3 DEF Resting, DdsOK, Follows, Under
  <2>2. freq[b] = 0 <=> "DDS_RST" \in port0[b]
    BY <1>3, <2>1 DEF ClockInv, CopiesOK, Follows
  <2>3. ASSUME freq[b] # 0, NEW k \in 0 .. Scale - 1
        PROVE  k * FullScale >= freq[b] * Scale <=> k >= dds[b]
    <3>1. freq[b] \in Int
      BY <1>3 DEF ClockInv, ClockTypeOK
    <3>2. freq[b] \in Nat /\ freq[b] * Scale <= (Scale - 1) * FullScale /\ dds[b] \in FTWs(freq[b])
      BY <2>1, <2>3, <3>1 DEF Follows
    <3>3. k \in Nat
      OBVIOUS
    <3> QED
      BY <3>2, <3>3, TuningWord
  <2> QED
    BY <2>2, <2>3
<1> QED
  BY <1>1, <1>2, <1>3, ClockInvariant, PTL DEF Spec
=============================================================================
