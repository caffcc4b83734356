------------------------ MODULE Cg400Eeprom_proofs --------------------------
(***************************************************************************)
(* Theorems about Cg400Lib's EEPROM calls, for any programs, any cards and *)
(* an EEPROM of any number of words: a read returns the words stored, and  *)
(* a write stores its words and changes no other. The invariant says, at   *)
(* each operation of a call, how much of which frame has been sent, what   *)
(* the EEPROM has taken, answered and stored by then, and what is left of  *)
(* the call.                                                               *)
(***************************************************************************)
EXTENDS Cg400Lib_proofs

-----------------------------------------------------------------------------
\* The inductive invariant

EepromCall == {"ReadDWord", "WriteDWord"}
Top == 2 ^ WordBits
Mems == [0 .. Words - 1 -> 0 .. Top - 1]
Chips == [in : Seq({0, 1}), mem : Mems, enabled : BOOLEAN, busy : BOOLEAN, out : {0, 1}]

\* The first q bits of the two words from address a on, as a number, and the bit after
\* them
Answer(M, a, q) ==
  IF q <= WordBits
  THEN M[a] \div 2 ^ (WordBits - q)
  ELSE M[a] * 2 ^ (q - WordBits) + M[(a + 1) % Words] \div 2 ^ (2 * WordBits - q)
AnswerBit(M, a, q) == Bits(M[(a + q \div WordBits) % Words], WordBits)[1 + (q % WordBits)]

\* A frame: the bits sent between two falls of chip select, how many of them come before
\* the first sample, after how many writes are enabled, and the address.
EnableFrame ==
  [bits |-> Bits(WEN_Command, CommandBits), first |-> CommandBits + 1, from |-> CommandBits,
   addr |-> 0]
ReadFrame(a) ==
  [bits  |-> [x \in 1 .. CommandBits + 1 + 2 * WordBits |->
                IF x <= CommandBits THEN Bits(READ_Command(a), CommandBits)[x] ELSE 0],
   first |-> CommandBits + 1, from |-> CommandBits + 2 + 2 * WordBits, addr |-> a]
WriteFrame(a, v) ==
  [bits  |-> [x \in 1 .. CommandBits + WordBits |->
                IF x <= CommandBits THEN Bits(WRITE_Command(a), CommandBits)[x]
                ELSE Bits(v, WordBits)[x - CommandBits]],
   first |-> CommandBits + WordBits + 1, from |-> 0, addr |-> 0]

\* The operations of a bit, and of all bits after the first x
BitOps(f, y) == (IF y > f.first THEN <<Sample>> ELSE <<>>) \o WriteSer(f.bits[y])
Rest(f, x) == FlattenSeq([y \in 1 .. Len(f.bits) - x |-> BitOps(f, x + y)])
Samples(f, x) == IF x > f.first THEN x - f.first ELSE 0

\* What is left of a call once chip select has risen and fallen around a frame
Falls(rest) == <<Clear({"cs"})>> \o rest
Frame(f, rest) == <<Set({"cs"})>> \o (Rest(f, 0) \o Falls(rest))
Cleared(s) == <<Clear({"din", "clk"})>> \o s
Pauses(rest) == <<Pause>> \o rest

\* From its k-th operation on, a script goes on as rest.
GoesOn(script, k, rest) ==
  /\ Len(script) = k - 1 + Len(rest)
  /\ \A x \in 1 .. Len(rest) : script[k - 1 + x] = rest[x]

\* These operations of the call are left.
Left(rest) == GoesOn(Scripts[call], at, rest)

\* An EEPROM has taken the first x bits of a frame, and holds M.
Took(chip, f, M, x) ==
  /\ Len(chip.in) = x /\ \A i \in 1 .. x : chip.in[i] = f.bits[i]
  /\ chip.mem = M /\ ~ chip.busy
  /\ x >= f.from => chip.enabled
  /\ x >= f.first => chip.out = AnswerBit(M, f.addr, x - f.first)
Taken(f, M, x) == Took(eeprom[hDevice], f, M, x)

\* The lines of CNTRL, and as much of the answer as x bits bring
Lines3(lines, f, M, x) == cntrl[hDevice] = lines /\ READ_Data = Answer(M, f.addr, Samples(f, x))

\* The data line of a bit
Din(b) == IF b = 1 THEN {"din"} ELSE {}

\* The y-th bit of a frame is being sent: after the bit, K is left.
Clocking(K) == <<Set({"clk"})>> \o Cleared(K)
Setting(b, K) == IF b = 1 THEN <<Set({"din"})>> \o Clocking(K) ELSE Clocking(K)
Sending(b, K) == <<Clear({"din", "clk"})>> \o Setting(b, K)
Sampling(f, y, K) ==
  IF y > f.first THEN <<Sample>> \o Sending(f.bits[y], K) ELSE Sending(f.bits[y], K)

AtBit(f, M, K, y) ==
  LET b == f.bits[y]
  IN \/ /\ Taken(f, M, y - 1) /\ Lines3({"cs"}, f, M, y - 1)
        /\ Left(Sampling(f, y, K))
     \/ /\ Taken(f, M, y - 1) /\ Lines3({"cs"}, f, M, y) /\ Left(Sending(b, K))
     \/ /\ Taken(f, M, y - 1) /\ Lines3({"cs"}, f, M, y)
        /\ b = 1 /\ Left(<<Set({"din"})>> \o Clocking(K))
     \/ /\ Taken(f, M, y - 1) /\ Lines3({"cs"} \cup Din(b), f, M, y) /\ Left(Clocking(K))
     \/ /\ Taken(f, M, y) /\ Lines3({"cs", "clk"} \cup Din(b), f, M, y) /\ Left(Cleared(K))

\* A frame is about to be sent, is being sent, and has been sent.
Before(f, M, K) ==
  /\ Taken(f, M, 0) /\ Lines3({}, f, M, 0)
  /\ Left(Frame(f, K)) \/ Left(Cleared(Frame(f, K)))
Within(f, M, K) == \E y \in 1 .. Len(f.bits) : AtBit(f, M, Rest(f, y) \o Falls(K), y)
After(f, M, K) ==
  /\ Taken(f, M, Len(f.bits)) /\ Lines3({"cs"}, f, M, Len(f.bits)) /\ Left(Falls(K))
Framed(f, M, K) == Before(f, M, K) \/ Within(f, M, K) \/ After(f, M, K)

\* The card's EEPROM is at rest, with contents M.
Rests(c, M) ==
  cntrl[c] = {} /\ eeprom[c].in = <<>> /\ ~ eeprom[c].busy /\ eeprom[c].mem = M

\* A read of the words at a, out of contents M
Reading(a, M) ==
  \/ Framed(EnableFrame, M, Frame(ReadFrame(a), <<>>))
  \/ Framed(ReadFrame(a), M, <<>>)
  \/ Rests(hDevice, M) /\ Left(<<>>) /\ READ_Data = Answer(M, a, 2 * WordBits)

\* A write of hi and lo at a, into contents M
Stored(M, a, v) == [M EXCEPT ![a % Words] = v]
Busy(M, K) ==
  /\ cntrl[hDevice] = {} /\ eeprom[hDevice].in = <<>> /\ eeprom[hDevice].enabled
  /\ eeprom[hDevice].mem = M /\ READ_Data = 0 /\ Left(Pauses(K))

WriteRest(a, v, K) == Cleared(Frame(WriteFrame(a, v), Pauses(K)))
Writing(a, hi, lo, M) ==
  LET M1 == Stored(M, a, hi)
      M2 == Stored(M1, a + 1, lo)
      K1 == WriteRest(a + 1, lo, <<>>)
  IN \/ Framed(EnableFrame, M, WriteRest(a, hi, K1))
     \/ Framed(WriteFrame(a, hi), M, Pauses(K1))
     \/ Busy(M1, K1)
     \/ Framed(WriteFrame(a + 1, lo), M1, Pauses(<<>>))
     \/ Busy(M2, <<>>)
     \/ Rests(hDevice, M2) /\ Left(<<>>)

\* The EEPROM's calls that are not refused
Reads(c) == c.name = "ReadDWord" /\ c.addr \div 2 < Words
Writes(c) == c.name = "WriteDWord" /\ c.addr \div 2 <= Words

\* What a write stores
Written(c, M) ==
  LET a == c.addr \div 2
  IN Stored(Stored(M, a, High(c.value)), a + 1, Low(c.value))

\* What a finished call leaves of contents M
Result(c, M) ==
  /\ c.name = "ReadDWord" =>
       READ_Data = IF Reads(c) THEN Answer(M, c.addr \div 2, 2 * WordBits) ELSE 0
  /\ eeprom[hDevice].mem = IF Writes(c) THEN Written(c, M) ELSE M

\* How far an EEPROM call has come
Progress ==
  LET a == call.addr \div 2
      M == before[board]
  IN /\ Reads(call) => Reading(a, M)
     /\ Writes(call) => Writing(a, High(call.value), Low(call.value), M)
     /\ ~ Reads(call) /\ ~ Writes(call) =>
          Rests(hDevice, M) /\ (call.name = "ReadDWord" => READ_Data = 0)

RomTypeOK ==
  /\ cntrl \in [Cards -> SUBSET {"cs", "din", "clk"}]
  /\ eeprom \in [Cards -> Chips]
  /\ before \in [Boards -> Mems]
  /\ call = NoCall \/ call \in UNION Programs

RomOK ==
  /\ RomTypeOK
  /\ \A c \in Cards : Rests(c, eeprom[c].mem) \/ (at > 0 /\ call.name \in EepromCall /\ hDevice = c)
  /\ at > 0 /\ hDevice \in Cards => Progress
  /\ at = 0 /\ call # NoCall /\ hDevice \in Cards => Result(call, before[board])

-----------------------------------------------------------------------------
\* Numbers and their bits

\* What is between q and q + 1 times p has q for its quotient.
LEMMA Quotient ==
  ASSUME NEW p \in Nat \ {0}, NEW q \in Nat, NEW v \in Nat, q * p <= v, v < q * p + p
  PROVE  v \div p = q
<1> DEFINE d == v \div p
           r == v % p
<1>1. d \in Int /\ r \in 0 .. p - 1 /\ v = p * d + r
  BY SMT
<1> HIDE DEF d, r
<1>2. CASE d >= q + 1
  <2>1. p * d >= p * (q + 1)
    BY <1>1, <1>2, SMT
  <2>2. p * (q + 1) = q * p + p
    BY SMT
  <2> QED
    BY <1>1, <2>1, <2>2, SMT
<1>3. CASE d <= q - 1
  <2>1. p * d <= p * (q - 1)
    BY <1>1, <1>3, SMT
  <2>2. p * (q - 1) = q * p - p
    BY SMT
  <2> QED
    BY <1>1, <2>1, <2>2, SMT
<1>4. d = q
  BY <1>1, <1>2, <1>3
<1> QED
  BY <1>4 DEF d

\* The remainder is below the divisor.
LEMMA Divided ==
  ASSUME NEW v \in Nat, NEW p \in Nat \ {0}
  PROVE  v \div p \in Nat /\ (v \div p) * p <= v /\ v < (v \div p) * p + p
<1> DEFINE d == v \div p
           r == v % p
<1>1. d \in Int /\ r \in 0 .. p - 1 /\ v = p * d + r
  BY SMT
<1> HIDE DEF d, r
<1>2. d >= 0
  <2>1. CASE d <= -1
    <3>1. p * d <= p * (-1)
      BY <1>1, <2>1, SMT
    <3> QED
      BY <1>1, <3>1, SMT
  <2> QED
    BY <1>1, <2>1
<1>3. d \in Nat /\ d * p <= v /\ v < d * p + p
  BY <1>1, <1>2, SMT
<1> QED
  BY <1>3 DEF d

\* One more bit is dropped.
LEMMA Halve ==
  ASSUME NEW v \in Nat, NEW n \in 0 .. 32
  PROVE  /\ v \div 2 ^ n \in Nat
         /\ v \div 2 ^ (n + 1) = (v \div 2 ^ n) \div 2
<1>1. 2 ^ n \in Nat \ {0} /\ 2 ^ (n + 1) = 2 * 2 ^ n
  BY PowersOfTwo
<1>2. ASSUME NEW p \in Nat \ {0}
      PROVE  v \div (2 * p) = (v \div p) \div 2
  <2> DEFINE d == v \div p
             h == d \div 2
  <2>1. d \in Nat /\ d * p <= v /\ v < d * p + p
    BY Divided
  <2> HIDE DEF d
  <2>2. h \in Nat /\ (d = 2 * h \/ d = 2 * h + 1)
    BY <2>1, SMT
  <2> HIDE DEF h
  <2>3. h * (2 * p) <= v /\ v < h * (2 * p) + 2 * p
    <3>1. CASE d = 2 * h
      <4>1. d * p = h * (2 * p)
        BY <2>2, <3>1, SMT
      <4> QED
        BY <2>1, <2>2, <4>1, SMT
    <3>2. CASE d = 2 * h + 1
      <4>1. d * p = h * (2 * p) + p
        BY <2>2, <3>2, SMT
      <4> QED
        BY <2>1, <2>2, <4>1, SMT
    <3> QED
      BY <2>2, <3>1, <3>2
  <2>4. 2 * p \in Nat \ {0}
    BY SMT
  <2>5. v \div (2 * p) = h
    BY <2>2, <2>3, <2>4, Quotient
  <2> QED
    BY <2>5 DEF h, d
<1>3. v \div 2 ^ n \in Nat
  BY <1>1, Divided
<1> QED
  BY <1>1, <1>2, <1>3

\* Powers of two multiply.
LEMMA Powers ==
  ASSUME NEW m \in 0 .. 16, NEW n \in 0 .. 16
  PROVE  2 ^ (m + n) = 2 ^ m * 2 ^ n
<1> DEFINE T == {x \in 1 .. n : 2 ^ (m + x) = 2 ^ m * 2 ^ x}
<1>0. 2 ^ 0 = 1 /\ 2 ^ 1 = 2
  BY SMT
<1>1. 2 ^ m \in Nat /\ 2 ^ (m + 1) = 2 * 2 ^ m /\ m + 0 = m
  <2>1. m \in 0 .. 32 /\ m + 0 = m
    OBVIOUS
  <2> QED
    BY <2>1, PowersOfTwo
<1>2. CASE n = 0
  BY <1>0, <1>1, <1>2, SMT
<1>3. CASE n # 0
  <2>1. 1 \in T
    BY <1>0, <1>1, <1>3, SMT
  <2>2. ASSUME NEW x \in 1 .. n - 1, x \in T PROVE x + 1 \in T
    <3>1. /\ 2 ^ x \in Nat /\ 2 ^ (x + 1) = 2 * 2 ^ x
          /\ 2 ^ ((m + x) + 1) = 2 * 2 ^ (m + x)
      <4>1. x \in 0 .. 32 /\ m + x \in 0 .. 32
        OBVIOUS
      <4> QED
        BY <4>1, PowersOfTwo
    <3>2. 2 ^ (m + x) = 2 ^ m * 2 ^ x
      BY <2>2
    <3>3. (m + x) + 1 = m + (x + 1) /\ x + 1 \in 1 .. n
      OBVIOUS
    <3>4. 2 * (2 ^ m * 2 ^ x) = 2 ^ m * (2 * 2 ^ x)
      BY <1>1, <3>1, SMT
    <3> QED
      BY <3>1, <3>2, <3>3, <3>4
  <2>3. n \in T
    <3>1. 1 .. n \subseteq T
      <4> HIDE DEF T
      <4> QED
        BY <2>1, <2>2, Induct
    <3> QED
      BY <1>3, <3>1
  <2> QED
    BY <2>3
<1> QED
  BY <1>2, <1>3

\* The bits of a number
LEMMA BitsOf ==
  ASSUME NEW v \in Nat, NEW n \in 0 .. 32
  PROVE  /\ Bits(v, n) \in Seq({0, 1}) /\ Len(Bits(v, n)) = n
         /\ \A x \in 1 .. n : Bits(v, n)[x] = (v \div 2 ^ (n - x)) % 2
<1>1. ASSUME NEW x \in 1 .. n PROVE (v \div 2 ^ (n - x)) % 2 \in {0, 1}
  <2>1. n - x \in 0 .. 32
    OBVIOUS
  <2>2. v \div 2 ^ (n - x) \in Nat
    BY <2>1, Halve
  <2> QED
    BY <2>2, SMT
<1>2. Bits(v, n) \in [1 .. n -> {0, 1}]
  BY <1>1 DEF Bits
<1>3. \A x \in 1 .. n : Bits(v, n)[x] = (v \div 2 ^ (n - x)) % 2
  BY DEF Bits
<1> QED
  BY <1>2, <1>3, FromFunction

\* A number below 2 ^ n is all in its n bits.
LEMMA SameBits ==
  ASSUME NEW n \in 0 .. 31, NEW v \in 0 .. 2 ^ n - 1, NEW w \in 0 .. 2 ^ n - 1,
         Bits(v, n) = Bits(w, n)
  PROVE  v = w
<1>0. 2 ^ n \in Nat \ {0} /\ v \in Nat /\ w \in Nat /\ 2 ^ 0 = 1
  <2>1. 2 ^ n \in Nat \ {0}
    BY PowersOfTwo
  <2> QED
    BY <2>1, SMT
<1> DEFINE T == {y \in 1 .. n + 1 : v \div 2 ^ (n + 1 - y) = w \div 2 ^ (n + 1 - y)}
<1>1. 1 \in T
  <2>1. v \div 2 ^ n = 0 /\ w \div 2 ^ n = 0
    <3>1. \A u \in 0 .. 2 ^ n - 1 : u \div 2 ^ n = 0
      <4> TAKE u \in 0 .. 2 ^ n - 1
      <4>1. u \in Nat /\ 0 * 2 ^ n <= u /\ u < 0 * 2 ^ n + 2 ^ n
        BY <1>0, SMT
      <4> QED
        BY <1>0, <4>1, Quotient
    <3> QED
      BY <3>1
  <2>2. n + 1 - 1 = n /\ 1 \in 1 .. n + 1
    OBVIOUS
  <2> QED
    BY <2>1, <2>2
<1>2. ASSUME NEW y \in 1 .. (n + 1) - 1, y \in T PROVE y + 1 \in T
  <2> DEFINE k == n - y
  <2>1. k \in 0 .. 32 /\ y \in 1 .. n /\ y + 1 \in 1 .. n + 1
        /\ n + 1 - y = k + 1 /\ n + 1 - (y + 1) = k
    OBVIOUS
  <2>2. v \div 2 ^ (k + 1) = w \div 2 ^ (k + 1)
    BY <1>2, <2>1
  <2>3. (v \div 2 ^ k) % 2 = (w \div 2 ^ k) % 2
    <3>1. n \in 0 .. 32
      OBVIOUS
    <3>2. /\ Bits(v, n)[y] = (v \div 2 ^ (n - y)) % 2
          /\ Bits(w, n)[y] = (w \div 2 ^ (n - y)) % 2
      BY <1>0, <2>1, <3>1, BitsOf
    <3> QED
      BY <3>2
  <2> HIDE DEF k
  <2>4. /\ v \div 2 ^ k \in Nat /\ w \div 2 ^ k \in Nat
        /\ v \div 2 ^ (k + 1) = (v \div 2 ^ k) \div 2
        /\ w \div 2 ^ (k + 1) = (w \div 2 ^ k) \div 2
    BY <1>0, <2>1, Halve
  <2>5. \A d, e \in Nat : d \div 2 = e \div 2 /\ d % 2 = e % 2 => d = e
    BY SMT
  <2>6. v \div 2 ^ k = w \div 2 ^ k
    BY <2>2, <2>3, <2>4, <2>5
  <2> QED
    BY <2>1, <2>6
<1>3. n + 1 \in T
  <2>1. 1 .. n + 1 \subseteq T
    <3> HIDE DEF T
    <3>1. n + 1 \in Nat
      OBVIOUS
    <3> QED
      BY <1>1, <1>2, <3>1, Induct
  <2>2. n + 1 \in 1 .. n + 1
    OBVIOUS
  <2> HIDE DEF T
  <2> QED
    BY <2>1, <2>2
<1>4. v \div 2 ^ 0 = w \div 2 ^ 0
  <2>1. n + 1 - (n + 1) = 0
    OBVIOUS
  <2> QED
    BY <1>3, <2>1
<1> QED
  BY <1>0, <1>4, SMT

\* The number in a field of a sequence of bits
LEMMA Field ==
  ASSUME NEW in \in Seq({0, 1}), NEW i \in Nat \ {0}, NEW n \in 1 .. 16,
         i + n - 1 <= Len(in), NEW v \in 0 .. 2 ^ n - 1,
         \A x \in 1 .. n : in[i + x - 1] = Bits(v, n)[x]
  PROVE  Number(SubSeq(in, i, i + n - 1)) = v
<1> DEFINE s == SubSeq(in, i, i + n - 1)
<1>1. v \in Nat /\ n \in 0 .. 32 /\ n \in 0 .. 31
  BY PowersOfTwo
<1>2. Bits(v, n) \in Seq({0, 1}) /\ Len(Bits(v, n)) = n
  BY <1>1, BitsOf
<1>3. s \in Seq({0, 1}) /\ Len(s) = n /\ \A x \in 1 .. n : s[x] = in[i + x - 1]
  <2>1. Len(in) \in Nat
    BY LenProperties
  <2>2. s \in Seq({0, 1}) /\ \A x \in 1 .. Len(s) : s[x] = in[i + x - 1]
    BY <2>1, SubSeqProperties
  <2>3. Len(s) = n
    BY <2>1, SubSeqProperties
  <2> QED
    BY <2>2, <2>3
<1> HIDE DEF s
<1>4. s = Bits(v, n)
  BY <1>2, <1>3, SeqEqual
<1>5. Number(s) = CHOOSE w \in 0 .. 2 ^ n - 1 : Bits(w, n) = Bits(v, n)
  BY <1>3, <1>4 DEF Number
<1>6. \A w \in 0 .. 2 ^ n - 1 : Bits(w, n) = Bits(v, n) => w = v
  BY <1>1, SameBits
<1> QED
  BY <1>5, <1>6 DEF s

-----------------------------------------------------------------------------
\* Commands

\* The widths of addresses and words
LEMMA Widths ==
  /\ AddrBits \in 2 .. 8 /\ WordBits \in 1 .. 16 /\ CommandBits = AddrBits + 3
  /\ Words = 2 ^ (AddrBits - 1) /\ Words \in Nat /\ 2 <= Words /\ 2 ^ AddrBits = 2 * Words
  /\ Top \in Nat \ {0} /\ Top = 2 ^ WordBits
<1>1. AddrBits \in 2 .. 8 /\ WordBits \in 1 .. 16 /\ CommandBits = AddrBits + 3
  BY Cg400Assumption DEF CommandBits
<1>2. /\ 2 ^ (AddrBits - 1) \in Nat \ {0} /\ 2 ^ ((AddrBits - 1) + 1) = 2 * 2 ^ (AddrBits - 1)
      /\ 2 ^ (AddrBits - 2) \in Nat \ {0} /\ 2 ^ ((AddrBits - 2) + 1) = 2 * 2 ^ (AddrBits - 2)
      /\ 2 ^ WordBits \in Nat \ {0}
  <2>1. AddrBits - 1 \in 0 .. 32 /\ AddrBits - 2 \in 0 .. 32 /\ WordBits \in 0 .. 32
    BY <1>1
  <2> QED
    BY <2>1, PowersOfTwo
<1>3. (AddrBits - 1) + 1 = AddrBits /\ (AddrBits - 2) + 1 = AddrBits - 1
  BY <1>1
<1>4. \A p \in Nat \ {0} : 2 * p >= 2 /\ 2 * p \in Nat
  OBVIOUS
<1> QED
  BY <1>1, <1>2, <1>3, <1>4 DEF Words, Top

\* The quotients of a command: what is above its address is c.
LEMMA CommandQuotients ==
  ASSUME NEW c \in 4 .. 7, NEW a \in 0 .. 2 ^ AddrBits - 1
  PROVE  /\ c * 2 ^ AddrBits + a \in Nat
         /\ (c * 2 ^ AddrBits + a) \div 2 ^ AddrBits = c
         /\ (c * 2 ^ AddrBits + a) \div 2 ^ (AddrBits + 1) = c \div 2
         /\ (c * 2 ^ AddrBits + a) \div 2 ^ (AddrBits + 2) = 1
<1> DEFINE p == 2 ^ AddrBits
           v == c * p + a
<1>1. AddrBits \in 0 .. 32 /\ AddrBits + 1 \in 0 .. 32 /\ (AddrBits + 1) + 1 = AddrBits + 2
  BY Widths
<1>2. p \in Nat \ {0}
  BY <1>1, PowersOfTwo
<1> HIDE DEF p
<1>3. a \in Nat /\ c * p \in Nat /\ a < p
  BY <1>2, SMT DEF p
<1>4. v \in Nat /\ c * p <= v /\ v < c * p + p /\ c \in Nat
  <2> DEFINE m == c * p
  <2>1. m \in Nat
    BY <1>3
  <2> HIDE DEF m
  <2>2. m + a \in Nat /\ m <= m + a /\ m + a < m + p
    BY <1>2, <1>3, <2>1
  <2> QED
    BY <2>2 DEF m
<1> HIDE DEF v
<1>5. v \div p = c
  BY <1>2, <1>4, Quotient
<1>6. v \div 2 ^ (AddrBits + 1) = c \div 2 /\ v \div 2 ^ (AddrBits + 2) = (c \div 2) \div 2
  <2>1. v \div 2 ^ (AddrBits + 1) = (v \div 2 ^ AddrBits) \div 2
    BY <1>1, <1>4, Halve
  <2>2. v \div 2 ^ ((AddrBits + 1) + 1) = (v \div 2 ^ (AddrBits + 1)) \div 2
    BY <1>1, <1>4, Halve
  <2>3. v \div 2 ^ AddrBits = c
    BY <1>5 DEF p
  <2>4. v \div 2 ^ (AddrBits + 2) = (v \div 2 ^ (AddrBits + 1)) \div 2
    BY <1>1, <2>2, Zenon
  <2> QED
    BY <2>1, <2>3, <2>4, Zenon
<1>7. (c \div 2) \div 2 = 1
  BY SMT
<1> QED
  BY <1>4, <1>5, <1>6, <1>7 DEF v, p

\* A command's bits: a start bit, the two of its operation, and those of its address
LEMMA CommandFields ==
  ASSUME NEW c \in 4 .. 7, NEW a \in 0 .. 2 ^ AddrBits - 1
  PROVE  LET b == Bits(c * 2 ^ AddrBits + a, CommandBits)
         IN  /\ b \in Seq({0, 1}) /\ Len(b) = CommandBits /\ b[1] = 1
             /\ \A x \in 1 .. 2 : b[1 + x] = Bits(c - 4, 2)[x]
             /\ \A x \in 1 .. AddrBits : b[3 + x] = Bits(a, AddrBits)[x]
<1> DEFINE v == c * 2 ^ AddrBits + a
           b == Bits(v, CommandBits)
<1>1. /\ v \in Nat /\ v \div 2 ^ AddrBits = c /\ v \div 2 ^ (AddrBits + 1) = c \div 2
      /\ v \div 2 ^ (AddrBits + 2) = 1
  BY CommandQuotients
<1>2. a \in Nat
  <2>1. 2 ^ AddrBits \in Nat
    BY Widths, SMT
  <2> QED
    BY <2>1
<1>3. AddrBits \in 2 .. 8 /\ CommandBits = AddrBits + 3 /\ CommandBits \in 0 .. 32
  BY Widths
<1>4. c - 4 \in Nat /\ 2 \in 0 .. 32 /\ AddrBits \in 0 .. 32
  BY <1>3
<1> HIDE DEF v
<1>5. /\ b \in Seq({0, 1}) /\ Len(b) = CommandBits
      /\ \A x \in 1 .. CommandBits : b[x] = (v \div 2 ^ (CommandBits - x)) % 2
  BY <1>1, <1>3, BitsOf
<1> HIDE DEF b
<1>6. b[1] = 1 /\ b[2] = (c \div 2) % 2 /\ b[3] = c % 2
  <2>1. /\ 1 \in 1 .. CommandBits /\ 2 \in 1 .. CommandBits /\ 3 \in 1 .. CommandBits
        /\ CommandBits - 1 = AddrBits + 2 /\ CommandBits - 2 = AddrBits + 1
        /\ CommandBits - 3 = AddrBits
    BY <1>3
  <2>2. /\ b[1] = (v \div 2 ^ (AddrBits + 2)) % 2 /\ b[2] = (v \div 2 ^ (AddrBits + 1)) % 2
        /\ b[3] = (v \div 2 ^ AddrBits) % 2
    BY <1>5, <2>1
  <2>3. 1 % 2 = 1
    BY SMT
  <2> QED
    BY <1>1, <2>2, <2>3
<1>7. Bits(c - 4, 2)[1] = (c \div 2) % 2 /\ Bits(c - 4, 2)[2] = c % 2
  <2>1. /\ Bits(c - 4, 2)[1] = ((c - 4) \div 2 ^ (2 - 1)) % 2
        /\ Bits(c - 4, 2)[2] = ((c - 4) \div 2 ^ (2 - 2)) % 2
    <3>1. \A x \in 1 .. 2 : Bits(c - 4, 2)[x] = ((c - 4) \div 2 ^ (2 - x)) % 2
      BY <1>4, BitsOf
    <3>2. 1 \in 1 .. 2 /\ 2 \in 1 .. 2
      OBVIOUS
    <3> QED
      BY <3>1, <3>2
  <2>2. 2 ^ (2 - 1) = 2 /\ 2 ^ (2 - 2) = 1
    BY SMT
  <2>3. ((c - 4) \div 2) % 2 = (c \div 2) % 2 /\ ((c - 4) \div 1) % 2 = c % 2
    BY SMT
  <2> QED
    BY <2>1, <2>2, <2>3
<1>8. \A x \in 1 .. 2 : b[1 + x] = Bits(c - 4, 2)[x]
  BY <1>6, <1>7
<1>9. ASSUME NEW x \in 1 .. AddrBits PROVE b[3 + x] = Bits(a, AddrBits)[x]
  <2> DEFINE n == AddrBits - x
             p == 2 ^ n
             d == a \div p
             z == c * 2 ^ (x - 1)
  <2>1. n \in 0 .. 16 /\ x \in 0 .. 16 /\ n \in 0 .. 32 /\ x - 1 \in 0 .. 32 /\ (x - 1) + 1 = x
        /\ x + n = AddrBits /\ CommandBits - (3 + x) = n /\ 3 + x \in 1 .. CommandBits
    BY <1>3
  <2>2. p \in Nat \ {0} /\ 2 ^ x = 2 * 2 ^ (x - 1) /\ 2 ^ (x - 1) \in Nat
    BY <2>1, PowersOfTwo
  <2>3. 2 ^ AddrBits = 2 ^ x * p
    BY <2>1, Powers
  <2>4. d \in Nat /\ d * p <= a /\ a < d * p + p
    BY <1>2, <2>2, Divided
  <2> HIDE DEF n, p, d
  <2>5. z \in Nat /\ v = (2 * z) * p + a
    <3>1. z \in Nat /\ c * 2 ^ x = 2 * z
      BY <2>2, SMT
    <3>2. v = (c * 2 ^ x) * p + a
      BY <2>2, <2>3, SMT DEF v
    <3> QED
      BY <3>1, <3>2
  <2> HIDE DEF z
  <2>6. v \div p = 2 * z + d
    <3>1. (2 * z + d) * p = (2 * z) * p + d * p /\ (2 * z) * p \in Nat
      BY <2>2, <2>4, <2>5, SMT
    <3>2. 2 * z + d \in Nat /\ (2 * z + d) * p <= v /\ v < (2 * z + d) * p + p
      BY <1>2, <2>2, <2>4, <2>5, <3>1, SMT
    <3> QED
      BY <1>1, <2>2, <3>2, Quotient
  <2>7. b[3 + x] = (v \div p) % 2
    BY <1>5, <2>1 DEF p
  <2>8. Bits(a, AddrBits)[x] = d % 2
    <3>1. Bits(a, AddrBits)[x] = (a \div 2 ^ (AddrBits - x)) % 2
      BY <1>2, <1>4, BitsOf
    <3> QED
      BY <3>1 DEF n, p, d
  <2>9. (2 * z + d) % 2 = d % 2
    BY <2>4, <2>5, SMT
  <2> QED
    BY <2>6, <2>7, <2>8, <2>9
<1> QED
  BY <1>5, <1>6, <1>8, <1>9 DEF b, v

\* What the EEPROM makes of a command it has taken
LEMMA Decoded ==
  ASSUME NEW c \in 4 .. 7, NEW a \in 0 .. 2 ^ AddrBits - 1,
         NEW in \in Seq({0, 1}), CommandBits <= Len(in),
         \A i \in 1 .. CommandBits : in[i] = Bits(c * 2 ^ AddrBits + a, CommandBits)[i]
  PROVE  Operation(in) = c - 4 /\ Address(in) = a
<1> DEFINE b == Bits(c * 2 ^ AddrBits + a, CommandBits)
<1>1. /\ \A x \in 1 .. 2 : b[1 + x] = Bits(c - 4, 2)[x]
      /\ \A x \in 1 .. AddrBits : b[3 + x] = Bits(a, AddrBits)[x]
  BY CommandFields
<1>2. /\ AddrBits \in 1 .. 16 /\ 2 \in 1 .. 16 /\ CommandBits = 4 + AddrBits - 1 /\ 3 = 2 + 2 - 1
      /\ 2 + 2 - 1 <= Len(in) /\ 4 + AddrBits - 1 <= Len(in) /\ Len(in) \in Nat
  <2>1. Len(in) \in Nat
    BY LenProperties
  <2> QED
    BY <2>1, Widths
<1>3. c - 4 \in 0 .. 2 ^ 2 - 1
  BY SMT
<1> HIDE DEF b
<1>4. \A x \in 1 .. 2 : in[2 + x - 1] = Bits(c - 4, 2)[x]
  <2> SUFFICES ASSUME NEW x \in 1 .. 2 PROVE in[2 + x - 1] = Bits(c - 4, 2)[x]
    OBVIOUS
  <2>1. 2 + x - 1 = 1 + x /\ 1 + x \in 1 .. CommandBits
    BY <1>2
  <2> QED
    BY <1>1, <2>1 DEF b
<1>5. \A x \in 1 .. AddrBits : in[4 + x - 1] = Bits(a, AddrBits)[x]
  <2> SUFFICES ASSUME NEW x \in 1 .. AddrBits PROVE in[4 + x - 1] = Bits(a, AddrBits)[x]
    OBVIOUS
  <2>1. 4 + x - 1 = 3 + x /\ 3 + x \in 1 .. CommandBits
    BY <1>2
  <2> QED
    BY <1>1, <2>1 DEF b
<1>6. \A i \in Nat \ {0}, n \in 1 .. 16 :
        i + n - 1 <= Len(in) =>
          \A v \in 0 .. 2 ^ n - 1 :
            (\A x \in 1 .. n : in[i + x - 1] = Bits(v, n)[x]) => Number(SubSeq(in, i, i + n - 1)) = v
  BY Field
<1>7. Number(SubSeq(in, 2, 2 + 2 - 1)) = c - 4
  <2>1. 2 \in Nat \ {0}
    OBVIOUS
  <2> QED
    BY <1>2, <1>3, <1>4, <1>6, <2>1, Zenon
<1>8. Number(SubSeq(in, 4, 4 + AddrBits - 1)) = a
  <2>1. 4 \in Nat \ {0}
    OBVIOUS
  <2> QED
    BY <1>2, <1>5, <1>6, <2>1, Zenon
<1> QED
  BY <1>2, <1>7, <1>8 DEF Operation, Address

-----------------------------------------------------------------------------
\* Frames

\* A sequence of bits that starts as a frame does
Starts(in, f) ==
  /\ in \in Seq({0, 1}) /\ Len(in) \in 1 .. Len(f.bits)
  /\ \A i \in 1 .. Len(in) : in[i] = f.bits[i]

\* What the proofs about sending a frame need to know of it
Good(f) ==
  /\ f.bits \in Seq({0, 1}) /\ Len(f.bits) \in Nat \ {0} /\ f.bits[1] = 1
  /\ f.first \in Nat \ {0} /\ f.from \in Nat /\ f.addr \in 0 .. Words - 1
  /\ Len(f.bits) <= f.first + 2 * WordBits
  /\ \A chip \in Chips, in \in Seq({0, 1}) : Starts(in, f) =>
       /\ Enabled(chip, in) \in BOOLEAN /\ Output(chip, in) \in {0, 1}
       /\ Len(in) >= f.from /\ (Len(in) > f.from => chip.enabled) => Enabled(chip, in)
       /\ Len(in) >= f.first => Output(chip, in) = AnswerBit(chip.mem, f.addr, Len(in) - f.first)

\* The bits of a command at the start of what was taken
LEMMA FrameCommand ==
  ASSUME NEW c \in 4 .. 7, NEW a \in 0 .. 2 ^ AddrBits - 1, NEW f, NEW in \in Seq({0, 1}),
         Starts(in, f), CommandBits <= Len(in),
         \A x \in 1 .. CommandBits : f.bits[x] = Bits(c * 2 ^ AddrBits + a, CommandBits)[x]
  PROVE  Operation(in) = c - 4 /\ Address(in) = a
<1>1. \A i \in 1 .. CommandBits : in[i] = Bits(c * 2 ^ AddrBits + a, CommandBits)[i]
  <2> SUFFICES ASSUME NEW i \in 1 .. CommandBits
               PROVE  in[i] = Bits(c * 2 ^ AddrBits + a, CommandBits)[i]
    OBVIOUS
  <2>1. i \in 1 .. Len(in)
    <3>1. CommandBits \in Nat /\ Len(in) \in Nat
      BY Widths, LenProperties
    <3> QED
      BY <3>1
  <2> QED
    BY <2>1 DEF Starts
<1> QED
  BY <1>1, Decoded

\* The answer's bits are bits.
LEMMA AnswerBits ==
  ASSUME NEW M \in Mems, NEW a \in Nat, NEW q \in Nat
  PROVE  /\ q \div WordBits \in Nat /\ 1 + (q % WordBits) \in 1 .. WordBits
         /\ (a + q \div WordBits) % Words \in 0 .. Words - 1
         /\ M[(a + q \div WordBits) % Words] \in Nat
         /\ AnswerBit(M, a, q) \in {0, 1}
<1> DEFINE w == (a + q \div WordBits) % Words
           x == 1 + (q % WordBits)
<1>1. WordBits \in Nat \ {0} /\ WordBits \in 0 .. 32 /\ Words \in Nat \ {0} /\ Top \in Nat
  BY Widths
<1>2. q \div WordBits \in Nat
  BY <1>1, Divided
<1>3. x \in 1 .. WordBits
  BY <1>1, SMT
<1>4. w \in 0 .. Words - 1
  <2>1. \A y \in Nat : y % Words \in 0 .. Words - 1
    BY <1>1, SMT
  <2> QED
    BY <1>2, <2>1
<1> HIDE DEF w, x
<1>5. M[w] \in Nat
  BY <1>1, <1>4 DEF Mems
<1>6. Bits(M[w], WordBits)[x] \in {0, 1}
  <2>1. Bits(M[w], WordBits) \in Seq({0, 1}) /\ Len(Bits(M[w], WordBits)) = WordBits
    BY <1>1, <1>5, BitsOf
  <2> QED
    BY <1>3, <2>1, ElementOfSeq
<1> QED
  BY <1>2, <1>3, <1>4, <1>5, <1>6 DEF w, x, AnswerBit

\* Without a whole command, nothing is put out, and writes are enabled as they were.
LEMMA FewBits ==
  ASSUME NEW chip \in Chips, NEW in \in Seq({0, 1}), Len(in) < CommandBits
  PROVE  Enabled(chip, in) = chip.enabled /\ Output(chip, in) = 0
<1>1. Len(in) \in Nat /\ CommandBits \in Nat
  BY Widths, LenProperties
<1>2. Len(in) # CommandBits /\ ~ (Len(in) - CommandBits - 1 >= 0)
  BY <1>1
<1> QED
  BY <1>2 DEF Enabled, Output

\* Whether writes are enabled is a Boolean.
LEMMA ChipBools == \A chip \in Chips : \A in : Enabled(chip, in) \in BOOLEAN
<1> SUFFICES ASSUME NEW chip \in Chips, NEW in PROVE Enabled(chip, in) \in BOOLEAN
  OBVIOUS
<1>1. chip.enabled \in BOOLEAN
  BY DEF Chips
<1> DEFINE d == Address(in) \div 2 ^ (AddrBits - 2)
<1>2. (CASE d = 3 -> TRUE [] d = 0 -> FALSE [] OTHER -> chip.enabled) \in BOOLEAN
  <2> HIDE DEF d
  <2>1. CASE d = 3
    <3>1. d # 0
      BY <2>1
    <3> QED
      BY <2>1, <3>1
  <2>2. CASE d # 3
    BY <1>1, <2>2
  <2> QED
    BY <2>1, <2>2
<1> QED
  BY <1>1, <1>2 DEF Enabled

\* The write enable command
LEMMA EnableGood == Good(EnableFrame) /\ Len(EnableFrame.bits) = CommandBits
<1> DEFINE f == EnableFrame
           p == 2 ^ (AddrBits - 2)
           a == 3 * p
<1>1. p \in Nat \ {0} /\ 2 ^ AddrBits = 4 * p
  <2>1. AddrBits - 2 \in 0 .. 32 /\ AddrBits - 1 \in 0 .. 32
        /\ (AddrBits - 2) + 1 = AddrBits - 1 /\ (AddrBits - 1) + 1 = AddrBits
    BY Widths
  <2>2. /\ p \in Nat \ {0} /\ 2 ^ (AddrBits - 1) = 2 * p
        /\ 2 ^ AddrBits = 2 * 2 ^ (AddrBits - 1)
    BY <2>1, PowersOfTwo
  <2> QED
    BY <2>2
<1> HIDE DEF p
<1>2. a \in 0 .. 2 ^ AddrBits - 1
  BY <1>1
<1>3. 4 \in 4 .. 7 /\ 4 - 4 = 0
  OBVIOUS
<1>4. f.bits = Bits(4 * 2 ^ AddrBits + a, CommandBits)
  BY DEF EnableFrame, WEN_Command, p
<1>5. f.first = CommandBits + 1 /\ f.from = CommandBits /\ f.addr = 0
  BY DEF EnableFrame
<1> HIDE DEF f, a
<1>6. f.bits \in Seq({0, 1}) /\ Len(f.bits) = CommandBits /\ f.bits[1] = 1
  BY <1>2, <1>3, <1>4, CommandFields
<1>7. /\ CommandBits \in Nat \ {0} /\ 0 \in 0 .. Words - 1 /\ WordBits \in Nat
      /\ CommandBits <= (CommandBits + 1) + 2 * WordBits
  BY Widths
<1>8. ASSUME NEW chip \in Chips, NEW in \in Seq({0, 1}), Starts(in, f)
      PROVE  /\ Enabled(chip, in) \in BOOLEAN /\ Output(chip, in) \in {0, 1}
             /\ Len(in) >= f.from /\ (Len(in) > f.from => chip.enabled) => Enabled(chip, in)
             /\ Len(in) >= f.first =>
                  Output(chip, in) = AnswerBit(chip.mem, f.addr, Len(in) - f.first)
  <2>1. Len(in) \in 1 .. CommandBits
    BY <1>6, <1>8 DEF Starts
  <2>2. Enabled(chip, in) \in BOOLEAN
    BY ChipBools
  <2>3. ~ (Len(in) - CommandBits - 1 >= 0) /\ ~ (Len(in) >= f.first)
    BY <1>5, <1>7, <2>1
  <2>4. Output(chip, in) = 0
    BY <2>3 DEF Output
  <2>5. ASSUME Len(in) >= f.from PROVE Enabled(chip, in)
    <3>1. Len(in) = CommandBits /\ CommandBits <= Len(in)
      BY <1>5, <1>7, <2>1, <2>5
    <3>2. Operation(in) = 0 /\ Address(in) = a
      BY <1>2, <1>3, <1>4, <1>8, <3>1, FrameCommand
    <3>3. a \div p = 3
      <4>1. a \in Nat /\ 3 * p <= a /\ a < 3 * p + p
        BY <1>1 DEF a
      <4>2. 3 \in Nat
        OBVIOUS
      <4> QED
        BY <1>1, <4>1, <4>2, Quotient
    <3>4. Address(in) \div 2 ^ (AddrBits - 2) = 3
      BY <3>2, <3>3 DEF p
    <3> QED
      BY <3>1, <3>2, <3>4 DEF Enabled
  <2> QED
    BY <2>2, <2>3, <2>4, <2>5
<1>9. Len(f.bits) \in Nat \ {0} /\ f.first \in Nat \ {0} /\ f.from \in Nat
      /\ f.addr \in 0 .. Words - 1 /\ Len(f.bits) <= f.first + 2 * WordBits
  BY <1>5, <1>6, <1>7
<1> QED
  BY <1>6, <1>8, <1>9 DEF Good, f

\* The read of the words from address a on
LEMMA ReadGood ==
  ASSUME NEW a \in 0 .. Words - 1
  PROVE  Good(ReadFrame(a)) /\ Len(ReadFrame(a).bits) = CommandBits + 1 + 2 * WordBits
<1> DEFINE f == ReadFrame(a)
           b == Bits(6 * 2 ^ AddrBits + a, CommandBits)
           n == CommandBits + 1 + 2 * WordBits
<1>1. /\ CommandBits \in Nat \ {0} /\ WordBits \in Nat \ {0} /\ n \in Nat \ {0}
      /\ CommandBits <= n /\ 1 \in 1 .. CommandBits
      /\ a \in 0 .. 2 ^ AddrBits - 1 /\ a \in Nat /\ 6 \in 4 .. 7 /\ 6 - 4 = 2
      /\ n <= (CommandBits + 1) + 2 * WordBits
  BY Widths
<1>2. b \in Seq({0, 1}) /\ Len(b) = CommandBits /\ b[1] = 1
  BY <1>1, CommandFields
<1>3. /\ f.bits = [x \in 1 .. n |-> IF x <= CommandBits THEN b[x] ELSE 0]
      /\ f.first = CommandBits + 1 /\ f.from = n + 1 /\ f.addr = a
  <2>1. f.from = CommandBits + 2 + 2 * WordBits
    BY DEF ReadFrame
  <2>2. CommandBits + 2 + 2 * WordBits = n + 1
    BY <1>1
  <2> QED
    BY <2>1, <2>2 DEF ReadFrame, READ_Command
<1> HIDE DEF f, b
<1>4. ASSUME NEW x \in 1 .. n PROVE (IF x <= CommandBits THEN b[x] ELSE 0) \in {0, 1}
  <2>1. CASE x <= CommandBits
    <3>1. x \in 1 .. Len(b)
      BY <1>1, <1>2, <2>1
    <3> QED
      BY <1>2, <2>1, <3>1, ElementOfSeq
  <2> QED
    BY <2>1
<1>5. f.bits \in [1 .. n -> {0, 1}]
  BY <1>3, <1>4
<1>6. f.bits \in Seq({0, 1}) /\ Len(f.bits) = n
  BY <1>1, <1>5, FromFunction
<1>7. \A x \in 1 .. CommandBits : f.bits[x] = b[x]
  BY <1>1, <1>3
<1>8. ASSUME NEW chip \in Chips, NEW in \in Seq({0, 1}), Starts(in, f)
      PROVE  /\ Enabled(chip, in) \in BOOLEAN /\ Output(chip, in) \in {0, 1}
             /\ Len(in) >= f.from /\ (Len(in) > f.from => chip.enabled) => Enabled(chip, in)
             /\ Len(in) >= f.first =>
                  Output(chip, in) = AnswerBit(chip.mem, f.addr, Len(in) - f.first)
  <2>1. Len(in) \in 1 .. n
    BY <1>6, <1>8 DEF Starts
  <2>2. Enabled(chip, in) \in BOOLEAN
    BY ChipBools
  <2>3. ~ (Len(in) >= f.from)
    BY <1>1, <1>3, <2>1
  <2>4. CASE Len(in) >= CommandBits + 1
    <3> DEFINE k == Len(in) - CommandBits - 1
    <3>1. k \in Nat /\ k >= 0 /\ k = Len(in) - f.first /\ CommandBits <= Len(in)
      BY <1>1, <1>3, <2>1, <2>4
    <3>2. Operation(in) = 2 /\ Address(in) = a
      BY <1>1, <1>7, <1>8, <3>1, FrameCommand DEF b
    <3>3. Output(chip, in) = AnswerBit(chip.mem, a, k)
      BY <3>1, <3>2 DEF Output, AnswerBit
    <3> HIDE DEF k
    <3>4. chip.mem \in Mems
      BY DEF Chips
    <3>5. AnswerBit(chip.mem, a, k) \in {0, 1}
      BY <1>1, <3>1, <3>4, AnswerBits
    <3> QED
      BY <1>3, <2>2, <2>3, <3>1, <3>3, <3>5
  <2>5. CASE ~ (Len(in) >= CommandBits + 1)
    <3>1. ~ (Len(in) - CommandBits - 1 >= 0) /\ ~ (Len(in) >= f.first)
      BY <1>1, <1>3, <2>1, <2>5
    <3>2. Output(chip, in) = 0
      BY <3>1 DEF Output
    <3> QED
      BY <2>2, <2>3, <3>1, <3>2
  <2> QED
    BY <2>4, <2>5
<1>9. /\ f.bits[1] = 1 /\ Len(f.bits) \in Nat \ {0} /\ f.first \in Nat \ {0} /\ f.from \in Nat
      /\ f.addr \in 0 .. Words - 1 /\ Len(f.bits) <= f.first + 2 * WordBits
  BY <1>1, <1>2, <1>3, <1>6, <1>7
<1> QED
  BY <1>6, <1>8, <1>9 DEF Good, f

\* The write of v at address a, and what the EEPROM stores after it
LEMMA WriteGood ==
  ASSUME NEW a \in 0 .. 2 ^ AddrBits - 1, NEW v \in 0 .. Top - 1
  PROVE  /\ Good(WriteFrame(a, v)) /\ Len(WriteFrame(a, v).bits) = CommandBits + WordBits
         /\ \A in \in Seq({0, 1}) :
              Starts(in, WriteFrame(a, v)) /\ Len(in) = CommandBits + WordBits =>
                Operation(in) = 1 /\ Address(in) = a /\ Word(in) = v
<1> DEFINE f == WriteFrame(a, v)
           b == Bits(5 * 2 ^ AddrBits + a, CommandBits)
           w == Bits(v, WordBits)
           n == CommandBits + WordBits
<1>1. /\ CommandBits \in Nat \ {0} /\ WordBits \in Nat \ {0} /\ n \in Nat \ {0}
      /\ CommandBits <= n /\ 1 \in 1 .. CommandBits /\ 5 \in 4 .. 7 /\ 5 - 4 = 1
      /\ n <= (n + 1) + 2 * WordBits /\ 0 \in 0 .. Words - 1 /\ v \in Nat
      /\ WordBits \in 0 .. 32 /\ WordBits \in 1 .. 16 /\ v \in 0 .. 2 ^ WordBits - 1
  BY Widths
<1>2. b \in Seq({0, 1}) /\ Len(b) = CommandBits /\ b[1] = 1
  BY <1>1, CommandFields
<1>3. w \in Seq({0, 1}) /\ Len(w) = WordBits
  BY <1>1, BitsOf
<1>4. /\ f.bits = [x \in 1 .. n |-> IF x <= CommandBits THEN b[x] ELSE w[x - CommandBits]]
      /\ f.first = n + 1 /\ f.from = 0 /\ f.addr = 0
  BY DEF WriteFrame, WRITE_Command
<1> HIDE DEF f, b, w
<1>5. ASSUME NEW x \in 1 .. n
      PROVE  (IF x <= CommandBits THEN b[x] ELSE w[x - CommandBits]) \in {0, 1}
  <2>1. CASE x <= CommandBits
    <3>1. x \in 1 .. Len(b)
      BY <1>1, <1>2, <2>1
    <3> QED
      BY <1>2, <2>1, <3>1, ElementOfSeq
  <2>2. CASE ~ (x <= CommandBits)
    <3>1. x - CommandBits \in 1 .. Len(w)
      BY <1>1, <1>3, <2>2
    <3> QED
      BY <1>3, <2>2, <3>1, ElementOfSeq
  <2> QED
    BY <2>1, <2>2
<1>6. f.bits \in [1 .. n -> {0, 1}]
  BY <1>4, <1>5
<1>7. f.bits \in Seq({0, 1}) /\ Len(f.bits) = n
  BY <1>1, <1>6, FromFunction
<1>8. \A x \in 1 .. CommandBits : f.bits[x] = b[x]
  BY <1>1, <1>4
<1>9. ASSUME NEW chip \in Chips, NEW in \in Seq({0, 1}), Starts(in, f)
      PROVE  /\ Enabled(chip, in) \in BOOLEAN /\ Output(chip, in) \in {0, 1}
             /\ Len(in) >= f.from /\ (Len(in) > f.from => chip.enabled) => Enabled(chip, in)
             /\ Len(in) >= f.first =>
                  Output(chip, in) = AnswerBit(chip.mem, f.addr, Len(in) - f.first)
  <2>1. Len(in) \in 1 .. n
    BY <1>7, <1>9 DEF Starts
  <2>2. Enabled(chip, in) \in BOOLEAN
    BY ChipBools
  <2>3. Len(in) > f.from /\ ~ (Len(in) >= f.first)
    BY <1>1, <1>4, <2>1
  <2>4. CASE Len(in) >= CommandBits
    <3>1. Operation(in) = 1 /\ CommandBits <= Len(in)
      <4>1. CommandBits <= Len(in)
        BY <1>1, <2>1, <2>4
      <4> QED
        BY <1>1, <1>8, <1>9, <4>1, FrameCommand DEF b
    <3>2. Operation(in) # 0 /\ Operation(in) # 2
      BY <3>1
    <3>3. Enabled(chip, in) = chip.enabled /\ Output(chip, in) = 0
      BY <3>2 DEF Enabled, Output
    <3> QED
      BY <2>2, <2>3, <3>3
  <2>5. CASE ~ (Len(in) >= CommandBits)
    <3>1. Len(in) < CommandBits
      BY <1>1, <2>1, <2>5
    <3>2. Enabled(chip, in) = chip.enabled /\ Output(chip, in) = 0
      BY <3>1, FewBits
    <3> QED
      BY <2>2, <2>3, <3>2
  <2> QED
    BY <2>4, <2>5
<1>10. ASSUME NEW in \in Seq({0, 1}), Starts(in, f), Len(in) = n
       PROVE  Operation(in) = 1 /\ Address(in) = a /\ Word(in) = v
  <2>1. Operation(in) = 1 /\ Address(in) = a
    <3>1. CommandBits <= Len(in)
      BY <1>1, <1>10
    <3> QED
      BY <1>1, <1>8, <1>10, <3>1, FrameCommand DEF b
  <2>2. ASSUME NEW x \in 1 .. WordBits PROVE in[(CommandBits + 1) + x - 1] = Bits(v, WordBits)[x]
    <3>1. /\ CommandBits + x \in 1 .. n /\ ~ (CommandBits + x <= CommandBits)
          /\ (CommandBits + x) - CommandBits = x /\ (CommandBits + 1) + x - 1 = CommandBits + x
      BY <1>1
    <3>2. in[CommandBits + x] = f.bits[CommandBits + x]
      BY <1>10, <3>1 DEF Starts
    <3>3. f.bits[CommandBits + x] = w[x]
      BY <1>4, <3>1
    <3> QED
      BY <3>1, <3>2, <3>3 DEF w
  <2>3. Number(SubSeq(in, CommandBits + 1, (CommandBits + 1) + WordBits - 1)) = v
    <3>1. CommandBits + 1 \in Nat \ {0} /\ (CommandBits + 1) + WordBits - 1 <= Len(in)
      BY <1>1, <1>10
    <3> QED
      BY <1>1, <2>2, <3>1, Field
  <2>4. (CommandBits + 1) + WordBits - 1 = CommandBits + WordBits
    BY <1>1
  <2> QED
    BY <2>1, <2>3, <2>4 DEF Word
<1>11. /\ f.bits[1] = 1 /\ Len(f.bits) \in Nat \ {0} /\ f.first \in Nat \ {0} /\ f.from \in Nat
       /\ f.addr \in 0 .. Words - 1 /\ Len(f.bits) <= f.first + 2 * WordBits
  BY <1>1, <1>2, <1>4, <1>7, <1>8
<1> QED
  BY <1>7, <1>9, <1>10, <1>11 DEF Good, f

-----------------------------------------------------------------------------
\* The answer, bit by bit

\* The next bit of an answer doubles the answer and adds that bit.
LEMMA NextAnswer ==
  ASSUME NEW M \in Mems, NEW a \in 0 .. Words - 1, NEW q \in 0 .. 2 * WordBits - 1
  PROVE  /\ Answer(M, a, 0) = 0
         /\ Answer(M, a, q) \in Nat
         /\ Answer(M, a, q + 1) = 2 * Answer(M, a, q) + AnswerBit(M, a, q)
<1> DEFINE W == WordBits
           u == M[a]
           w == M[(a + 1) % Words]
<1>1. /\ W \in 1 .. 16 /\ W \in 0 .. 32 /\ Words \in Nat /\ Words >= 2 /\ 2 ^ W = Top
      /\ Top \in Nat \ {0}
  BY Widths
<1>2. (a + 1) % Words \in 0 .. Words - 1 /\ a % Words = a
  BY <1>1, SMT
<1>3. u \in Nat /\ w \in Nat /\ u < Top /\ w < Top
  BY <1>1, <1>2 DEF Mems
<1>4. \A v \in Nat : v < Top => v \div 2 ^ W = 0
  <2> SUFFICES ASSUME NEW v \in Nat, v < Top PROVE v \div 2 ^ W = 0
    OBVIOUS
  <2>1. 0 \in Nat /\ 0 * Top <= v /\ v < 0 * Top + Top
    BY <1>1
  <2> QED
    BY <1>1, <2>1, Quotient
<1>5. \A v \in Nat, k \in 0 .. 32 :
        v \div 2 ^ k \in Nat /\ v \div 2 ^ k = 2 * (v \div 2 ^ (k + 1)) + ((v \div 2 ^ k) % 2)
  <2> SUFFICES ASSUME NEW v \in Nat, NEW k \in 0 .. 32
               PROVE  /\ v \div 2 ^ k \in Nat
                      /\ v \div 2 ^ k = 2 * (v \div 2 ^ (k + 1)) + ((v \div 2 ^ k) % 2)
    OBVIOUS
  <2>1. v \div 2 ^ k \in Nat /\ v \div 2 ^ (k + 1) = (v \div 2 ^ k) \div 2
    BY Halve
  <2>2. \A d \in Nat : d = 2 * (d \div 2) + (d % 2)
    BY SMT
  <2> QED
    BY <2>1, <2>2
<1>6. \A v \in Nat : v \div 2 ^ 0 = v
  BY SMT
<1>7. \A v \in Nat, x \in 1 .. W : Bits(v, W)[x] = (v \div 2 ^ (W - x)) % 2
  BY <1>1, BitsOf
<1>8. Answer(M, a, 0) = 0
  <2>1. 0 <= W /\ W - 0 = W
    BY <1>1
  <2> QED
    BY <1>3, <1>4, <2>1 DEF Answer
<1>9. CASE q < W
  <2> DEFINE k == W - (q + 1)
  <2>1. /\ k \in 0 .. 32 /\ W - q = k + 1 /\ q <= W /\ q + 1 <= W /\ q + 1 \in 1 .. W /\ k + 1 \in 0 .. 32
    BY <1>1, <1>9
  <2>2. q \div W = 0 /\ q % W = q
    BY <1>1, <1>9, SMT
  <2>3. AnswerBit(M, a, q) = (u \div 2 ^ k) % 2
    <3>1. (a + 0) % Words = a /\ 1 + q = q + 1
      BY <1>2
    <3> QED
      BY <1>3, <1>7, <2>1, <2>2, <3>1 DEF AnswerBit
  <2>4. Answer(M, a, q) = u \div 2 ^ (k + 1) /\ Answer(M, a, q + 1) = u \div 2 ^ k
    BY <2>1 DEF Answer
  <2> HIDE DEF k, u
  <2> QED
    BY <1>3, <1>5, <1>8, <2>1, <2>3, <2>4
<1>10. CASE q >= W
  <2> DEFINE k == 2 * W - (q + 1)
             x == q - W
  <2>1. /\ k \in 0 .. 32 /\ 2 * W - q = k + 1 /\ ~ (q + 1 <= W) /\ x + 1 \in 1 .. W /\ k + 1 \in 0 .. 32
        /\ x \in 0 .. 32 /\ (q + 1) - W = x + 1 /\ W - (x + 1) = k /\ 1 + x = x + 1
    BY <1>1, <1>10
  <2>2. q \div W = 1 /\ q % W = x
    BY <1>1, <1>10, SMT
  <2>3. AnswerBit(M, a, q) = (w \div 2 ^ k) % 2
    BY <1>3, <1>7, <2>1, <2>2 DEF AnswerBit
  <2>4. Answer(M, a, q + 1) = u * 2 ^ (x + 1) + w \div 2 ^ k
    BY <2>1 DEF Answer
  <2>5. Answer(M, a, q) = u * 2 ^ x + w \div 2 ^ (k + 1)
    <3>1. CASE q = W
      <4>1. x = 0 /\ q <= W /\ W - q = 0 /\ k + 1 = W
        BY <1>1, <3>1
      <4>2. Answer(M, a, q) = u
        BY <1>3, <1>6, <4>1 DEF Answer
      <4>3. w \div 2 ^ (k + 1) = 0
        BY <1>3, <1>4, <4>1
      <4>4. 2 ^ x = 1
        <5>1. 2 ^ 0 = 1
          BY SMT
        <5> QED
          BY <4>1, <5>1
      <4> HIDE DEF u, w, x, k
      <4> QED
        BY <1>3, <4>2, <4>3, <4>4
    <3>2. CASE q # W
      <4>1. ~ (q <= W)
        BY <1>1, <1>10, <3>2
      <4> QED
        BY <2>1, <4>1 DEF Answer
    <3> QED
      BY <3>1, <3>2
  <2>6. 2 ^ x \in Nat /\ 2 ^ (x + 1) = 2 * 2 ^ x
    BY <2>1, PowersOfTwo
  <2>7. /\ w \div 2 ^ k = 2 * (w \div 2 ^ (k + 1)) + ((w \div 2 ^ k) % 2)
        /\ w \div 2 ^ (k + 1) \in Nat
    BY <1>3, <1>5, <2>1
  <2> HIDE DEF k, x, u, w
  <2>8. u * 2 ^ x \in Nat /\ u * (2 * 2 ^ x) = 2 * (u * 2 ^ x)
    BY <1>3, <2>6, SMT
  <2>9. AnswerBit(M, a, q) \in {0, 1}
    <3>1. a \in Nat /\ q \in Nat
      BY <1>1
    <3> QED
      BY <3>1, AnswerBits
  <2>10. Answer(M, a, q + 1) = 2 * (u * 2 ^ x) + (2 * (w \div 2 ^ (k + 1)) + AnswerBit(M, a, q))
    BY <2>3, <2>4, <2>6, <2>7, <2>8
  <2>11. \A g, h \in Nat, z \in {0, 1} : 2 * g + (2 * h + z) = 2 * (g + h) + z /\ g + h \in Nat
    OBVIOUS
  <2> QED
    BY <1>8, <2>5, <2>7, <2>8, <2>9, <2>10, <2>11
<1> QED
  BY <1>1, <1>9, <1>10

\* The whole answer is the word at the address, followed by the next.
LEMMA WholeAnswer ==
  ASSUME NEW M \in Mems, NEW a \in 0 .. Words - 1
  PROVE  Answer(M, a, 2 * WordBits) = M[a] * 2 ^ WordBits + M[(a + 1) % Words]
<1>1. /\ WordBits \in 1 .. 16 /\ ~ (2 * WordBits <= WordBits) /\ 2 * WordBits - WordBits = WordBits
      /\ 2 * WordBits - 2 * WordBits = 0 /\ Words \in Nat /\ Words >= 2 /\ Top \in Nat
  BY Widths
<1>2. (a + 1) % Words \in 0 .. Words - 1
  BY <1>1, SMT
<1>3. M[(a + 1) % Words] \in Nat
  BY <1>1, <1>2 DEF Mems
<1>4. \A v \in Nat : v \div 2 ^ 0 = v
  BY SMT
<1> QED
  BY <1>1, <1>3, <1>4 DEF Answer

\* As many samples bring as many bits of the answer; a frame that samples none, none.
LEMMA NextSample ==
  ASSUME NEW f, Good(f), NEW M \in Mems, NEW y \in 1 .. Len(f.bits)
  PROVE  /\ y <= f.first => Answer(M, f.addr, Samples(f, y)) = Answer(M, f.addr, Samples(f, y - 1))
         /\ y > f.first => Answer(M, f.addr, Samples(f, y)) =
                             2 * Answer(M, f.addr, Samples(f, y - 1))
                             + AnswerBit(M, f.addr, y - 1 - f.first)
<1>1. f.first \in Nat /\ Len(f.bits) <= f.first + 2 * WordBits /\ f.addr \in 0 .. Words - 1
      /\ Len(f.bits) \in Nat /\ WordBits \in Nat
  BY Widths DEF Good
<1>2. ASSUME y <= f.first PROVE Samples(f, y) = Samples(f, y - 1)
  BY <1>1, <1>2 DEF Samples
<1>3. ASSUME y > f.first
      PROVE  Answer(M, f.addr, Samples(f, y)) = 2 * Answer(M, f.addr, Samples(f, y - 1))
                                               + AnswerBit(M, f.addr, y - 1 - f.first)
  <2> DEFINE q == y - 1 - f.first
  <2>1. q \in 0 .. 2 * WordBits - 1 /\ Samples(f, y) = q + 1 /\ Samples(f, y - 1) = q
    BY <1>1, <1>3 DEF Samples
  <2> HIDE DEF q
  <2>2. Answer(M, f.addr, q + 1) = 2 * Answer(M, f.addr, q) + AnswerBit(M, f.addr, q)
    BY <1>1, <2>1, NextAnswer
  <2> QED
    BY <2>1, <2>2 DEF q
<1> QED
  BY <1>2, <1>3

-----------------------------------------------------------------------------
\* The operations of a frame

\* One sequence after another, and how flattening joins sequences one by one
Then(s, t) == s \o t
Parts(s, f) ==
  /\ FlattenSeq(s) = f[Len(s)] /\ f[1] = s[1]
  /\ \A i \in 1 .. Len(s) - 1 : f[i + 1] = Then(f[i], s[i + 1])

\* A nonempty sequence of sequences is flattened one by one.
LEMMA FlattenSteps == \A s : Len(s) \in Nat \ {0} => \E f : Parts(s, f)
<1> SUFFICES ASSUME NEW s, Len(s) \in Nat \ {0} PROVE \E f : Parts(s, f)
  OBVIOUS
<1> QED
  BY FlattenJoins DEF Parts, Then

Joins(E) ==
  /\ \A s, t \in E : Then(s, t) \in E
  /\ \A s, t, u \in E : Then(Then(s, t), u) = Then(s, Then(t, u))

\* Sequences put together are sequences, however they are grouped.
LEMMA Follow == \A S : Joins(Seq(S))
  BY ConcatProperties, ConcatAssociative DEF Then, Joins

\* Places in two sequences put together
LEMMA Places ==
  ASSUME NEW m \in Nat \ {0}, NEW n \in Nat \ {0}
  PROVE  /\ \A i \in 1 .. m - 1 : i \in 1 .. m + n - 1 /\ i + 1 \in 1 .. m
         /\ \A i \in 1 .. n - 1 :
              m + i \in 1 .. m + n - 1 /\ i + 1 \in 1 .. n /\ m + (i + 1) = (m + i) + 1
  BY SMT

\* Sequences of sequences put together, flattened
LEMMA FlattenParts ==
  ASSUME NEW S, NEW s \in Seq(Seq(S)), NEW t \in Seq(Seq(S)), NEW u \in Seq(Seq(S)),
         Len(u) = Len(s) + Len(t),
         \A i \in 1 .. Len(s) : u[i] = s[i],
         \A i \in 1 .. Len(t) : u[Len(s) + i] = t[i]
  PROVE  FlattenSeq(u) = FlattenSeq(s) \o FlattenSeq(t)
<1> DEFINE m == Len(s)
           n == Len(t)
<1>1. m \in Nat /\ n \in Nat /\ (m = 0 => s = <<>>) /\ (n = 0 => t = <<>>)
  BY LenProperties, EmptySeq
<1>2. FlattenSeq(s) \in Seq(S) /\ FlattenSeq(t) \in Seq(S)
  BY FlattenType
<1>3. FlattenSeq(<<>>) = <<>>
  BY DEF FlattenSeq
<1>4. CASE m = 0
  <2>1. \A i \in 1 .. Len(u) : u[i] = t[i]
    BY <1>1, <1>4
  <2>2. Len(u) = Len(t)
    BY <1>1, <1>4
  <2>3. u = t
    BY <2>1, <2>2, SeqEqual
  <2>4. <<>> \o FlattenSeq(t) = FlattenSeq(t)
    BY <1>2, ConcatEmptySeq
  <2> QED
    BY <1>1, <1>3, <1>4, <2>3, <2>4
<1>5. CASE n = 0
  <2>1. Len(u) = Len(s) /\ \A i \in 1 .. Len(u) : u[i] = s[i]
    BY <1>1, <1>5
  <2>2. u = s
    BY <2>1, SeqEqual
  <2>3. FlattenSeq(s) \o <<>> = FlattenSeq(s)
    BY <1>2, ConcatEmptySeq
  <2> QED
    BY <1>1, <1>3, <1>5, <2>2, <2>3
<1>6. CASE m # 0 /\ n # 0
  <2>1. /\ m \in Nat \ {0} /\ n \in Nat \ {0} /\ Len(u) = m + n /\ Len(u) \in Nat \ {0}
        /\ 1 \in 1 .. m /\ 1 \in 1 .. n /\ m \in 1 .. m /\ n \in 1 .. n
    BY <1>1, <1>6
  <2>2. PICK f : Parts(s, f)
    BY <2>1, FlattenSteps
  <2>3. PICK g : Parts(t, g)
    BY <2>1, FlattenSteps
  <2>4. PICK h : Parts(u, h)
    BY <2>1, FlattenSteps
  <2>5. h[m] = FlattenSeq(s)
    <3> DEFINE T == {i \in 1 .. m : h[i] = f[i]}
    <3>1. 1 \in T
      BY <2>1, <2>2, <2>4 DEF Parts
    <3>2. ASSUME NEW i \in 1 .. m - 1, i \in T PROVE i + 1 \in T
      <4>1. i \in 1 .. Len(u) - 1 /\ i + 1 \in 1 .. m
        <5>1. i \in 1 .. m + n - 1 /\ i + 1 \in 1 .. m
          <6> HIDE DEF m, n
          <6> QED
            BY <2>1, Places
        <5> QED
          BY <2>1, <5>1
      <4>2. h[i] = f[i] /\ u[i + 1] = s[i + 1]
        BY <3>2, <4>1
      <4>3. h[i + 1] = Then(h[i], u[i + 1]) /\ f[i + 1] = Then(f[i], s[i + 1])
        BY <2>2, <2>4, <4>1 DEF Parts
      <4>4. h[i + 1] = f[i + 1]
        BY <4>2, <4>3
      <4> QED
        BY <4>1, <4>4
    <3>3. 1 .. m \subseteq T
      <4> HIDE DEF T
      <4> QED
        BY <1>1, <3>1, <3>2, Induct
    <3>4. h[m] = f[m]
      BY <2>1, <3>3
    <3> QED
      BY <2>2, <3>4 DEF Parts
  <2>6. g[n] \in Seq(S) /\ h[m + n] = Then(FlattenSeq(s), g[n])
    <3> DEFINE F == FlattenSeq(s)
               T == {i \in 1 .. n : g[i] \in Seq(S) /\ h[m + i] = Then(F, g[i])}
    <3>1. 1 \in T
      <4>1. m \in 1 .. Len(u) - 1 /\ u[m + 1] = t[1]
        BY <2>1
      <4>2. h[m + 1] = Then(h[m], u[m + 1])
        BY <2>4, <4>1 DEF Parts
      <4>3. t[1] \in Seq(S)
        BY <2>1, ElementOfSeq
      <4>4. g[1] = t[1]
        BY <2>3 DEF Parts
      <4> QED
        BY <2>1, <2>5, <4>1, <4>2, <4>3, <4>4
    <3>2. ASSUME NEW i \in 1 .. n - 1, i \in T PROVE i + 1 \in T
      <4>1. m + i \in 1 .. Len(u) - 1 /\ i + 1 \in 1 .. n /\ m + (i + 1) = (m + i) + 1
        <5>1. m + i \in 1 .. m + n - 1 /\ i + 1 \in 1 .. n /\ m + (i + 1) = (m + i) + 1
          <6> HIDE DEF m, n
          <6> QED
            BY <2>1, Places
        <5> QED
          BY <2>1, <5>1
      <4>2. g[i] \in Seq(S) /\ h[m + i] = Then(F, g[i]) /\ u[m + (i + 1)] = t[i + 1]
        BY <3>2, <4>1
      <4>3. h[m + (i + 1)] = Then(h[m + i], u[m + (i + 1)]) /\ g[i + 1] = Then(g[i], t[i + 1])
        BY <2>3, <2>4, <4>1 DEF Parts
      <4>4. t[i + 1] \in Seq(S)
        BY <4>1, ElementOfSeq
      <4> HIDE DEF F, T
      <4>5. F \in Seq(S)
        BY <1>2 DEF F
      <4>6. Then(g[i], t[i + 1]) \in Seq(S)
            /\ Then(Then(F, g[i]), t[i + 1]) = Then(F, Then(g[i], t[i + 1]))
        <5>1. Joins(Seq(S))
          BY Follow
        <5>2. g[i] \in Seq(S)
          BY <4>2
        <5> QED
          BY <4>4, <4>5, <5>1, <5>2 DEF Joins
      <4>7. g[i + 1] \in Seq(S) /\ h[m + (i + 1)] = Then(F, g[i + 1])
        BY <4>2, <4>3, <4>6
      <4> QED
        BY <4>1, <4>7 DEF T
    <3>3. 1 .. n \subseteq T
      <4> HIDE DEF T
      <4> QED
        BY <1>1, <3>1, <3>2, Induct
    <3> QED
      BY <2>1, <3>3
  <2>7. FlattenSeq(t) = g[n] /\ FlattenSeq(u) = h[m + n]
    BY <2>1, <2>3, <2>4 DEF Parts
  <2> QED
    BY <2>6, <2>7 DEF Then
<1> QED
  BY <1>4, <1>5, <1>6

\* One sequence, flattened
LEMMA FlattenOne ==
  ASSUME NEW S, NEW s \in Seq(S), NEW t \in Seq(Seq(S)), Len(t) = 1, t[1] = s
  PROVE  FlattenSeq(t) = s
<1>1. Len(t) \in Nat \ {0}
  OBVIOUS
<1> QED
  BY <1>1, FlattenJoins

\* The operations the calls are made of
LEMMA OneOps ==
  LET E == Seq(EepromOps)
  IN  /\ <<Clear({"din", "clk"})>> \in E /\ <<Clear({"cs"})>> \in E /\ <<Set({"cs"})>> \in E
      /\ <<Set({"din"})>> \in E /\ <<Set({"clk"})>> \in E /\ <<Sample>> \in E /\ <<Pause>> \in E
      /\ <<>> \in E
<1>1. /\ Clear({"din", "clk"}) \in EepromOps /\ Clear({"cs"}) \in EepromOps
      /\ Set({"cs"}) \in EepromOps /\ Set({"din"}) \in EepromOps /\ Set({"clk"}) \in EepromOps
      /\ Sample \in EepromOps /\ Pause \in EepromOps
  BY DEF EepromOps, Clear, Set
<1> QED
  BY <1>1

\* They are closed under concatenation, which associates.
LEMMA Joined ==
  \A s, t \in Seq(EepromOps) : s \o t \in Seq(EepromOps) /\ s \o <<>> = s /\ <<>> \o s = s
  BY ConcatProperties, ConcatEmptySeq

\* Putting sequences together is associative.
LEMMA Associates ==
  \A s, t, u \in Seq(EepromOps) : (s \o t) \o u = s \o (t \o u)
  BY ConcatAssociative

\* The regroupings the proofs need
LEMMA BitJoins ==
  ASSUME NEW p \in Seq(EepromOps), NEW c \in Seq(EepromOps), NEW d \in Seq(EepromOps),
         NEW k \in Seq(EepromOps), NEW K \in Seq(EepromOps)
  PROVE  Then(Then(p, Then(Then(c, d), Then(k, c))), K)
           = Then(p, Then(c, Then(d, Then(k, Then(c, K)))))
<1> DEFINE E == Seq(EepromOps)
<1>1. \A x, y \in E : Then(x, y) \in E
  BY Follow DEF Joins
<1>2. \A x, y, z \in E : Then(Then(x, y), z) = Then(x, Then(y, z))
  BY Follow DEF Joins
<1>3. p \in E /\ c \in E /\ d \in E /\ k \in E /\ K \in E
  OBVIOUS
<1> HIDE DEF E
<1> QED
  BY <1>1, <1>2, <1>3

\* The regrouping of a write enable command
LEMMA EnableJoins ==
  ASSUME NEW c \in Seq(EepromOps), NEW d \in Seq(EepromOps), NEW s \in Seq(EepromOps),
         NEW e \in Seq(EepromOps), NEW K \in Seq(EepromOps)
  PROVE  Then(Then(Then(Then(c, d), s), e), K)
           = Then(c, Then(d, Then(s, Then(e, K))))
<1> DEFINE E == Seq(EepromOps)
<1>1. \A x, y \in E : Then(x, y) \in E
  BY Follow DEF Joins
<1>2. \A x, y, z \in E : Then(Then(x, y), z) = Then(x, Then(y, z))
  BY Follow DEF Joins
<1>3. c \in E /\ d \in E /\ s \in E /\ e \in E /\ K \in E
  OBVIOUS
<1> HIDE DEF E
<1>4. Then(c, d) \in E /\ Then(Then(c, d), s) \in E /\ Then(e, K) \in E
  BY <1>1, <1>3
<1>5. Then(Then(Then(Then(c, d), s), e), K) = Then(Then(Then(c, d), s), Then(e, K))
  BY <1>2, <1>3, <1>4
<1>6. Then(Then(Then(c, d), s), Then(e, K)) = Then(Then(c, d), Then(s, Then(e, K)))
  BY <1>2, <1>3, <1>4
<1>7. Then(Then(c, d), Then(s, Then(e, K))) = Then(c, Then(d, Then(s, Then(e, K))))
  BY <1>1, <1>2, <1>3, <1>4
<1> QED
  BY <1>5, <1>6, <1>7

\* The regrouping of a read
LEMMA ReadJoins ==
  ASSUME NEW a \in Seq(EepromOps), NEW d \in Seq(EepromOps), NEW s \in Seq(EepromOps),
         NEW o \in Seq(EepromOps), NEW r \in Seq(EepromOps), NEW e \in Seq(EepromOps)
  PROVE  Then(Then(Then(Then(Then(a, d), s), o), r), e)
           = Then(a, Then(d, Then(Then(s, Then(o, r)), e)))
<1> DEFINE E == Seq(EepromOps)
<1>1. \A x, y \in E : Then(x, y) \in E
  BY Follow DEF Joins
<1>2. \A x, y, z \in E : Then(Then(x, y), z) = Then(x, Then(y, z))
  BY Follow DEF Joins
<1>3. a \in E /\ d \in E /\ s \in E /\ o \in E /\ r \in E /\ e \in E
  OBVIOUS
<1> HIDE DEF E
<1> DEFINE B == Then(a, d)
           Q == Then(s, Then(o, r))
<1>4. Then(o, r) \in E /\ B \in E /\ Then(B, s) \in E /\ Q \in E
  BY <1>1, <1>3
<1>5. Then(Then(Then(B, s), o), r) = Then(Then(B, s), Then(o, r))
  BY <1>2, <1>3, <1>4
<1>6. Then(Then(B, s), Then(o, r)) = Then(B, Q)
  BY <1>2, <1>3, <1>4
<1> HIDE DEF Q
<1>7. Then(Then(B, Q), e) = Then(B, Then(Q, e))
  BY <1>2, <1>3, <1>4
<1>8. Then(B, Then(Q, e)) = Then(a, Then(d, Then(Q, e)))
  BY <1>1, <1>2, <1>3, <1>4
<1> QED
  BY <1>5, <1>6, <1>7, <1>8 DEF Q

\* A bit's operations, before K
LEMMA BitTail ==
  ASSUME NEW f, NEW y, NEW K \in Seq(EepromOps)
  PROVE  /\ BitOps(f, y) \in Seq(EepromOps) /\ BitOps(f, y) \o K = Sampling(f, y, K)
         /\ Cleared(K) \in Seq(EepromOps) /\ Clocking(K) \in Seq(EepromOps)
         /\ \A b : Setting(b, K) \in Seq(EepromOps) /\ Sending(b, K) \in Seq(EepromOps)
         /\ Sampling(f, y, K) \in Seq(EepromOps)
<1> DEFINE b == f.bits[y]
           c == <<Clear({"din", "clk"})>>
           d == IF b = 1 THEN <<Set({"din"})>> ELSE <<>>
           k == <<Set({"clk"})>>
           p == IF y > f.first THEN <<Sample>> ELSE <<>>
           E == Seq(EepromOps)
<1>1. c \in E /\ d \in E /\ k \in E /\ p \in E /\ K \in E
  BY OneOps
<1>2. Cleared(K) = c \o K /\ Clocking(K) = k \o (c \o K)
  BY DEF Cleared, Clocking
<1>3. Setting(b, K) = d \o (k \o (c \o K))
  <2>1. k \o (c \o K) \in E
    BY <1>1, Joined
  <2>2. <<>> \o (k \o (c \o K)) = k \o (c \o K)
    BY <2>1, Joined
  <2> QED
    BY <1>2, <2>2 DEF Setting
<1>4. Sending(b, K) = c \o (d \o (k \o (c \o K)))
  BY <1>3 DEF Sending
<1>5. Sampling(f, y, K) = p \o (c \o (d \o (k \o (c \o K))))
  <2>1. c \o (d \o (k \o (c \o K))) \in E
    BY <1>1, Joined
  <2>2. <<>> \o (c \o (d \o (k \o (c \o K)))) = c \o (d \o (k \o (c \o K)))
    BY <2>1, Joined
  <2> QED
    BY <1>4, <2>2 DEF Sampling
<1>6. BitOps(f, y) = p \o ((c \o d) \o (k \o c))
  <2>1. <<Set({"clk"}), Clear({"din", "clk"})>> = k \o c
    OBVIOUS
  <2> QED
    BY <2>1 DEF BitOps, WriteSer
<1> HIDE DEF c, d, k, p, E, b
<1>7. \A r, s \in E : r \o s \in E
  BY Joined DEF E
<1>8. /\ k \o c \in E /\ c \o d \in E /\ (c \o d) \o (k \o c) \in E
      /\ p \o ((c \o d) \o (k \o c)) \in E
  BY <1>1, <1>7
<1>9. c \o K \in E /\ k \o (c \o K) \in E /\ d \o (k \o (c \o K)) \in E
      /\ c \o (d \o (k \o (c \o K))) \in E /\ p \o (c \o (d \o (k \o (c \o K)))) \in E
  BY <1>1, <1>7
<1>10. (p \o ((c \o d) \o (k \o c))) \o K = p \o (c \o (d \o (k \o (c \o K))))
  <2>1. Then(Then(p, Then(Then(c, d), Then(k, c))), K) = Then(p, Then(c, Then(d, Then(k, Then(c, K)))))
    BY <1>1, BitJoins DEF E
  <2> QED
    BY <2>1 DEF Then
<1>11. \A e : Setting(e, K) \in E /\ Sending(e, K) \in E
  <2> TAKE e
  <2>1. <<Set({"din"})>> \in E
    BY OneOps DEF E
  <2>2. Setting(e, K) \in E
    BY <1>2, <1>7, <1>9, <2>1 DEF Setting
  <2> QED
    BY <1>1, <1>7, <2>2 DEF Sending, c
<1> QED
  BY <1>2, <1>5, <1>6, <1>8, <1>9, <1>10, <1>11 DEF E

\* The operations of the bits of a frame
LEMMA RestBits ==
  ASSUME NEW f, Len(f.bits) \in Nat
  PROVE  /\ Rest(f, Len(f.bits)) = <<>>
         /\ \A x \in 0 .. Len(f.bits) : Rest(f, x) \in Seq(EepromOps)
         /\ \A x \in 0 .. Len(f.bits) - 1, K \in Seq(EepromOps) :
              Rest(f, x) \o K = Sampling(f, x + 1, Rest(f, x + 1) \o K)
<1> DEFINE n == Len(f.bits)
           E == Seq(EepromOps)
           s(x) == [y \in 1 .. n - x |-> BitOps(f, x + y)]
<1>1. \A y : BitOps(f, y) \in E
  <2>1. <<>> \in E
    BY OneOps
  <2> QED
    BY <2>1, BitTail
<1>2. \A x \in 0 .. n : s(x) \in Seq(E) /\ Len(s(x)) = n - x
  <2> SUFFICES ASSUME NEW x \in 0 .. n PROVE s(x) \in Seq(E) /\ Len(s(x)) = n - x
    OBVIOUS
  <2>1. s(x) \in [1 .. n - x -> E] /\ n - x \in Nat
    BY <1>1
  <2> HIDE DEF s, E
  <2> QED
    BY <2>1, FromFunction
<1>3. \A x : Rest(f, x) = FlattenSeq(s(x))
  BY DEF Rest
<1>4. \A x \in 0 .. n : \A y \in 1 .. n - x : s(x)[y] = BitOps(f, x + y)
  OBVIOUS
<1> HIDE DEF s, n
<1>5. \A x \in 0 .. n : Rest(f, x) \in E
  BY <1>2, <1>3, FlattenType
<1>6. Rest(f, n) = <<>>
  <2>1. n \in 0 .. n /\ n - n = 0
    BY DEF n
  <2>2. s(n) = <<>>
    BY <1>2, <2>1, EmptySeq
  <2>3. Rest(f, n) = FlattenSeq(<<>>)
    BY <1>3, <2>2
  <2>4. FlattenSeq(<<>>) = <<>>
    BY DEF FlattenSeq
  <2> QED
    BY <2>3, <2>4
<1>7. ASSUME NEW x \in 0 .. n - 1, NEW K \in E
      PROVE  Rest(f, x) \o K = Sampling(f, x + 1, Rest(f, x + 1) \o K)
  <2> DEFINE b == BitOps(f, x + 1)
             t == <<b>>
  <2>1. n \in Nat /\ x \in 0 .. n /\ x + 1 \in 0 .. n /\ n - x = 1 + (n - (x + 1)) /\ n - x \in Nat \ {0}
    BY DEF n
  <2>2. b \in E /\ t \in Seq(E) /\ Len(t) = 1 /\ t[1] = b
    BY <1>1
  <2> HIDE DEF b, t
  <2>3. FlattenSeq(t) = b
    BY <2>2, FlattenOne
  <2>4. /\ s(x) \in Seq(E) /\ s(x + 1) \in Seq(E)
        /\ Len(s(x)) = Len(t) + Len(s(x + 1)) /\ Len(s(x + 1)) = n - (x + 1)
    BY <1>2, <2>1, <2>2
  <2>5. \A i \in 1 .. Len(t) : s(x)[i] = t[i]
    <3>1. \A i \in 1 .. Len(t) : i = 1
      BY <2>2
    <3>2. s(x)[1] = b
      BY <1>4, <2>1 DEF b
    <3> QED
      BY <2>2, <3>1, <3>2
  <2>6. \A i \in 1 .. Len(s(x + 1)) : s(x)[Len(t) + i] = s(x + 1)[i]
    <3> SUFFICES ASSUME NEW i \in 1 .. n - (x + 1) PROVE s(x)[1 + i] = s(x + 1)[i]
      BY <2>2, <2>4
    <3>1. 1 + i \in 1 .. n - x /\ x + (1 + i) = (x + 1) + i
      BY <2>1
    <3>2. s(x)[1 + i] = BitOps(f, x + (1 + i)) /\ s(x + 1)[i] = BitOps(f, (x + 1) + i)
      BY <1>4, <2>1, <3>1
    <3> QED
      BY <3>1, <3>2
  <2>7. Rest(f, x) = b \o Rest(f, x + 1)
    <3>1. FlattenSeq(s(x)) = FlattenSeq(t) \o FlattenSeq(s(x + 1))
      BY <2>2, <2>4, <2>5, <2>6, FlattenParts
    <3> QED
      BY <1>3, <2>3, <3>1
  <2>8. Rest(f, x + 1) \in E
    BY <1>5, <2>1
  <2>9. Rest(f, x) \o K = b \o (Rest(f, x + 1) \o K) /\ Rest(f, x + 1) \o K \in E
    <3>1. (b \o Rest(f, x + 1)) \o K = b \o (Rest(f, x + 1) \o K)
      BY <2>2, <2>8, Associates
    <3>2. Rest(f, x + 1) \o K \in E
      BY <2>8, Joined
    <3> QED
      BY <2>7, <3>1, <3>2
  <2> QED
    BY <2>9, BitTail DEF b
<1> QED
  BY <1>5, <1>6, <1>7 DEF n

-----------------------------------------------------------------------------
\* The calls, as frames

\* A frame's operations are those of its two parts: the command, and what follows it.
LEMMA TwoParts ==
  ASSUME NEW f, NEW m \in Nat, NEW n \in Nat, Len(f.bits) = m + n, NEW w,
         NEW t \in [1 .. n -> Seq(EepromOps)],
         \A x \in 1 .. m : BitOps(f, x) = WriteSer(Bits(w, m)[x]),
         \A x \in 1 .. n : BitOps(f, m + x) = t[x]
  PROVE  Rest(f, 0) = Send(w, m) \o FlattenSeq(t)
<1> DEFINE E == Seq(EepromOps)
           s == [x \in 1 .. m |-> WriteSer(Bits(w, m)[x])]
           u == [y \in 1 .. (m + n) - 0 |-> BitOps(f, 0 + y)]
<1>1. s \in [1 .. m -> E]
  BY SerialBit
<1>2. (m + n) - 0 = m + n /\ m + n \in Nat /\ \A y \in 1 .. m + n : 0 + y = y
  OBVIOUS
<1>3. \A y : BitOps(f, y) \in E
  <2>1. <<>> \in E
    BY OneOps
  <2> QED
    BY <2>1, BitTail
<1>4. u \in [1 .. m + n -> E] /\ \A y \in 1 .. m + n : u[y] = BitOps(f, y)
  BY <1>2, <1>3
<1>5. \A x \in 1 .. m : s[x] = BitOps(f, x)
  OBVIOUS
<1>6. Send(w, m) = FlattenSeq(s) /\ Rest(f, 0) = FlattenSeq(u)
  BY DEF Send, Rest
<1> HIDE DEF s, u, E
<1>7. s \in Seq(E) /\ Len(s) = m /\ t \in Seq(E) /\ Len(t) = n /\ u \in Seq(E) /\ Len(u) = m + n
  BY <1>1, <1>2, <1>4, FromFunction DEF E
<1>8. \A i \in 1 .. m : u[i] = s[i]
  BY <1>4, <1>5
<1>9. \A i \in 1 .. n : u[m + i] = t[i]
  BY <1>4
<1>10. FlattenSeq(u) = FlattenSeq(s) \o FlattenSeq(t)
  <2>1. Len(u) = Len(s) + Len(t)
    BY <1>7
  <2>2. (\A i \in 1 .. Len(s) : u[i] = s[i]) /\ \A i \in 1 .. Len(t) : u[Len(s) + i] = t[i]
    BY <1>7, <1>8, <1>9
  <2> QED
    BY <1>7, <2>1, <2>2, FlattenParts DEF E
<1> QED
  BY <1>6, <1>10

\* Commands are sent as words.
LEMMA SendOps == \A w : Send(w, CommandBits) \in Seq(EepromOps) /\ Send(w, WordBits) \in Seq(EepromOps)
  BY Widths, SerialWord

\* The write enable command
LEMMA EnableOps == Rest(EnableFrame, 0) = Send(WEN_Command, CommandBits)
<1> DEFINE f == EnableFrame
           t == <<>>
<1>1. CommandBits \in Nat /\ 0 \in Nat /\ Len(f.bits) = CommandBits + 0
  BY Widths, EnableGood
<1>2. t \in [1 .. 0 -> Seq(EepromOps)] /\ FlattenSeq(t) = <<>>
  BY DEF FlattenSeq
<1>3. ASSUME NEW x \in 1 .. CommandBits
      PROVE  BitOps(f, x) = WriteSer(Bits(WEN_Command, CommandBits)[x])
  <2>1. ~ (x > f.first) /\ f.bits = Bits(WEN_Command, CommandBits)
    BY <1>1 DEF EnableFrame
  <2>2. <<>> \o WriteSer(f.bits[x]) = WriteSer(f.bits[x])
    BY SerialBit, Joined
  <2> QED
    BY <2>1, <2>2 DEF BitOps
<1> HIDE DEF f, t
<1>4. \A x \in 1 .. 0 : BitOps(f, CommandBits + x) = t[x]
  OBVIOUS
<1>5. Rest(f, 0) = Send(WEN_Command, CommandBits) \o FlattenSeq(t)
  BY <1>1, <1>2, <1>3, <1>4, TwoParts
<1>6. Send(WEN_Command, CommandBits) \o <<>> = Send(WEN_Command, CommandBits)
  BY SendOps, Joined
<1> QED
  BY <1>2, <1>5, <1>6 DEF f

\* The read command, a bit more, and the samples
LEMMA ReadOps ==
  ASSUME NEW a \in 0 .. Words - 1
  PROVE  LET r == FlattenSeq([x \in 1 .. 2 * WordBits |-> <<Sample>> \o WriteSer(0)])
         IN  /\ r \in Seq(EepromOps)
             /\ Rest(ReadFrame(a), 0) = Send(READ_Command(a), CommandBits) \o (WriteSer(0) \o r)
<1> DEFINE f == ReadFrame(a)
           E == Seq(EepromOps)
           W == 2 * WordBits
           n == 1 + W
           o == WriteSer(0)
           z == <<Sample>> \o o
           s == [x \in 1 .. W |-> z]
           t == [x \in 1 .. n |-> IF x = 1 THEN o ELSE z]
           h == <<o>>
<1>1. /\ CommandBits \in Nat /\ W \in Nat /\ n \in Nat
      /\ CommandBits + 1 + W = CommandBits + n /\ Len(f.bits) = CommandBits + n
  <2>1. CommandBits \in Nat /\ W \in Nat
    BY Widths
  <2>2. Len(f.bits) = CommandBits + 1 + W
    BY ReadGood
  <2> QED
    BY <2>1, <2>2
<1>2. o \in E /\ z \in E
  <2>1. o \in E /\ <<Sample>> \in E
    BY SerialBit, OneOps
  <2> QED
    BY <2>1, Joined
<1>3. f.first = CommandBits + 1
      /\ f.bits = [x \in 1 .. CommandBits + n |->
                     IF x <= CommandBits THEN Bits(READ_Command(a), CommandBits)[x] ELSE 0]
  BY <1>1 DEF ReadFrame
<1> HIDE DEF f, W
<1>4. ASSUME NEW x \in 1 .. CommandBits
      PROVE  BitOps(f, x) = WriteSer(Bits(READ_Command(a), CommandBits)[x])
  <2>1. x \in 1 .. CommandBits + n /\ x <= CommandBits /\ ~ (x > f.first)
    BY <1>1, <1>3
  <2>2. f.bits[x] = Bits(READ_Command(a), CommandBits)[x]
    BY <1>3, <2>1
  <2>3. <<>> \o WriteSer(f.bits[x]) = WriteSer(f.bits[x])
    BY SerialBit, Joined
  <2> QED
    BY <2>1, <2>2, <2>3 DEF BitOps
<1>5. ASSUME NEW x \in 1 .. n PROVE BitOps(f, CommandBits + x) = t[x]
  <2>1. CommandBits + x \in 1 .. CommandBits + n /\ ~ (CommandBits + x <= CommandBits)
        /\ (CommandBits + x > f.first <=> x # 1)
    BY <1>1, <1>3
  <2>2. f.bits[CommandBits + x] = 0
    BY <1>3, <2>1
  <2>3. <<>> \o WriteSer(0) = WriteSer(0)
    BY SerialBit, Joined
  <2>4. t[x] = IF x = 1 THEN o ELSE z
    OBVIOUS
  <2> QED
    BY <2>1, <2>2, <2>3, <2>4 DEF BitOps
<1>6. t \in [1 .. n -> E] /\ s \in [1 .. W -> E]
  BY <1>2
<1>7. \A x \in 1 .. n : t[x] = IF x = 1 THEN o ELSE z
  OBVIOUS
<1>8. \A x \in 1 .. W : s[x] = z
  OBVIOUS
<1>9. h \in Seq(E) /\ Len(h) = 1 /\ h[1] = o
  BY <1>2
<1> HIDE DEF s, t, o, z, h, E
<1>10. Rest(f, 0) = Send(READ_Command(a), CommandBits) \o FlattenSeq(t)
  <2> HIDE DEF n
  <2> QED
    BY <1>1, <1>4, <1>5, <1>6, TwoParts DEF E
<1>11. t \in Seq(E) /\ Len(t) = n /\ s \in Seq(E) /\ Len(s) = W
  BY <1>1, <1>6, FromFunction
<1>12. FlattenSeq(t) = o \o FlattenSeq(s)
  <2>1. Len(t) = Len(h) + Len(s)
    BY <1>9, <1>11
  <2>2. \A i \in 1 .. Len(h) : t[i] = h[i]
    <3>1. \A i \in 1 .. Len(h) : i = 1
      BY <1>9
    <3>2. t[1] = o
      BY <1>1, <1>7
    <3> QED
      BY <1>9, <3>1, <3>2
  <2>3. \A i \in 1 .. Len(s) : t[Len(h) + i] = s[i]
    <3> SUFFICES ASSUME NEW i \in 1 .. W PROVE t[1 + i] = s[i]
      BY <1>9, <1>11
    <3>1. 1 + i \in 1 .. n /\ 1 + i # 1
      BY <1>1
    <3> QED
      BY <1>7, <1>8, <3>1
  <2>4. FlattenSeq(h) = o
    BY <1>2, <1>9, FlattenOne DEF E
  <2>5. FlattenSeq(t) = FlattenSeq(h) \o FlattenSeq(s)
    BY <1>9, <1>11, <2>1, <2>2, <2>3, FlattenParts DEF E
  <2> QED
    BY <2>4, <2>5
<1>13. FlattenSeq(s) \in E
  BY <1>11, FlattenType DEF E
<1> QED
  BY <1>10, <1>12, <1>13 DEF f, s, o, z, E, W

\* The write command and the word
LEMMA WriteOps ==
  ASSUME NEW a \in 0 .. 2 ^ AddrBits - 1, NEW v \in 0 .. Top - 1
  PROVE  Rest(WriteFrame(a, v), 0) = Send(WRITE_Command(a), CommandBits) \o Send(v, WordBits)
<1> DEFINE f == WriteFrame(a, v)
           E == Seq(EepromOps)
           n == CommandBits + WordBits
           t == [x \in 1 .. WordBits |-> WriteSer(Bits(v, WordBits)[x])]
<1>1. CommandBits \in Nat /\ WordBits \in Nat /\ n \in Nat /\ Len(f.bits) = n
  <2>1. CommandBits \in Nat /\ WordBits \in Nat /\ n \in Nat
    BY Widths
  <2>2. Len(f.bits) = n
    BY WriteGood
  <2> QED
    BY <2>1, <2>2
<1>2. /\ f.first = n + 1
      /\ f.bits = [x \in 1 .. n |-> IF x <= CommandBits THEN Bits(WRITE_Command(a), CommandBits)[x]
                                    ELSE Bits(v, WordBits)[x - CommandBits]]
  BY DEF WriteFrame
<1> HIDE DEF f
<1>3. \A x \in 1 .. n : BitOps(f, x) = WriteSer(f.bits[x])
  <2> SUFFICES ASSUME NEW x \in 1 .. n PROVE BitOps(f, x) = WriteSer(f.bits[x])
    OBVIOUS
  <2>1. ~ (x > f.first)
    BY <1>1, <1>2
  <2>2. <<>> \o WriteSer(f.bits[x]) = WriteSer(f.bits[x])
    BY SerialBit, Joined
  <2> QED
    BY <2>1, <2>2 DEF BitOps
<1>4. ASSUME NEW x \in 1 .. CommandBits
      PROVE  BitOps(f, x) = WriteSer(Bits(WRITE_Command(a), CommandBits)[x])
  <2>1. x \in 1 .. n /\ x <= CommandBits
    BY <1>1
  <2>2. f.bits[x] = Bits(WRITE_Command(a), CommandBits)[x]
    BY <1>2, <2>1
  <2> QED
    BY <1>3, <2>1, <2>2
<1>5. ASSUME NEW x \in 1 .. WordBits PROVE BitOps(f, CommandBits + x) = t[x]
  <2>1. CommandBits + x \in 1 .. n /\ ~ (CommandBits + x <= CommandBits)
        /\ (CommandBits + x) - CommandBits = x
    BY <1>1
  <2>2. f.bits[CommandBits + x] = Bits(v, WordBits)[x]
    BY <1>2, <2>1
  <2> QED
    BY <1>3, <2>1, <2>2
<1>6. t \in [1 .. WordBits -> E]
  BY SerialBit
<1>7. Send(v, WordBits) = FlattenSeq(t)
  BY DEF Send
<1> HIDE DEF t
<1>8. Rest(f, 0) = Send(WRITE_Command(a), CommandBits) \o FlattenSeq(t)
  BY <1>1, <1>4, <1>5, <1>6, TwoParts
<1> QED
  BY <1>7, <1>8 DEF f

\* Frames and what follows them are sequences of operations.
LEMMA FrameOps ==
  ASSUME NEW f, Len(f.bits) \in Nat, NEW K \in Seq(EepromOps)
  PROVE  /\ Frame(f, K) \in Seq(EepromOps) /\ Cleared(K) \in Seq(EepromOps)
         /\ Falls(K) \in Seq(EepromOps) /\ Pauses(K) \in Seq(EepromOps)
         /\ Rest(f, 0) \in Seq(EepromOps)
<1>1. Falls(K) \in Seq(EepromOps) /\ Cleared(K) \in Seq(EepromOps) /\ Pauses(K) \in Seq(EepromOps)
  BY OneOps, Joined DEF Falls, Cleared, Pauses
<1>2. Rest(f, 0) \in Seq(EepromOps)
  <2>1. 0 \in 0 .. Len(f.bits)
    OBVIOUS
  <2> QED
    BY <2>1, RestBits
<1>3. Rest(f, 0) \o Falls(K) \in Seq(EepromOps)
  BY <1>1, <1>2, Joined
<1> QED
  BY <1>1, <1>2, <1>3, OneOps, Joined DEF Frame

\* WriteEnable, before K
LEMMA EnableScript ==
  ASSUME NEW K \in Seq(EepromOps)
  PROVE  WriteEnable \in Seq(EepromOps) /\ WriteEnable \o K = Cleared(Frame(EnableFrame, K))
<1> DEFINE c == <<Clear({"din", "clk"})>>
           d == <<Set({"cs"})>>
           s == Send(WEN_Command, CommandBits)
           e == <<Clear({"cs"})>>
           E == Seq(EepromOps)
<1>1. c \in E /\ d \in E /\ s \in E /\ e \in E /\ K \in E
  BY OneOps, SendOps
<1>2. WriteEnable = ((c \o d) \o s) \o e
  <2>1. <<Clear({"din", "clk"}), Set({"cs"})>> = c \o d
    OBVIOUS
  <2> QED
    BY <2>1 DEF WriteEnable
<1>3. Cleared(Frame(EnableFrame, K)) = c \o (d \o (s \o (e \o K)))
  BY EnableOps DEF Cleared, Frame, Falls
<1> HIDE DEF c, d, s, e, E
<1>4. \A r, t \in E : r \o t \in E
  BY Joined DEF E
<1>5. /\ c \o d \in E /\ (c \o d) \o s \in E /\ ((c \o d) \o s) \o e \in E
      /\ e \o K \in E /\ s \o (e \o K) \in E
  BY <1>1, <1>4
<1>6. (((c \o d) \o s) \o e) \o K = c \o (d \o (s \o (e \o K)))
  <2>1. Then(Then(Then(Then(c, d), s), e), K) = Then(c, Then(d, Then(s, Then(e, K))))
    BY <1>1, EnableJoins DEF E
  <2> QED
    BY <2>1 DEF Then
<1> QED
  BY <1>2, <1>3, <1>5, <1>6 DEF E

\* WriteWord, before K
LEMMA WordScript ==
  ASSUME NEW a \in 0 .. 2 ^ AddrBits - 1, NEW v \in 0 .. Top - 1, NEW K \in Seq(EepromOps)
  PROVE  WriteWord(a, v) \in Seq(EepromOps) /\ WriteWord(a, v) \o K = WriteRest(a, v, K)
<1> DEFINE c == <<Clear({"din", "clk"})>>
           d == <<Set({"cs"})>>
           s == Send(WRITE_Command(a), CommandBits)
           w == Send(v, WordBits)
           e == <<Clear({"cs"})>>
           p == <<Pause>>
           E == Seq(EepromOps)
<1>1. c \in E /\ d \in E /\ s \in E /\ w \in E /\ e \in E /\ p \in E /\ K \in E
  BY OneOps, SendOps
<1>2. WriteWord(a, v) = (((c \o d) \o s) \o w) \o (e \o p)
  <2>1. <<Clear({"din", "clk"}), Set({"cs"})>> = c \o d /\ <<Clear({"cs"}), Pause>> = e \o p
    OBVIOUS
  <2> QED
    BY <2>1 DEF WriteWord
<1>3. WriteRest(a, v, K) = c \o (d \o ((s \o w) \o (e \o (p \o K))))
  BY WriteOps DEF WriteRest, Cleared, Frame, Falls, Pauses
<1> HIDE DEF c, d, s, w, e, p, E
<1>4. \A r, t \in E : r \o t \in E
  BY Joined DEF E
<1>5. /\ c \o d \in E /\ (c \o d) \o s \in E /\ ((c \o d) \o s) \o w \in E /\ e \o p \in E
      /\ (((c \o d) \o s) \o w) \o (e \o p) \in E /\ p \o K \in E /\ e \o (p \o K) \in E
      /\ s \o w \in E /\ (s \o w) \o (e \o (p \o K)) \in E
  BY <1>1, <1>4
<1>6. ((((c \o d) \o s) \o w) \o (e \o p)) \o K = c \o (d \o ((s \o w) \o (e \o (p \o K))))
  <2> DEFINE B == Then(c, d)
             Q == Then(s, w)
             R == Then(e, Then(p, K))
  <2>1. \A x, y \in E : Then(x, y) \in E
    BY Follow DEF Joins, E
  <2>2. \A x, y, z \in E : Then(Then(x, y), z) = Then(x, Then(y, z))
    BY Follow DEF Joins, E
  <2>3. Then(e, p) \in E /\ R \in E /\ Q \in E /\ B \in E
    BY <1>1, <2>1
  <2>4. Then(Then(e, p), K) = R
    BY <1>1, <2>2
  <2>5. Then(Then(B, s), w) = Then(B, Q)
    BY <1>1, <2>2, <2>3
  <2> HIDE DEF Q, R
  <2>6. Then(Then(Then(B, Q), Then(e, p)), K) = Then(Then(B, Q), R)
    <3>1. Then(B, Q) \in E /\ Then(e, p) \in E /\ K \in E
      BY <1>1, <2>1, <2>3
    <3> QED
      BY <2>2, <2>4, <3>1
  <2>7. Then(Then(B, Q), R) = Then(B, Then(Q, R))
    BY <2>2, <2>3
  <2>8. Then(B, Then(Q, R)) = Then(c, Then(d, Then(Q, R)))
    BY <1>1, <2>1, <2>2, <2>3
  <2> QED
    BY <2>5, <2>6, <2>7, <2>8 DEF Then, B, Q, R
<1> QED
  BY <1>2, <1>3, <1>5, <1>6 DEF E

\* A read of a word in range
LEMMA ReadScript ==
  ASSUME NEW addr \in Nat, addr \div 2 < Words
  PROVE  /\ addr \div 2 \in 0 .. Words - 1
         /\ cg400_EEPROMReadDWord(addr) =
              Cleared(Frame(EnableFrame, Frame(ReadFrame(addr \div 2), <<>>)))
<1> DEFINE a == addr \div 2
           d == <<Set({"cs"})>>
           s == Send(READ_Command(a), CommandBits)
           o == WriteSer(0)
           r == FlattenSeq([x \in 1 .. 2 * WordBits |-> <<Sample>> \o WriteSer(0)])
           e == <<Clear({"cs"})>>
           E == Seq(EepromOps)
<1>1. a \in 0 .. Words - 1
  <2>1. a \in Nat /\ Words \in Nat
    BY Widths, SMT
  <2> QED
    BY <2>1
<1>2. d \in E /\ s \in E /\ o \in E /\ e \in E /\ <<>> \in E
  BY OneOps, SendOps, SerialBit
<1>3. r \in E /\ Rest(ReadFrame(a), 0) = s \o (o \o r)
  BY <1>1, ReadOps
<1>4. cg400_EEPROMReadDWord(addr) = ((((WriteEnable \o d) \o s) \o o) \o r) \o e
  <2>1. ~ (a > Words - 1)
    BY <1>1, Widths
  <2> QED
    BY <2>1 DEF cg400_EEPROMReadDWord
<1>5. Frame(ReadFrame(a), <<>>) = d \o ((s \o (o \o r)) \o (e \o <<>>))
  BY <1>3 DEF Frame, Falls
<1> HIDE DEF a, d, s, o, r, e, E
<1>6. \A x, t \in E : x \o t \in E /\ x \o <<>> = x
  BY Joined DEF E
<1>7. WriteEnable \in E
  BY <1>2, EnableScript DEF E
<1>8. /\ WriteEnable \o d \in E /\ (WriteEnable \o d) \o s \in E
      /\ ((WriteEnable \o d) \o s) \o o \in E
      /\ o \o r \in E /\ s \o (o \o r) \in E /\ (s \o (o \o r)) \o e \in E
      /\ d \o ((s \o (o \o r)) \o e) \in E /\ d \o s \in E /\ d \o (s \o (o \o r)) \in E
  BY <1>2, <1>3, <1>6, <1>7
<1>9. ((((WriteEnable \o d) \o s) \o o) \o r) \o e = WriteEnable \o (d \o ((s \o (o \o r)) \o e))
  <2>1. Then(Then(Then(Then(Then(WriteEnable, d), s), o), r), e)
          = Then(WriteEnable, Then(d, Then(Then(s, Then(o, r)), e)))
    BY <1>2, <1>3, <1>7, ReadJoins DEF E
  <2> QED
    BY <2>1 DEF Then
<1>10. e \o <<>> = e
  BY <1>2, <1>6
<1>11. WriteEnable \o Frame(ReadFrame(a), <<>>) = Cleared(Frame(EnableFrame, Frame(ReadFrame(a), <<>>)))
  <2>1. Frame(ReadFrame(a), <<>>) \in E
    BY <1>5, <1>8, <1>10
  <2> QED
    BY <2>1, EnableScript DEF E
<1>12. cg400_EEPROMReadDWord(addr) = WriteEnable \o Frame(ReadFrame(a), <<>>)
  BY <1>4, <1>5, <1>9, <1>10
<1> QED
  BY <1>1, <1>11, <1>12 DEF a

\* A write that is not refused
LEMMA WriteScript ==
  ASSUME NEW addr \in Nat, addr \div 2 <= Words, NEW value \in 0 .. 2 ^ (2 * WordBits) - 1
  PROVE  LET a == addr \div 2
             hi == High(value)
             lo == Low(value)
         IN  /\ a \in 0 .. 2 ^ AddrBits - 1 /\ a + 1 \in 0 .. 2 ^ AddrBits - 1
             /\ hi \in 0 .. Top - 1 /\ lo \in 0 .. Top - 1
             /\ cg400_EEPROMWriteDWord(addr, value) =
                  Cleared(Frame(EnableFrame, WriteRest(a, hi, WriteRest(a + 1, lo, <<>>))))
<1> DEFINE a == addr \div 2
           hi == High(value)
           lo == Low(value)
           E == Seq(EepromOps)
           K == WriteRest(a + 1, lo, <<>>)
           L == WriteRest(a, hi, K)
<1>1. a \in 0 .. 2 ^ AddrBits - 1 /\ a + 1 \in 0 .. 2 ^ AddrBits - 1 /\ a <= Words /\ a \in Nat
  <2>1. a \in Nat
    BY SMT
  <2>2. a <= Words
    OBVIOUS
  <2> HIDE DEF a
  <2> QED
    BY <2>1, <2>2, Widths
<1>2. hi \in 0 .. Top - 1 /\ lo \in 0 .. Top - 1
  <2>1. Top \in Nat \ {0} /\ Top = 2 ^ WordBits /\ WordBits \in 0 .. 16 /\ WordBits + WordBits = 2 * WordBits
    BY Widths
  <2>2. 2 ^ (2 * WordBits) = Top * Top
    BY <2>1, Powers
  <2>3. value \in Nat /\ value < Top * Top
    <3>1. Top * Top \in Nat
      BY <2>1, SMT
    <3> QED
      BY <2>2, <3>1
  <2>4. value \div Top \in Nat /\ (value \div Top) * Top <= value
    BY <2>1, <2>3, Divided
  <2>5. value \div Top < Top
    <3> DEFINE q == value \div Top
    <3>1. q \in Nat /\ q * Top < Top * Top
      <4>1. \A x, y, z \in Int : x <= y /\ y < z => x < z
        OBVIOUS
      <4>2. q * Top \in Int /\ Top * Top \in Int /\ value \in Int
        BY <2>1, <2>3, <2>4, SMT
      <4> QED
        BY <2>3, <2>4, <4>1, <4>2
    <3> HIDE DEF q
    <3>2. CASE q >= Top
      <4>1. q * Top >= Top * Top
        BY <2>1, <3>1, <3>2, SMT
      <4> QED
        BY <2>1, <3>1, <4>1, SMT
    <3>3. q < Top
      BY <2>1, <3>1, <3>2
    <3> QED
      BY <3>3 DEF q
  <2>6. value % Top \in 0 .. Top - 1
    BY <2>1, <2>3, SMT
  <2> QED
    BY <2>1, <2>4, <2>5, <2>6 DEF High, Low
<1>3. cg400_EEPROMWriteDWord(addr, value) = (WriteEnable \o WriteWord(a, hi)) \o WriteWord(a + 1, lo)
  <2>1. ~ (a > Words)
    BY <1>1, Widths
  <2> QED
    BY <2>1 DEF cg400_EEPROMWriteDWord
<1> HIDE DEF a, hi, lo, K, L
<1>4. <<>> \in E
  BY OneOps
<1>5. WriteWord(a + 1, lo) \in E /\ WriteWord(a + 1, lo) \o <<>> = K
  BY <1>1, <1>2, <1>4, WordScript DEF K
<1>6. WriteWord(a + 1, lo) = K
  BY <1>5, Joined
<1>7. K \in E
  BY <1>5, <1>6
<1>8. WriteWord(a, hi) \in E /\ WriteWord(a, hi) \o K = L
  BY <1>1, <1>2, <1>7, WordScript DEF L
<1>9. L \in E
  BY <1>7, <1>8, Joined
<1>10. WriteEnable \in E /\ WriteEnable \o L = Cleared(Frame(EnableFrame, L))
  BY <1>9, EnableScript
<1>11. (WriteEnable \o WriteWord(a, hi)) \o K = WriteEnable \o L
  BY <1>7, <1>8, <1>10, Associates
<1> QED
  BY <1>1, <1>2, <1>3, <1>6, <1>10, <1>11 DEF L, K, a, hi, lo

-----------------------------------------------------------------------------
\* An operation of a call, and what it does to the card

\* One operation on
LEMMA NextLeft ==
  ASSUME NEW script, NEW k \in Nat \ {0}, NEW o \in EepromOps, NEW r \in Seq(EepromOps),
         GoesOn(script, k, <<o>> \o r)
  PROVE  /\ k <= Len(script) /\ script[k] = o /\ GoesOn(script, k + 1, r)
         /\ Len(r) \in Nat
<1> DEFINE t == <<o>> \o r
<1>1. Len(t) = 1 + Len(r) /\ t[1] = o /\ Len(r) \in Nat /\ \A x \in 1 .. Len(r) : t[1 + x] = r[x]
  <2>1. <<o>> \in Seq(EepromOps) /\ Len(<<o>>) = 1 /\ <<o>>[1] = o /\ Len(r) \in Nat
    BY LenProperties
  <2> DEFINE s == <<o>>
  <2> HIDE DEF s
  <2>2. Len(s \o r) = Len(s) + Len(r)
        /\ \A i \in 1 .. Len(s) + Len(r) : (s \o r)[i] = IF i <= Len(s) THEN s[i] ELSE r[i - Len(s)]
    BY <2>1, ConcatProperties DEF s
  <2>3. Len(s) = 1 /\ s[1] = o
    BY <2>1 DEF s
  <2>4. \A x \in 1 .. Len(r) : 1 + x \in 1 .. 1 + Len(r) /\ ~ (1 + x <= 1) /\ (1 + x) - 1 = x
    BY <2>1
  <2>5. 1 \in 1 .. 1 + Len(r)
    BY <2>1
  <2> QED
    BY <2>1, <2>2, <2>3, <2>4, <2>5 DEF s
<1> HIDE DEF t
<1>2. Len(script) = k - 1 + Len(t) /\ \A x \in 1 .. Len(t) : script[k - 1 + x] = t[x]
  BY DEF GoesOn, t
<1>3. 1 \in 1 .. Len(t) /\ k - 1 + 1 = k /\ k <= Len(script) /\ Len(script) = (k + 1) - 1 + Len(r)
  BY <1>1, <1>2
<1>4. ASSUME NEW x \in 1 .. Len(r) PROVE script[(k + 1) - 1 + x] = r[x]
  <2>1. 1 + x \in 1 .. Len(t) /\ k - 1 + (1 + x) = (k + 1) - 1 + x
    BY <1>1
  <2> QED
    BY <1>1, <1>2, <2>1
<1> QED
  BY <1>1, <1>2, <1>3, <1>4 DEF GoesOn

\* The card is driven: its lines, its EEPROM and the data read are these.
Turns(lines, chip, data) ==
  /\ UNCHANGED <<hDevice, before, call, board>>
  /\ cntrl' = [cntrl EXCEPT ![hDevice] = lines]
  /\ eeprom' = [eeprom EXCEPT ![hDevice] = chip]
  /\ READ_Data' = data

DriveTo(lines) == Turns(lines, Driven(eeprom[hDevice], cntrl[hDevice], lines), READ_Data)

OnCard == ClockTypeOK /\ RomTypeOK /\ Operations /\ hDevice \in Cards

\* The operation the call is at
LEMMA AnOperation ==
  ASSUME OnCard
  PROVE  /\ at \in Nat \ {0} /\ at <= Len(Scripts[call]) /\ at' = at + 1 /\ call' = call
         /\ \A L : Arg = Clear(L) => DriveTo(cntrl[hDevice] \ L)
         /\ \A L : Arg = Set(L) => DriveTo(cntrl[hDevice] \cup L)
         /\ Arg = Sample =>
              Turns(cntrl[hDevice], eeprom[hDevice], 2 * READ_Data + eeprom[hDevice].out)
         /\ Arg = Pause =>
              Turns(cntrl[hDevice], [eeprom[hDevice] EXCEPT !.busy = FALSE], READ_Data)
<1>1. /\ at \in Nat \ {0} /\ at <= Len(Scripts[call]) /\ at' = at + 1
      /\ UNCHANGED <<hDevice, before, call, board>>
  BY DEF OnCard, ClockTypeOK, Operations, Operates, ClearLines, SetLines, SampleBit,
         PauseForWrite, ZeroPort0, SetPort0, UseRam, WritePort, hist
<1>2. Arg.op = "clear" => ClearLines
  BY DEF OnCard, Operations, Operates, SetLines, SampleBit, PauseForWrite, ZeroPort0, SetPort0,
         UseRam, WritePort, Arg
<1>3. Arg.op = "set" => SetLines
  BY DEF OnCard, Operations, Operates, ClearLines, SampleBit, PauseForWrite, ZeroPort0, SetPort0,
         UseRam, WritePort, Arg
<1>4. Arg.op = "sample" => SampleBit
  BY DEF OnCard, Operations, Operates, ClearLines, SetLines, PauseForWrite, ZeroPort0, SetPort0,
         UseRam, WritePort, Arg
<1>5. Arg.op = "pause" => PauseForWrite
  BY DEF OnCard, Operations, Operates, ClearLines, SetLines, SampleBit, ZeroPort0, SetPort0,
         UseRam, WritePort, Arg
<1>6. /\ [cntrl EXCEPT ![hDevice] = cntrl[hDevice]] = cntrl
      /\ [eeprom EXCEPT ![hDevice] = eeprom[hDevice]] = eeprom
  BY DEF OnCard, RomTypeOK
<1>7. ASSUME NEW L, Arg = Clear(L) PROVE DriveTo(cntrl[hDevice] \ L)
  <2>1. Arg.op = "clear" /\ Arg.lines = L
    BY <1>7 DEF Clear
  <2>2. WriteCntrl(cntrl[hDevice] \ L) /\ READ_Data' = READ_Data
    BY <1>2, <2>1 DEF ClearLines, OnCard, P9030_CNTRL_DATA
  <2> QED
    BY <1>1, <2>2 DEF WriteCntrl, DriveTo, Turns, OnCard
<1>8. ASSUME NEW L, Arg = Set(L) PROVE DriveTo(cntrl[hDevice] \cup L)
  <2>1. Arg.op = "set" /\ Arg.lines = L
    BY <1>8 DEF Set
  <2>2. WriteCntrl(cntrl[hDevice] \cup L) /\ READ_Data' = READ_Data
    BY <1>3, <2>1 DEF SetLines, OnCard, P9030_CNTRL_DATA
  <2> QED
    BY <1>1, <2>2 DEF WriteCntrl, DriveTo, Turns, OnCard
<1>9. ASSUME Arg = Sample
      PROVE  Turns(cntrl[hDevice], eeprom[hDevice], 2 * READ_Data + eeprom[hDevice].out)
  <2>1. SampleBit
    BY <1>4, <1>9 DEF Sample
  <2> QED
    BY <1>1, <1>6, <2>1 DEF SampleBit, Turns, OnCard, rom
<1>10. ASSUME Arg = Pause
       PROVE  Turns(cntrl[hDevice], [eeprom[hDevice] EXCEPT !.busy = FALSE], READ_Data)
  <2>1. PauseForWrite
    BY <1>5, <1>10 DEF Pause
  <2> QED
    BY <1>1, <1>6, <2>1 DEF PauseForWrite, Turns, OnCard
<1> QED
  BY <1>1, <1>7, <1>8, <1>9, <1>10

\* With o left before r, the call does o, and r is left.
LEMMA DoesNext ==
  ASSUME OnCard, NEW o \in EepromOps, NEW r \in Seq(EepromOps), Left(<<o>> \o r)
  PROVE  /\ Left(r)' /\ Arg = o
<1>1. at \in Nat \ {0} /\ at' = at + 1 /\ call' = call
  BY AnOperation
<1>2. Scripts[call][at] = o /\ GoesOn(Scripts[call], at + 1, r)
  BY <1>1, NextLeft DEF Left
<1> QED
  BY <1>1, <1>2 DEF Left, Arg

OtherCards ==
  /\ RomTypeOK' /\ UNCHANGED <<hDevice, before, call, board>>
  /\ \A c \in Cards : c # hDevice => cntrl'[c] = cntrl[c] /\ eeprom'[c] = eeprom[c]

\* Other cards stay as they are.
LEMMA Turned ==
  ASSUME RomTypeOK, hDevice \in Cards, NEW lines \in SUBSET {"cs", "din", "clk"},
         NEW chip \in Chips, NEW data, Turns(lines, chip, data)
  PROVE  /\ OtherCards
         /\ cntrl'[hDevice'] = lines /\ eeprom'[hDevice'] = chip /\ READ_Data' = data
<1>1. /\ cntrl' \in [Cards -> SUBSET {"cs", "din", "clk"}] /\ eeprom' \in [Cards -> Chips]
      /\ \A c \in Cards : c # hDevice => cntrl'[c] = cntrl[c] /\ eeprom'[c] = eeprom[c]
      /\ cntrl'[hDevice] = lines /\ eeprom'[hDevice] = chip
  BY DEF RomTypeOK, Turns
<1>2. READ_Data' = data /\ hDevice' = hDevice /\ before' = before /\ call' = call /\ board' = board
  BY DEF Turns
<1>3. RomTypeOK'
  BY <1>1, <1>2 DEF RomTypeOK
<1> QED
  BY <1>1, <1>2, <1>3 DEF OtherCards

-----------------------------------------------------------------------------
\* A frame is sent

\* A rising clock takes the next bit of a frame.
LEMMA BitTaken ==
  ASSUME NEW f, Good(f), NEW M \in Mems, NEW y \in 1 .. Len(f.bits), NEW chip \in Chips,
         Took(chip, f, M, y - 1)
  PROVE  /\ Clocked(chip, f.bits[y]) \in Chips /\ Took(Clocked(chip, f.bits[y]), f, M, y)
<1> DEFINE bit == f.bits[y]
           in == Append(chip.in, bit)
           n == Len(f.bits)
           new == [chip EXCEPT !.in = in, !.enabled = Enabled(chip, in), !.out = Output(chip, in)]
<1>1. /\ n \in Nat \ {0} /\ f.bits \in Seq({0, 1}) /\ f.bits[1] = 1 /\ f.first \in Nat
      /\ f.from \in Nat /\ y \in 1 .. n
  BY DEF Good
<1>2. bit \in {0, 1}
  BY <1>1, ElementOfSeq
<1>3. chip.in \in Seq({0, 1}) /\ Len(chip.in) = y - 1 /\ \A i \in 1 .. y - 1 : chip.in[i] = f.bits[i]
  BY DEF Took, Chips
<1> HIDE DEF bit
<1>4. in \in Seq({0, 1}) /\ Len(in) = y /\ in[y] = bit /\ \A i \in 1 .. y - 1 : in[i] = chip.in[i]
  <2>1. Len(in) = Len(chip.in) + 1 /\ in \in Seq({0, 1})
    BY <1>2, <1>3, AppendProperties
  <2>2. \A i \in 1 .. Len(chip.in) + 1 :
          in[i] = IF i <= Len(chip.in) THEN chip.in[i] ELSE bit
    BY <1>2, <1>3, AppendProperties
  <2> HIDE DEF in
  <2>3. (y - 1) + 1 = y /\ y \in 1 .. y /\ \A i \in 1 .. y - 1 : i \in 1 .. y /\ i <= y - 1
    BY <1>1
  <2>4. ~ (y <= y - 1)
    BY <1>1
  <2> QED
    BY <1>3, <2>1, <2>2, <2>3, <2>4
<1> HIDE DEF in
<1>5. Starts(in, f)
  <2>1. \A i \in 1 .. y : in[i] = f.bits[i]
    <3>1. \A i \in 1 .. y : i = y \/ i \in 1 .. y - 1
      BY <1>1
    <3> QED
      BY <1>3, <1>4, <3>1 DEF bit
  <2> QED
    BY <1>1, <1>4, <2>1 DEF Starts
<1>6. Clocked(chip, bit) = new
  <2>1. ~ chip.busy
    BY DEF Took
  <2>2. ~ (chip.in = <<>> /\ bit = 0)
    <3>1. CASE y = 1
      BY <1>1, <3>1 DEF bit
    <3>2. CASE y # 1
      <4>1. Len(chip.in) # 0
        BY <1>1, <1>3, <3>2
      <4>2. chip.in # <<>>
        BY <4>1, EmptySeq
      <4> QED
        BY <4>2
    <3> QED
      BY <3>1, <3>2
  <2> QED
    BY <2>1, <2>2 DEF Clocked, in
<1>7. /\ Enabled(chip, in) \in BOOLEAN /\ Output(chip, in) \in {0, 1}
      /\ y >= f.from /\ (y > f.from => chip.enabled) => Enabled(chip, in)
      /\ y >= f.first => Output(chip, in) = AnswerBit(chip.mem, f.addr, y - f.first)
  BY <1>4, <1>5 DEF Good
<1>8. new \in Chips
  BY <1>4, <1>7 DEF Chips
<1>9. Took(new, f, M, y)
  <2>1. new.in = in /\ new.mem = M /\ ~ new.busy /\ chip.mem = M
        /\ new.enabled = Enabled(chip, in) /\ new.out = Output(chip, in)
    BY DEF Took, Chips
  <2>2. y > f.from => chip.enabled
    <3>1. y > f.from => y - 1 >= f.from
      BY <1>1
    <3> QED
      BY <3>1 DEF Took
  <2>3. \A i \in 1 .. y : in[i] = f.bits[i]
    BY <1>4, <1>5 DEF Starts
  <2> HIDE DEF new
  <2> QED
    BY <1>4, <1>7, <2>1, <2>2, <2>3 DEF Took
<1> QED
  BY <1>6, <1>8, <1>9 DEF bit

\* The operations a bit is made of
LEMMA Ops ==
  /\ Clear({"din", "clk"}) \in EepromOps /\ Clear({"cs"}) \in EepromOps
  /\ Set({"cs"}) \in EepromOps /\ Set({"din"}) \in EepromOps /\ Set({"clk"}) \in EepromOps
  /\ Sample \in EepromOps /\ Pause \in EepromOps
  BY DEF EepromOps, Clear, Set

Sent(f, M, K) == OtherCards /\ Framed(f, M, K)'

\* The first operations of a frame
LEMMA BeforeStep ==
  ASSUME OnCard, NEW f, Good(f), NEW M \in Mems, NEW K \in Seq(EepromOps), Before(f, M, K)
  PROVE  Sent(f, M, K)
<1> DEFINE chip == eeprom[hDevice]
           F == Falls(K)
<1>1. RomTypeOK /\ hDevice \in Cards /\ chip \in Chips
  BY DEF OnCard, RomTypeOK
<1>2. Took(chip, f, M, 0) /\ cntrl[hDevice] = {} /\ READ_Data = Answer(M, f.addr, Samples(f, 0))
  BY DEF Before, Taken, Lines3
<1>3. Len(f.bits) \in Nat \ {0} /\ F \in Seq(EepromOps) /\ Frame(f, K) \in Seq(EepromOps)
      /\ Rest(f, 0) \o F \in Seq(EepromOps)
  <2>1. Len(f.bits) \in Nat \ {0} /\ Len(f.bits) \in Nat
    BY DEF Good
  <2>2. Frame(f, K) \in Seq(EepromOps) /\ F \in Seq(EepromOps) /\ Rest(f, 0) \in Seq(EepromOps)
    BY <2>1, FrameOps
  <2> QED
    BY <2>1, <2>2, Joined
<1> HIDE DEF F
<1>4. CASE Left(Cleared(Frame(f, K)))
  <2>1. Left(Frame(f, K))' /\ Arg = Clear({"din", "clk"})
    BY <1>3, <1>4, Ops, DoesNext DEF Cleared
  <2>2. Turns({}, chip, READ_Data)
    <3>1. DriveTo({} \ {"din", "clk"})
      BY <1>2, <2>1, AnOperation
    <3>2. {} \ {"din", "clk"} = {} /\ Driven(chip, {}, {}) = chip
      BY DEF Driven
    <3> QED
      BY <1>2, <3>1, <3>2 DEF DriveTo
  <2>3. OtherCards /\ cntrl'[hDevice'] = {} /\ eeprom'[hDevice'] = chip /\ READ_Data' = READ_Data
    BY <1>1, <2>2, Turned
  <2> QED
    BY <1>2, <2>1, <2>3 DEF Sent, Framed, Before, Taken, Lines3
<1>5. CASE Left(Frame(f, K))
  <2>1. Left(Rest(f, 0) \o F)' /\ Arg = Set({"cs"})
    BY <1>3, <1>5, Ops, DoesNext DEF Frame, F
  <2>2. Turns({"cs"}, chip, READ_Data)
    <3>1. DriveTo({} \cup {"cs"})
      BY <1>2, <2>1, AnOperation
    <3>2. {} \cup {"cs"} = {"cs"} /\ Driven(chip, {}, {"cs"}) = chip
      BY DEF Driven
    <3> QED
      BY <1>2, <3>1, <3>2 DEF DriveTo
  <2>3. OtherCards /\ cntrl'[hDevice'] = {"cs"} /\ eeprom'[hDevice'] = chip
        /\ READ_Data' = READ_Data
    BY <1>1, <2>2, Turned
  <2>4. Rest(f, 0) \o F = Sampling(f, 1, Rest(f, 1) \o F)
    <3>1. 0 \in 0 .. Len(f.bits) - 1 /\ 0 + 1 = 1 /\ Len(f.bits) \in Nat
      BY <1>3
    <3> QED
      BY <1>3, <3>1, RestBits
  <2>5. AtBit(f, M, Rest(f, 1) \o F, 1)'
    <3>1. 1 - 1 = 0
      OBVIOUS
    <3> QED
      BY <1>2, <2>1, <2>3, <2>4, <3>1 DEF AtBit, Taken, Lines3
  <2>6. 1 \in 1 .. Len(f.bits)
    BY <1>3
  <2>7. Within(f, M, K)'
    BY <2>5, <2>6 DEF Within, F
  <2> QED
    BY <2>3, <2>7 DEF Sent, Framed
<1> QED
  BY <1>4, <1>5 DEF Before

\* The operations of a bit
LEMMA BitStep ==
  ASSUME OnCard, NEW f, Good(f), NEW M \in Mems, NEW K \in Seq(EepromOps),
         NEW y \in 1 .. Len(f.bits), AtBit(f, M, Rest(f, y) \o Falls(K), y)
  PROVE  Sent(f, M, K)
<1> DEFINE chip == eeprom[hDevice]
           F == Falls(K)
           T == Rest(f, y) \o F
           b == f.bits[y]
           n == Len(f.bits)
<1>1. RomTypeOK /\ hDevice \in Cards /\ chip \in Chips
  BY DEF OnCard, RomTypeOK
<1>2. n \in Nat \ {0} /\ n \in Nat /\ f.bits \in Seq({0, 1}) /\ f.first \in Nat
  BY DEF Good
<1>3. b \in {0, 1}
  BY <1>2, ElementOfSeq
<1>4. F \in Seq(EepromOps) /\ Rest(f, y) \in Seq(EepromOps) /\ T \in Seq(EepromOps)
  <2>1. F \in Seq(EepromOps)
    BY <1>2, FrameOps
  <2>2. y \in 0 .. n
    BY <1>2
  <2>3. Rest(f, y) \in Seq(EepromOps)
    BY <1>2, <2>2, RestBits
  <2> QED
    BY <2>1, <2>3, Joined
<1> HIDE DEF T, b, n, F
<1>5. /\ Cleared(T) \in Seq(EepromOps) /\ Clocking(T) \in Seq(EepromOps)
      /\ Setting(b, T) \in Seq(EepromOps) /\ Sending(b, T) \in Seq(EepromOps)
  BY <1>4, BitTail
<1>6. AtBit(f, M, T, y)
  BY DEF T, F
<1>7. AtBit(f, M, T, y)' => Within(f, M, K)'
  BY DEF Within, T, F, n
<1>8. ASSUME Taken(f, M, y - 1), Lines3({"cs"}, f, M, y), Left(Sending(b, T))
      PROVE  Sent(f, M, K)
  <2>1. Left(Setting(b, T))' /\ Arg = Clear({"din", "clk"})
    BY <1>5, <1>8, Ops, DoesNext DEF Sending
  <2>2. Turns({"cs"}, chip, READ_Data)
    <3>1. DriveTo({"cs"} \ {"din", "clk"}) /\ cntrl[hDevice] = {"cs"}
      BY <1>8, <2>1, AnOperation DEF Lines3
    <3>2. {"cs"} \ {"din", "clk"} = {"cs"} /\ Driven(chip, {"cs"}, {"cs"}) = chip
      BY DEF Driven
    <3> QED
      BY <3>1, <3>2 DEF DriveTo
  <2>3. OtherCards /\ cntrl'[hDevice'] = {"cs"} /\ eeprom'[hDevice'] = chip
        /\ READ_Data' = READ_Data
    BY <1>1, <2>2, Turned
  <2>4. Taken(f, M, y - 1)' /\ Lines3({"cs"}, f, M, y)'
    BY <1>8, <2>3 DEF Taken, Lines3
  <2>5. AtBit(f, M, T, y)'
    <3>1. CASE b = 1
      <4>1. Left(<<Set({"din"})>> \o Clocking(T))'
        BY <2>1, <3>1 DEF Setting
      <4> QED
        BY <2>4, <3>1, <4>1 DEF AtBit, b
    <3>2. CASE b # 1
      <4>1. Left(Clocking(T))' /\ {"cs"} \cup Din(b) = {"cs"}
        BY <2>1, <3>2 DEF Setting, Din
      <4> QED
        BY <2>4, <4>1 DEF AtBit, b
    <3> QED
      BY <3>1, <3>2
  <2> QED
    BY <1>7, <2>3, <2>5 DEF Sent, Framed
<1>9. CASE Taken(f, M, y - 1) /\ Lines3({"cs"}, f, M, y - 1) /\ Left(Sampling(f, y, T))
  <2>1. /\ y <= f.first => Answer(M, f.addr, Samples(f, y)) = Answer(M, f.addr, Samples(f, y - 1))
        /\ y > f.first => Answer(M, f.addr, Samples(f, y)) =
                            2 * Answer(M, f.addr, Samples(f, y - 1))
                            + AnswerBit(M, f.addr, y - 1 - f.first)
    BY NextSample
  <2>2. CASE y > f.first
    <3>1. Left(Sending(b, T))' /\ Arg = Sample
      BY <1>5, <1>9, <2>2, Ops, DoesNext DEF Sampling, b
    <3>2. Turns({"cs"}, chip, 2 * READ_Data + chip.out)
      BY <1>9, <3>1, AnOperation DEF Lines3
    <3>3. OtherCards /\ cntrl'[hDevice'] = {"cs"} /\ eeprom'[hDevice'] = chip
          /\ READ_Data' = 2 * READ_Data + chip.out
      BY <1>1, <3>2, Turned
    <3>4. chip.out = AnswerBit(M, f.addr, y - 1 - f.first)
      <4>1. y - 1 >= f.first
        BY <1>2, <2>2 DEF n
      <4> QED
        BY <1>9, <4>1 DEF Taken, Took
    <3>5. READ_Data' = Answer(M, f.addr, Samples(f, y))
      BY <1>9, <2>1, <2>2, <3>3, <3>4 DEF Lines3
    <3>6. Taken(f, M, y - 1)' /\ Lines3({"cs"}, f, M, y)'
      BY <1>9, <3>3, <3>5 DEF Taken, Lines3
    <3>7. AtBit(f, M, T, y)'
      BY <3>1, <3>6 DEF AtBit, b
    <3> QED
      BY <1>7, <3>3, <3>7 DEF Sent, Framed
  <2>3. CASE ~ (y > f.first)
    <3>1. y <= f.first
      BY <1>2, <2>3 DEF n
    <3>2. Left(Sending(b, T)) /\ Lines3({"cs"}, f, M, y)
      BY <1>9, <2>1, <2>3, <3>1 DEF Sampling, Lines3, b
    <3> QED
      BY <1>8, <1>9, <3>2
  <2> QED
    BY <2>2, <2>3
<1>10. CASE /\ Taken(f, M, y - 1) /\ Lines3({"cs"}, f, M, y)
            /\ b = 1 /\ Left(<<Set({"din"})>> \o Clocking(T))
  <2>1. Left(Clocking(T))' /\ Arg = Set({"din"})
    BY <1>5, <1>10, Ops, DoesNext
  <2>2. Turns({"cs", "din"}, chip, READ_Data)
    <3>1. DriveTo({"cs"} \cup {"din"}) /\ cntrl[hDevice] = {"cs"}
      BY <1>10, <2>1, AnOperation DEF Lines3
    <3>2. {"cs"} \cup {"din"} = {"cs", "din"} /\ Driven(chip, {"cs"}, {"cs", "din"}) = chip
      BY DEF Driven
    <3> QED
      BY <3>1, <3>2 DEF DriveTo
  <2>3. OtherCards /\ cntrl'[hDevice'] = {"cs", "din"} /\ eeprom'[hDevice'] = chip
        /\ READ_Data' = READ_Data
    BY <1>1, <2>2, Turned
  <2>4. {"cs"} \cup Din(b) = {"cs", "din"}
    BY <1>10 DEF Din
  <2>5. Taken(f, M, y - 1)' /\ Lines3({"cs"} \cup Din(b), f, M, y)'
    BY <1>10, <2>3, <2>4 DEF Taken, Lines3
  <2>6. AtBit(f, M, T, y)'
    BY <2>1, <2>5 DEF AtBit, b
  <2> QED
    BY <1>7, <2>3, <2>6 DEF Sent, Framed
<1>11. CASE Taken(f, M, y - 1) /\ Lines3({"cs"} \cup Din(b), f, M, y) /\ Left(Clocking(T))
  <2> DEFINE new == Clocked(chip, b)
             old == {"cs"} \cup Din(b)
             clk == {"cs", "clk"} \cup Din(b)
  <2>1. Left(Cleared(T))' /\ Arg = Set({"clk"})
    BY <1>5, <1>11, Ops, DoesNext DEF Clocking
  <2>2. Turns(clk, new, READ_Data)
    <3>1. DriveTo(old \cup {"clk"}) /\ cntrl[hDevice] = old
      BY <1>11, <2>1, AnOperation DEF Lines3
    <3>2. old \cup {"clk"} = clk /\ "cs" \notin old \ clk /\ "cs" \in clk /\ "clk" \in clk \ old
          /\ (IF "din" \in clk THEN 1 ELSE 0) = b
      BY <1>3 DEF Din
    <3>3. Driven(chip, old, clk) = new
      BY <3>2 DEF Driven
    <3> QED
      BY <3>1, <3>2, <3>3 DEF DriveTo
  <2>3. new \in Chips /\ Took(new, f, M, y)
    BY <1>1, <1>11, BitTaken DEF Taken, b
  <2>4. clk \in SUBSET {"cs", "din", "clk"}
    BY DEF Din
  <2> HIDE DEF new, old, clk
  <2>5. OtherCards /\ cntrl'[hDevice'] = clk /\ eeprom'[hDevice'] = new /\ READ_Data' = READ_Data
    BY <1>1, <2>2, <2>3, <2>4, Turned
  <2>6. Taken(f, M, y)' /\ Lines3({"cs", "clk"} \cup Din(b), f, M, y)'
    BY <1>11, <2>3, <2>5 DEF Taken, Lines3, clk
  <2>7. AtBit(f, M, T, y)'
    BY <2>1, <2>6 DEF AtBit, b
  <2> QED
    BY <1>7, <2>5, <2>7 DEF Sent, Framed
<1>12. CASE Taken(f, M, y) /\ Lines3({"cs", "clk"} \cup Din(b), f, M, y) /\ Left(Cleared(T))
  <2> DEFINE old == {"cs", "clk"} \cup Din(b)
  <2>1. Left(T)' /\ Arg = Clear({"din", "clk"})
    BY <1>4, <1>12, Ops, DoesNext DEF Cleared
  <2>2. Turns({"cs"}, chip, READ_Data)
    <3>1. DriveTo(old \ {"din", "clk"}) /\ cntrl[hDevice] = old
      BY <1>12, <2>1, AnOperation DEF Lines3
    <3>2. old \ {"din", "clk"} = {"cs"} /\ "cs" \notin old \ {"cs"} /\ "clk" \notin {"cs"} \ old
      BY DEF Din
    <3>3. Driven(chip, old, {"cs"}) = chip
      BY <3>2 DEF Driven
    <3> QED
      BY <3>1, <3>2, <3>3 DEF DriveTo
  <2>3. OtherCards /\ cntrl'[hDevice'] = {"cs"} /\ eeprom'[hDevice'] = chip
        /\ READ_Data' = READ_Data
    BY <1>1, <2>2, Turned
  <2>4. Taken(f, M, y)' /\ Lines3({"cs"}, f, M, y)'
    BY <1>12, <2>3 DEF Taken, Lines3
  <2>5. CASE y = n
    <3>1. Rest(f, n) = <<>>
      BY <1>2, RestBits DEF n
    <3>2. T = F
      BY <1>4, <2>5, <3>1, Joined DEF T
    <3>3. After(f, M, K)'
      BY <2>1, <2>4, <2>5, <3>2 DEF After, F, n
    <3> QED
      BY <2>3, <3>3 DEF Sent, Framed
  <2>6. CASE y # n
    <3>1. y \in 0 .. n - 1 /\ y + 1 \in 1 .. n /\ (y + 1) - 1 = y
      BY <1>2, <2>6 DEF n
    <3>2. T = Sampling(f, y + 1, Rest(f, y + 1) \o F)
      BY <1>2, <1>4, <3>1, RestBits DEF T, n
    <3>3. AtBit(f, M, Rest(f, y + 1) \o F, y + 1)'
      BY <2>1, <2>4, <3>1, <3>2 DEF AtBit
    <3>4. Within(f, M, K)'
      BY <3>1, <3>3 DEF Within, F, n
    <3> QED
      BY <2>3, <3>4 DEF Sent, Framed
  <2> QED
    BY <2>5, <2>6
<1> QED
  BY <1>6, <1>8, <1>9, <1>10, <1>11, <1>12 DEF AtBit, b

\* A frame that is not sent is sent on.
LEMMA FrameStep ==
  ASSUME OnCard, NEW f, Good(f), NEW M \in Mems, NEW K \in Seq(EepromOps), Framed(f, M, K),
         ~ After(f, M, K)
  PROVE  Sent(f, M, K)
  BY BeforeStep, BitStep DEF Framed, Within

\* Chip select falls after a frame.
LEMMA AfterStep ==
  ASSUME OnCard, NEW f, Good(f), NEW M \in Mems, NEW K \in Seq(EepromOps), After(f, M, K),
         Deselected(eeprom[hDevice]) \in Chips
  PROVE  /\ OtherCards /\ Left(K)'
         /\ cntrl'[hDevice'] = {} /\ eeprom'[hDevice'] = Deselected(eeprom[hDevice])
         /\ READ_Data' = Answer(M, f.addr, Samples(f, Len(f.bits)))
<1> DEFINE new == Deselected(eeprom[hDevice])
<1>1. RomTypeOK /\ hDevice \in Cards /\ cntrl[hDevice] = {"cs"}
  BY DEF OnCard, After, Lines3
<1>2. Left(K)' /\ Arg = Clear({"cs"})
  BY Ops, DoesNext DEF After, Falls
<1>3. Turns({}, new, READ_Data)
  <2>1. DriveTo({"cs"} \ {"cs"})
    BY <1>1, <1>2, AnOperation
  <2>2. {"cs"} \ {"cs"} = {} /\ "cs" \in {"cs"} \ {}
    OBVIOUS
  <2>3. Driven(eeprom[hDevice], {"cs"}, {}) = new
    BY <2>2 DEF Driven
  <2> QED
    BY <1>1, <2>1, <2>2, <2>3 DEF DriveTo
<1> HIDE DEF new
<1>4. OtherCards /\ cntrl'[hDevice'] = {} /\ eeprom'[hDevice'] = new /\ READ_Data' = READ_Data
  <2>1. {} \in SUBSET {"cs", "din", "clk"} /\ new \in Chips
    BY DEF new
  <2> QED
    BY <1>1, <1>3, <2>1, Turned
<1> QED
  BY <1>2, <1>4 DEF After, Lines3, new

-----------------------------------------------------------------------------
\* A read

\* Deselected after a frame that is no write, the EEPROM stores nothing.
LEMMA Released ==
  ASSUME NEW f, Good(f), NEW M \in Mems, NEW chip \in Chips, Took(chip, f, M, Len(f.bits)),
         Len(f.bits) # CommandBits + WordBits
  PROVE  LET new == Deselected(chip)
         IN  /\ new \in Chips /\ new.in = <<>> /\ new.mem = M /\ ~ new.busy
             /\ Len(f.bits) >= f.from => new.enabled
<1>1. Deselected(chip) = [chip EXCEPT !.in = <<>>]
  BY DEF Deselected, Took
<1>2. <<>> \in Seq({0, 1})
  OBVIOUS
<1> QED
  BY <1>1, <1>2 DEF Chips, Took

\* Nothing is answered before the first sample.
LEMMA NoAnswer ==
  ASSUME NEW f, Good(f), NEW M \in Mems
  PROVE  Answer(M, f.addr, Samples(f, 0)) = 0
<1>1. f.addr \in 0 .. Words - 1 /\ Samples(f, 0) = 0
  BY DEF Good, Samples
<1>2. 0 \in 0 .. 2 * WordBits - 1
  BY Widths
<1> QED
  BY <1>1, <1>2, NextAnswer

\* After the write enable command, writes are enabled, and the next frame comes.
LEMMA EnableEnds ==
  ASSUME OnCard, NEW M \in Mems, NEW K \in Seq(EepromOps), After(EnableFrame, M, K)
  PROVE  /\ OtherCards /\ Left(K)' /\ cntrl'[hDevice'] = {} /\ READ_Data' = 0
         /\ eeprom'[hDevice'].in = <<>> /\ eeprom'[hDevice'].mem = M
         /\ ~ eeprom'[hDevice'].busy /\ eeprom'[hDevice'].enabled
<1> DEFINE f == EnableFrame
           chip == eeprom[hDevice]
<1>1. Good(f) /\ Len(f.bits) = CommandBits /\ f.from = CommandBits /\ f.first = CommandBits + 1
      /\ f.addr = 0
  <2>1. f.from = CommandBits /\ f.first = CommandBits + 1 /\ f.addr = 0
    BY DEF EnableFrame
  <2> QED
    BY <2>1, EnableGood
<1> HIDE DEF f
<1>2. CommandBits \in Nat /\ CommandBits # CommandBits + WordBits /\ 0 \in 0 .. Words - 1
      /\ 0 \in 0 .. 2 * WordBits - 1
  BY Widths
<1>3. chip \in Chips /\ Took(chip, f, M, Len(f.bits))
  BY DEF OnCard, RomTypeOK, After, Taken, f
<1>4. LET new == Deselected(chip)
      IN  new \in Chips /\ new.in = <<>> /\ new.mem = M /\ ~ new.busy /\ new.enabled
  <2>1. Len(f.bits) # CommandBits + WordBits /\ Len(f.bits) >= f.from
    BY <1>1, <1>2
  <2> QED
    BY <1>1, <1>3, <2>1, Released
<1>5. /\ OtherCards /\ Left(K)' /\ cntrl'[hDevice'] = {} /\ eeprom'[hDevice'] = Deselected(chip)
      /\ READ_Data' = Answer(M, f.addr, Samples(f, Len(f.bits)))
  BY <1>1, <1>4, AfterStep DEF f
<1>6. Samples(f, Len(f.bits)) = 0
  BY <1>1, <1>2 DEF Samples
<1>7. Answer(M, 0, 0) = 0
  BY <1>2, NextAnswer
<1> QED
  BY <1>1, <1>4, <1>5, <1>6, <1>7

\* A call does no operation when nothing is left.
LEMMA NothingLeft ==
  ASSUME OnCard
  PROVE  ~ Left(<<>>)
<1>1. at \in Nat \ {0} /\ at <= Len(Scripts[call])
  BY AnOperation
<1>2. Left(<<>>) => Len(Scripts[call]) = at - 1 + 0
  BY DEF Left, GoesOn
<1> QED
  BY <1>1, <1>2

\* An operation of a read takes it one step further, and touches no other card.
LEMMA ReadStep ==
  ASSUME OnCard, NEW a \in 0 .. Words - 1, NEW M \in Mems, Reading(a, M)
  PROVE  OtherCards /\ Reading(a, M)'
<1> DEFINE f == ReadFrame(a)
           K == Frame(f, <<>>)
           chip == eeprom[hDevice]
<1>1. /\ Good(EnableFrame) /\ Good(f) /\ Len(f.bits) = CommandBits + 1 + 2 * WordBits
      /\ f.first = CommandBits + 1 /\ f.from = CommandBits + 2 + 2 * WordBits /\ f.addr = a
  <2>1. f.first = CommandBits + 1 /\ f.from = CommandBits + 2 + 2 * WordBits /\ f.addr = a
    BY DEF ReadFrame
  <2> QED
    BY <2>1, EnableGood, ReadGood
<1> HIDE DEF f
<1>2. /\ CommandBits \in Nat /\ WordBits \in Nat \ {0}
      /\ CommandBits + 1 + 2 * WordBits # CommandBits + WordBits
      /\ (CommandBits + 1 + 2 * WordBits) - (CommandBits + 1) = 2 * WordBits
      /\ CommandBits + 1 + 2 * WordBits > CommandBits + 1
  BY Widths
<1>3. <<>> \in Seq(EepromOps) /\ K \in Seq(EepromOps)
  <2>1. <<>> \in Seq(EepromOps)
    BY OneOps
  <2>2. Len(f.bits) \in Nat
    BY <1>1 DEF Good
  <2> QED
    BY <2>1, <2>2, FrameOps
<1> HIDE DEF K
<1>4. CASE Framed(EnableFrame, M, K)
  <2>1. CASE ~ After(EnableFrame, M, K)
    <3>1. Sent(EnableFrame, M, K)
      BY <1>1, <1>3, <1>4, <2>1, FrameStep
    <3> QED
      BY <3>1 DEF Sent, Reading, K, f
  <2>2. CASE After(EnableFrame, M, K)
    <3>1. /\ OtherCards /\ Left(K)' /\ cntrl'[hDevice'] = {} /\ READ_Data' = 0
          /\ eeprom'[hDevice'].in = <<>> /\ eeprom'[hDevice'].mem = M
          /\ ~ eeprom'[hDevice'].busy
      BY <1>3, <2>2, EnableEnds
    <3>2. Answer(M, f.addr, Samples(f, 0)) = 0
      BY <1>1, NoAnswer
    <3>3. Took(eeprom'[hDevice'], f, M, 0)
      <4>1. ~ (0 >= f.from) /\ ~ (0 >= f.first)
        BY <1>1, <1>2
      <4>2. Len(<<>>) = 0 /\ 1 .. 0 = {}
        OBVIOUS
      <4> QED
        BY <3>1, <4>1, <4>2 DEF Took
    <3>4. Before(f, M, <<>>)'
      BY <3>1, <3>2, <3>3 DEF Before, Taken, Lines3, K
    <3> QED
      BY <3>1, <3>4 DEF Framed, Reading, f
  <2> QED
    BY <2>1, <2>2
<1>5. CASE Framed(f, M, <<>>)
  <2>1. CASE ~ After(f, M, <<>>)
    <3>1. Sent(f, M, <<>>)
      BY <1>1, <1>3, <1>5, <2>1, FrameStep
    <3> QED
      BY <3>1 DEF Sent, Reading, f
  <2>2. CASE After(f, M, <<>>)
    <3>1. LET new == Deselected(chip)
          IN  new \in Chips /\ new.in = <<>> /\ new.mem = M /\ ~ new.busy
      <4>1. chip \in Chips /\ Took(chip, f, M, Len(f.bits))
        BY <2>2 DEF OnCard, RomTypeOK, After, Taken
      <4> QED
        BY <1>1, <1>2, <4>1, Released
    <3>2. /\ OtherCards /\ Left(<<>>)' /\ cntrl'[hDevice'] = {}
          /\ eeprom'[hDevice'] = Deselected(chip)
          /\ READ_Data' = Answer(M, f.addr, Samples(f, Len(f.bits)))
      BY <1>1, <1>3, <2>2, <3>1, AfterStep
    <3>3. Samples(f, Len(f.bits)) = 2 * WordBits
      BY <1>1, <1>2 DEF Samples
    <3>4. Rests(hDevice, M)' /\ READ_Data' = Answer(M, a, 2 * WordBits)
      BY <1>1, <3>1, <3>2, <3>3 DEF Rests
    <3> QED
      BY <3>2, <3>4 DEF Reading
  <2> QED
    BY <2>1, <2>2
<1> QED
  BY <1>4, <1>5, NothingLeft DEF Reading, K, f

-----------------------------------------------------------------------------
\* A write

\* A whole write command, deselected, is stored.
LEMMA WordStored ==
  ASSUME NEW a \in 0 .. 2 ^ AddrBits - 1, NEW v \in 0 .. Top - 1, NEW M \in Mems,
         NEW chip \in Chips, Took(chip, WriteFrame(a, v), M, CommandBits + WordBits)
  PROVE  LET new == Deselected(chip)
         IN  /\ new \in Chips /\ new.in = <<>> /\ new.mem = Stored(M, a, v) /\ new.enabled
             /\ Stored(M, a, v) \in Mems
<1> DEFINE f == WriteFrame(a, v)
           in == chip.in
           n == CommandBits + WordBits
           new == [chip EXCEPT !.in = <<>>, !.busy = TRUE, !.mem[a % Words] = v]
<1>1. /\ n \in Nat \ {0} /\ Words \in Nat \ {0} /\ a \in Nat /\ Top \in Nat \ {0}
  BY Widths
<1>2. /\ in \in Seq({0, 1}) /\ Len(in) = n /\ chip.mem = M /\ chip.enabled
      /\ \A i \in 1 .. n : in[i] = f.bits[i]
  <2>1. n >= f.from
    BY <1>1 DEF WriteFrame
  <2> HIDE DEF f
  <2> QED
    BY <2>1 DEF Took, Chips, f
<1>3. Len(f.bits) = n
  BY WriteGood
<1> HIDE DEF f
<1>4. Starts(in, f)
  BY <1>1, <1>2, <1>3 DEF Starts
<1>5. Operation(in) = 1 /\ Address(in) = a /\ Word(in) = v
  BY <1>2, <1>4, WriteGood DEF f
<1>6. Deselected(chip) = new
  BY <1>2, <1>5 DEF Deselected
<1>7. a % Words \in 0 .. Words - 1
  BY <1>1, SMT
<1>8. Stored(M, a, v) \in Mems /\ Stored(M, a, v) = [M EXCEPT ![a % Words] = v]
  <2>1. Top \in Nat /\ v \in 0 .. Top - 1
    BY <1>1
  <2> QED
    BY <1>7, <2>1 DEF Stored, Mems
<1>9. chip \in [in : Seq({0, 1}), mem : Mems, enabled : BOOLEAN, busy : BOOLEAN, out : {0, 1}]
  BY DEF Chips
<1>10. new \in Chips /\ new.in = <<>> /\ new.mem = Stored(M, a, v) /\ new.enabled = chip.enabled
  <2>1. <<>> \in Seq({0, 1})
    OBVIOUS
  <2> QED
    BY <1>2, <1>8, <1>9, <2>1 DEF Chips
<1> QED
  BY <1>2, <1>6, <1>8, <1>10

\* A write command ends, and the EEPROM is busy with the word.
LEMMA WordEnds ==
  ASSUME OnCard, NEW a \in 0 .. 2 ^ AddrBits - 1, NEW v \in 0 .. Top - 1, NEW M \in Mems,
         NEW K \in Seq(EepromOps), After(WriteFrame(a, v), M, Pauses(K))
  PROVE  OtherCards /\ Busy(Stored(M, a, v), K)'
<1> DEFINE f == WriteFrame(a, v)
           n == CommandBits + WordBits
           chip == eeprom[hDevice]
<1>1. Good(f) /\ Len(f.bits) = n /\ f.first = n + 1 /\ f.addr = 0
  <2>1. f.first = n + 1 /\ f.addr = 0
    BY DEF WriteFrame
  <2> QED
    BY <2>1, WriteGood
<1>2. n \in Nat /\ 0 \in 0 .. Words - 1 /\ 0 \in 0 .. 2 * WordBits - 1 /\ ~ (n > n + 1)
  BY Widths
<1> HIDE DEF f
<1>3. Pauses(K) \in Seq(EepromOps)
  BY <1>1, <1>2, FrameOps
<1>4. chip \in Chips /\ Took(chip, f, M, n)
  BY <1>1 DEF OnCard, RomTypeOK, After, Taken, f
<1>5. LET new == Deselected(chip)
      IN  new \in Chips /\ new.in = <<>> /\ new.mem = Stored(M, a, v) /\ new.enabled
  BY <1>4, WordStored DEF f
<1>6. /\ OtherCards /\ Left(Pauses(K))' /\ cntrl'[hDevice'] = {}
      /\ eeprom'[hDevice'] = Deselected(chip)
      /\ READ_Data' = Answer(M, f.addr, Samples(f, Len(f.bits)))
  BY <1>1, <1>3, <1>5, AfterStep DEF f
<1>7. Samples(f, Len(f.bits)) = 0
  BY <1>1, <1>2 DEF Samples
<1>8. Answer(M, 0, 0) = 0
  BY <1>2, NextAnswer
<1> QED
  BY <1>1, <1>5, <1>6, <1>7, <1>8 DEF Busy

\* The pause ends the storing.
LEMMA BusyStep ==
  ASSUME OnCard, NEW M, NEW K \in Seq(EepromOps), Busy(M, K)
  PROVE  /\ OtherCards /\ Left(K)' /\ cntrl'[hDevice'] = {} /\ READ_Data' = 0
         /\ eeprom'[hDevice'].in = <<>> /\ eeprom'[hDevice'].mem = M
         /\ ~ eeprom'[hDevice'].busy /\ eeprom'[hDevice'].enabled
<1> DEFINE new == [eeprom[hDevice] EXCEPT !.busy = FALSE]
<1>1. RomTypeOK /\ hDevice \in Cards /\ eeprom[hDevice] \in Chips
  BY DEF OnCard, RomTypeOK
<1>2. Left(K)' /\ Arg = Pause
  BY Ops, DoesNext DEF Busy, Pauses
<1>3. Turns({}, new, 0)
  <2>1. Turns(cntrl[hDevice], new, READ_Data)
    BY <1>2, AnOperation
  <2> QED
    BY <2>1 DEF Busy
<1>4. new \in Chips /\ new.in = <<>> /\ new.mem = M /\ ~ new.busy /\ new.enabled
  BY <1>1 DEF Chips, Busy
<1> HIDE DEF new
<1>5. OtherCards /\ cntrl'[hDevice'] = {} /\ eeprom'[hDevice'] = new /\ READ_Data' = 0
  <2>1. {} \in SUBSET {"cs", "din", "clk"}
    OBVIOUS
  <2> QED
    BY <1>1, <1>3, <1>4, <2>1, Turned
<1> QED
  BY <1>2, <1>4, <1>5

\* A write is next once writes are enabled and the EEPROM is at rest.
LEMMA WriteNext ==
  ASSUME NEW a \in 0 .. 2 ^ AddrBits - 1, NEW v \in 0 .. Top - 1, NEW M \in Mems,
         NEW K \in Seq(EepromOps), Left(WriteRest(a, v, K))',
         cntrl'[hDevice'] = {}, READ_Data' = 0, eeprom'[hDevice'].in = <<>>,
         eeprom'[hDevice'].mem = M, ~ eeprom'[hDevice'].busy, eeprom'[hDevice'].enabled
  PROVE  Framed(WriteFrame(a, v), M, Pauses(K))'
<1> DEFINE f == WriteFrame(a, v)
<1>1. Good(f) /\ f.first = CommandBits + WordBits + 1
  <2>1. f.first = CommandBits + WordBits + 1
    BY DEF WriteFrame
  <2> QED
    BY <2>1, WriteGood
<1> HIDE DEF f
<1>2. Answer(M, f.addr, Samples(f, 0)) = 0
  BY <1>1, NoAnswer
<1>3. Took(eeprom'[hDevice'], f, M, 0)
  <2>1. ~ (0 >= CommandBits + WordBits + 1)
    <3>1. CommandBits \in Nat /\ WordBits \in Nat
      BY Widths
    <3> QED
      BY <3>1
  <2>2. Len(<<>>) = 0 /\ 1 .. 0 = {}
    OBVIOUS
  <2> QED
    BY <1>1, <2>1, <2>2 DEF Took
<1> QED
  BY <1>2, <1>3 DEF Framed, Before, Taken, Lines3, WriteRest, f

\* An operation of a write takes it one step further, and touches no other card.
LEMMA WriteStep ==
  ASSUME OnCard, NEW a \in 0 .. 2 ^ AddrBits - 1, a + 1 \in 0 .. 2 ^ AddrBits - 1,
         NEW hi \in 0 .. Top - 1, NEW lo \in 0 .. Top - 1, NEW M \in Mems,
         Writing(a, hi, lo, M)
  PROVE  OtherCards /\ Writing(a, hi, lo, M)'
<1> DEFINE M1 == Stored(M, a, hi)
           M2 == Stored(M1, a + 1, lo)
           K0 == Pauses(<<>>)
           K1 == WriteRest(a + 1, lo, <<>>)
           K2 == Pauses(K1)
           K3 == WriteRest(a, hi, K1)
           f1 == WriteFrame(a, hi)
           f2 == WriteFrame(a + 1, lo)
<1>1. Good(EnableFrame) /\ Good(f1) /\ Good(f2)
  BY EnableGood, WriteGood
<1>2. M1 \in Mems /\ M2 \in Mems
  <2>1. /\ Words \in Nat \ {0} /\ Top \in Nat /\ a \in Nat /\ a + 1 \in Nat
    BY Widths
  <2>2. \A N \in Mems, x \in Nat, v \in 0 .. Top - 1 : Stored(N, x, v) \in Mems
    <3>1. \A x \in Nat : x % Words \in 0 .. Words - 1
      BY <2>1, SMT
    <3> QED
      BY <2>1, <3>1 DEF Stored, Mems
  <2> QED
    BY <2>1, <2>2
<1>3. /\ <<>> \in Seq(EepromOps) /\ K0 \in Seq(EepromOps) /\ K1 \in Seq(EepromOps)
      /\ K2 \in Seq(EepromOps) /\ K3 \in Seq(EepromOps)
  <2>1. <<>> \in Seq(EepromOps)
    BY OneOps
  <2>2. \A f, K : Len(f.bits) \in Nat /\ K \in Seq(EepromOps) =>
          /\ Pauses(K) \in Seq(EepromOps) /\ Frame(f, K) \in Seq(EepromOps)
          /\ Cleared(K) \in Seq(EepromOps)
    BY FrameOps
  <2>3. Len(f1.bits) \in Nat /\ Len(f2.bits) \in Nat
    BY <1>1 DEF Good
  <2> HIDE DEF f1, f2
  <2>4. K0 \in Seq(EepromOps)
    BY <2>1, <2>2, <2>3
  <2>5. K1 \in Seq(EepromOps)
    BY <2>2, <2>3, <2>4 DEF WriteRest, f2
  <2>6. K2 \in Seq(EepromOps)
    BY <2>2, <2>3, <2>5
  <2>7. K3 \in Seq(EepromOps)
    BY <2>2, <2>3, <2>6 DEF WriteRest, f1
  <2> QED
    BY <2>1, <2>4, <2>5, <2>6, <2>7
<1>4. /\ Writing(a, hi, lo, M) <=>
           \/ Framed(EnableFrame, M, K3) \/ Framed(f1, M, K2) \/ Busy(M1, K1)
           \/ Framed(f2, M1, K0) \/ Busy(M2, <<>>) \/ (Rests(hDevice, M2) /\ Left(<<>>))
  BY DEF Writing
<1>5. \/ Framed(EnableFrame, M, K3)' \/ Framed(f1, M, K2)' \/ Busy(M1, K1)'
      \/ Framed(f2, M1, K0)' \/ Busy(M2, <<>>)' \/ (Rests(hDevice, M2)' /\ Left(<<>>)')
      => Writing(a, hi, lo, M)'
  BY DEF Writing
<1>6. CASE Framed(EnableFrame, M, K3)
  <2>1. CASE ~ After(EnableFrame, M, K3)
    <3> HIDE DEF K3
    <3>1. Sent(EnableFrame, M, K3)
      BY <1>1, <1>3, <1>6, <2>1, FrameStep
    <3> QED
      BY <1>5, <3>1 DEF Sent
  <2>2. CASE After(EnableFrame, M, K3)
    <3> HIDE DEF K3
    <3>1. /\ OtherCards /\ Left(K3)' /\ cntrl'[hDevice'] = {} /\ READ_Data' = 0
          /\ eeprom'[hDevice'].in = <<>> /\ eeprom'[hDevice'].mem = M
          /\ ~ eeprom'[hDevice'].busy /\ eeprom'[hDevice'].enabled
      BY <1>3, <2>2, EnableEnds
    <3>2. Framed(f1, M, K2)'
      BY <1>3, <3>1, WriteNext DEF K3
    <3> QED
      BY <1>5, <3>1, <3>2
  <2> QED
    BY <2>1, <2>2
<1>7. CASE Framed(f1, M, K2)
  <2>1. CASE ~ After(f1, M, K2)
    <3> HIDE DEF K2, f1
    <3>1. Sent(f1, M, K2)
      BY <1>1, <1>3, <1>7, <2>1, FrameStep
    <3> QED
      BY <1>5, <3>1 DEF Sent
  <2>2. CASE After(f1, M, K2)
    <3>1. OtherCards /\ Busy(M1, K1)'
      <4> HIDE DEF K1
      <4> QED
        BY <1>3, <2>2, WordEnds
    <3> QED
      BY <1>5, <3>1
  <2> QED
    BY <2>1, <2>2
<1>8. CASE Busy(M1, K1)
  <2> HIDE DEF K1
  <2>1. /\ OtherCards /\ Left(K1)' /\ cntrl'[hDevice'] = {} /\ READ_Data' = 0
        /\ eeprom'[hDevice'].in = <<>> /\ eeprom'[hDevice'].mem = M1
        /\ ~ eeprom'[hDevice'].busy /\ eeprom'[hDevice'].enabled
    BY <1>3, <1>8, BusyStep
  <2>2. Framed(f2, M1, K0)'
    BY <1>2, <1>3, <2>1, WriteNext DEF K1
  <2> QED
    BY <1>5, <2>1, <2>2
<1>9. CASE Framed(f2, M1, K0)
  <2>1. CASE ~ After(f2, M1, K0)
    <3> HIDE DEF K0, f2, M1
    <3>1. Sent(f2, M1, K0)
      BY <1>1, <1>2, <1>3, <1>9, <2>1, FrameStep
    <3> QED
      BY <1>5, <3>1 DEF Sent
  <2>2. CASE After(f2, M1, K0)
    <3>1. OtherCards /\ Busy(M2, <<>>)'
      <4> HIDE DEF M1
      <4> QED
        BY <1>2, <1>3, <2>2, WordEnds
    <3> QED
      BY <1>5, <3>1
  <2> QED
    BY <2>1, <2>2
<1>10. CASE Busy(M2, <<>>)
  <2> HIDE DEF M2
  <2>1. /\ OtherCards /\ Left(<<>>)' /\ cntrl'[hDevice'] = {} /\ READ_Data' = 0
        /\ eeprom'[hDevice'].in = <<>> /\ eeprom'[hDevice'].mem = M2
        /\ ~ eeprom'[hDevice'].busy /\ eeprom'[hDevice'].enabled
    BY <1>3, <1>10, BusyStep
  <2>2. Rests(hDevice, M2)'
    BY <2>1 DEF Rests
  <2> QED
    BY <1>5, <2>1, <2>2
<1> QED
  BY <1>4, <1>6, <1>7, <1>8, <1>9, <1>10, NothingLeft

-----------------------------------------------------------------------------
\* The calls keep the invariant.

\* What the scripts of the EEPROM's calls are
LEMMA EepromCalls ==
  ASSUME NEW c \in UNION Programs, c.name \in EepromCall
  PROVE  LET a == c.addr \div 2
         IN  /\ c.addr \in Nat
             /\ c.name = "ReadDWord" =>
                  Scripts[c] = cg400_EEPROMReadDWord(c.addr)
             /\ c.name = "WriteDWord" =>
                  /\ c.value \in 0 .. 2 ^ (2 * WordBits) - 1
                  /\ Scripts[c] = cg400_EEPROMWriteDWord(c.addr, c.value)
<1>1. c \in Requests
  BY Cg400Assumption
<1>2. c \in [name : {"ReadDWord"}, addr : Nat]
      \/ c \in [name : {"WriteDWord"}, addr : Nat, value : 0 .. 2 ^ (2 * WordBits) - 1]
  BY <1>1 DEF Requests, EepromCall
<1>3. Scripts[c] = ScriptOf(c)
  BY DEF Scripts
<1>4. CASE c \in [name : {"ReadDWord"}, addr : Nat]
  <2>1. c.name = "ReadDWord" /\ c.addr \in Nat
    BY <1>4
  <2> QED
    BY <1>3, <2>1 DEF ScriptOf
<1>5. CASE c \in [name : {"WriteDWord"}, addr : Nat, value : 0 .. 2 ^ (2 * WordBits) - 1]
  <2>1. c.name = "WriteDWord" /\ c.addr \in Nat /\ c.value \in 0 .. 2 ^ (2 * WordBits) - 1
    BY <1>5
  <2> QED
    BY <1>3, <2>1 DEF ScriptOf
<1> QED
  BY <1>2, <1>4, <1>5

\* The script of a call that is not refused, as frames; a refused call has none.
LEMMA CallScripts ==
  ASSUME NEW c \in UNION Programs
  PROVE  LET a == c.addr \div 2
         IN  /\ Reads(c) =>
                  /\ a \in 0 .. Words - 1
                  /\ Scripts[c] = Cleared(Frame(EnableFrame, Frame(ReadFrame(a), <<>>)))
             /\ Writes(c) =>
                  LET hi == High(c.value)
                      lo == Low(c.value)
                  IN  /\ a \in 0 .. 2 ^ AddrBits - 1 /\ a + 1 \in 0 .. 2 ^ AddrBits - 1
                      /\ hi \in 0 .. Top - 1 /\ lo \in 0 .. Top - 1
                      /\ Scripts[c] =
                           Cleared(Frame(EnableFrame, WriteRest(a, hi, WriteRest(a + 1, lo, <<>>))))
             /\ c.name \in EepromCall /\ ~ Reads(c) /\ ~ Writes(c) => Scripts[c] = <<>>
<1> DEFINE a == c.addr \div 2
<1>1. ASSUME Reads(c)
      PROVE  /\ a \in 0 .. Words - 1
             /\ Scripts[c] = Cleared(Frame(EnableFrame, Frame(ReadFrame(a), <<>>)))
  <2>1. c.name \in EepromCall /\ c.name = "ReadDWord" /\ a < Words
    BY <1>1 DEF Reads, EepromCall
  <2>2. c.addr \in Nat /\ Scripts[c] = cg400_EEPROMReadDWord(c.addr)
    BY <2>1, EepromCalls
  <2> QED
    BY <2>1, <2>2, ReadScript
<1>2. ASSUME Writes(c)
      PROVE  LET hi == High(c.value)
                 lo == Low(c.value)
             IN  /\ a \in 0 .. 2 ^ AddrBits - 1 /\ a + 1 \in 0 .. 2 ^ AddrBits - 1
                 /\ hi \in 0 .. Top - 1 /\ lo \in 0 .. Top - 1
                 /\ Scripts[c] =
                      Cleared(Frame(EnableFrame, WriteRest(a, hi, WriteRest(a + 1, lo, <<>>))))
  <2>1. c.name \in EepromCall /\ c.name = "WriteDWord" /\ a <= Words
    BY <1>2 DEF Writes, EepromCall
  <2>2. /\ c.addr \in Nat /\ c.value \in 0 .. 2 ^ (2 * WordBits) - 1
        /\ Scripts[c] = cg400_EEPROMWriteDWord(c.addr, c.value)
    BY <2>1, EepromCalls
  <2> QED
    BY <2>1, <2>2, WriteScript
<1>3. ASSUME c.name \in EepromCall, ~ Reads(c), ~ Writes(c)
      PROVE  Scripts[c] = <<>>
  <2>1. a \in Nat /\ Words \in Nat
    <3>1. c.addr \in Nat
      BY <1>3, EepromCalls
    <3>2. a \in Nat
      BY <3>1, SMT
    <3> QED
      BY <3>2, Widths
  <2>2. CASE c.name = "ReadDWord"
    <3>1. ~ (a < Words)
      BY <1>3, <2>2 DEF Reads
    <3>2. a > Words - 1
      BY <2>1, <3>1
    <3> QED
      BY <1>3, <2>2, <3>2, EepromCalls DEF cg400_EEPROMReadDWord
  <2>3. CASE c.name = "WriteDWord"
    <3>1. ~ (a <= Words)
      BY <1>3, <2>3 DEF Writes
    <3>2. a > Words
      BY <2>1, <3>1
    <3> QED
      BY <1>3, <2>3, <3>2, EepromCalls DEF cg400_EEPROMWriteDWord
  <2> QED
    BY <1>3, <2>2, <2>3 DEF EepromCall
<1> QED
  BY <1>1, <1>2, <1>3

\* Only the EEPROM's calls reach it, and only on a card that is there.
LEMMA RomStays ==
  ASSUME ClockTypeOK, Operations, hDevice \notin Cards \/ call.name \notin EepromCall
  PROVE  UNCHANGED rom
<1>1. CASE hDevice \notin Cards
  BY <1>1 DEF Operations, ClearLines, SetLines, SampleBit, PauseForWrite, ZeroPort0, SetPort0,
         UseRam, WritePort, WriteCntrl, WritePort0, rom
<1>2. CASE call.name \notin EepromCall
  <2>1. Initializes \/ SetsFrequency \/ UsesRam
    BY <1>2, OneOperation DEF Onward, UsesEeprom, EepromCall
  <2>2. \A line, value : Puts(line, value) => UNCHANGED rom
    BY DEF Puts, WritePort0
  <2>3. \A addr, value : PutsPort(addr, value) => UNCHANGED rom
    BY DEF PutsPort
  <2>4. \A lines : WritePort0(lines) => UNCHANGED rom
    BY DEF WritePort0
  <2>5. \A j, k : Loads(j, k) => UNCHANGED rom
    BY <2>2 DEF Loads
  <2>6. Initializes => UNCHANGED rom
    BY <2>2, <2>4, <2>5 DEF Initializes
  <2>7. SetsFrequency => UNCHANGED rom
    BY <2>2, <2>3 DEF SetsFrequency
  <2>8. UsesRam => UNCHANGED rom
    BY <2>4 DEF UsesRam
  <2> QED
    BY <2>1, <2>6, <2>7, <2>8
<1> QED
  BY <1>1, <1>2

\* Each operation of a call keeps the invariant.
LEMMA RomOnward ==
  ASSUME ClockTypeOK, RomOK, Operations
  PROVE  RomOK'
<1>1. /\ at \in Nat \ {0} /\ at <= Len(Scripts[call]) /\ at' = at + 1 /\ call \in UNION Programs
      /\ UNCHANGED <<hDevice, before, call, board>>
  BY OneOperation DEF Onward, ClockTypeOK, hist
<1>2. RomTypeOK /\ at > 0 /\ at' > 0 /\ ~ (at' = 0)
  BY <1>1 DEF RomOK
<1>3. CASE hDevice \notin Cards \/ call.name \notin EepromCall
  <2>1. cntrl' = cntrl /\ eeprom' = eeprom
    BY <1>3, RomStays DEF rom
  <2>2. RomTypeOK'
    BY <1>1, <1>2, <2>1 DEF RomTypeOK
  <2>3. ASSUME NEW c \in Cards PROVE Rests(c, eeprom[c].mem)'
    <3>1. Rests(c, eeprom[c].mem)
      BY <1>3 DEF RomOK
    <3> QED
      BY <2>1, <3>1 DEF Rests
  <2>4. ASSUME hDevice' \in Cards PROVE Progress'
    <3>1. Progress /\ call.name \notin EepromCall
      BY <1>1, <1>2, <1>3, <2>4 DEF RomOK
    <3>2. ~ Reads(call) /\ ~ Writes(call) /\ call.name # "ReadDWord"
      BY <3>1 DEF Reads, Writes, EepromCall
    <3>3. Rests(hDevice, before[board])
      BY <3>1, <3>2 DEF Progress
    <3> QED
      BY <1>1, <2>1, <3>2, <3>3 DEF Progress, Rests
  <2> QED
    BY <1>2, <2>2, <2>3, <2>4 DEF RomOK
<1>4. CASE hDevice \in Cards /\ call.name \in EepromCall
  <2>1. OnCard /\ Progress
    BY <1>2, <1>4 DEF OnCard, RomOK
  <2> DEFINE a == call.addr \div 2
             M == before[board]
  <2>2. M \in Mems
    BY <1>2 DEF RomTypeOK, ClockTypeOK
  <2>3. OtherCards /\ Progress'
    <3>1. CASE Reads(call)
      <4>1. a \in 0 .. Words - 1 /\ Reading(a, M) /\ ~ Writes(call)
        BY <1>1, <2>1, <3>1, CallScripts DEF Progress, Reads, Writes
      <4>2. PICK x \in 0 .. Words - 1, N \in Mems : x = a /\ N = M
        BY <2>2, <4>1
      <4>3. OtherCards /\ Reading(x, N)'
        BY <2>1, <4>1, <4>2, ReadStep
      <4>4. Reading(call.addr \div 2, before[board])'
        BY <1>1, <4>2, <4>3
      <4> QED
        BY <1>1, <3>1, <4>1, <4>3, <4>4 DEF Progress
    <3>2. CASE Writes(call)
      <4>1. /\ a \in 0 .. 2 ^ AddrBits - 1 /\ a + 1 \in 0 .. 2 ^ AddrBits - 1
            /\ High(call.value) \in 0 .. Top - 1 /\ Low(call.value) \in 0 .. Top - 1
        BY <1>1, <3>2, CallScripts
      <4>2. PICK x \in 0 .. 2 ^ AddrBits - 1, N \in Mems, hi \in 0 .. Top - 1, lo \in 0 .. Top - 1 :
              x = a /\ N = M /\ hi = High(call.value) /\ lo = Low(call.value)
        BY <2>2, <4>1
      <4>3. Writing(x, hi, lo, N) /\ ~ Reads(call)
        BY <2>1, <3>2, <4>2 DEF Progress, Reads, Writes
      <4>4. OtherCards /\ Writing(x, hi, lo, N)'
        BY <2>1, <4>1, <4>2, <4>3, WriteStep
      <4>5. Writing(call.addr \div 2, High(call.value), Low(call.value), before[board])'
        BY <1>1, <4>2, <4>4
      <4> QED
        BY <1>1, <3>2, <4>3, <4>4, <4>5 DEF Progress
    <3>3. CASE ~ Reads(call) /\ ~ Writes(call)
      <4>1. Scripts[call] = <<>>
        BY <1>1, <1>4, <3>3, CallScripts
      <4>2. Len(Scripts[call]) = 0
        BY <4>1
      <4> QED
        BY <1>1, <4>2
    <3> QED
      BY <3>1, <3>2, <3>3
  <2>4. ASSUME NEW c \in Cards
        PROVE  Rests(c, eeprom[c].mem)' \/ (at' > 0 /\ call'.name \in EepromCall /\ hDevice' = c)
    <3>1. CASE c # hDevice
      <4>1. Rests(c, eeprom[c].mem)
        BY <3>1 DEF RomOK
      <4>2. cntrl'[c] = cntrl[c] /\ eeprom'[c] = eeprom[c]
        BY <2>3, <3>1 DEF OtherCards
      <4> QED
        BY <4>1, <4>2 DEF Rests
    <3> QED
      BY <1>1, <1>2, <1>4, <3>1
  <2> QED
    BY <1>2, <2>3, <2>4 DEF RomOK, OtherCards
<1> QED
  BY <1>3, <1>4

\* A call with a frame on is not at its end.
LEMMA NotEnded ==
  ASSUME at \in Nat \ {0}, NEW f, Good(f), NEW M, NEW K \in Seq(EepromOps), Framed(f, M, K)
  PROVE  at <= Len(Scripts[call])
<1>1. \A o \in EepromOps, r \in Seq(EepromOps) : Left(<<o>> \o r) => at <= Len(Scripts[call])
  BY NextLeft DEF Left
<1>2. Len(f.bits) \in Nat \ {0} /\ Len(f.bits) \in Nat
  BY DEF Good
<1>3. CASE Before(f, M, K)
  <2>1. /\ Frame(f, K) \in Seq(EepromOps) /\ Falls(K) \in Seq(EepromOps)
        /\ Rest(f, 0) \in Seq(EepromOps)
    BY <1>2, FrameOps
  <2>2. Rest(f, 0) \o Falls(K) \in Seq(EepromOps)
    BY <2>1, Joined
  <2>3. CASE Left(Frame(f, K))
    BY <1>1, <2>2, <2>3, Ops DEF Frame
  <2>4. CASE Left(Cleared(Frame(f, K)))
    BY <1>1, <2>1, <2>4, Ops DEF Cleared
  <2> QED
    BY <1>3, <2>3, <2>4 DEF Before
<1>4. CASE Within(f, M, K)
  <2>1. PICK y \in 1 .. Len(f.bits) : AtBit(f, M, Rest(f, y) \o Falls(K), y)
    BY <1>4 DEF Within
  <2> DEFINE T == Rest(f, y) \o Falls(K)
  <2>2. T \in Seq(EepromOps)
    <3>1. y \in 0 .. Len(f.bits)
      BY <1>2
    <3>2. Rest(f, y) \in Seq(EepromOps) /\ Falls(K) \in Seq(EepromOps)
      BY <1>2, <3>1, RestBits, FrameOps
    <3> QED
      BY <3>2, Joined
  <2> HIDE DEF T
  <2>3. /\ Cleared(T) \in Seq(EepromOps) /\ Clocking(T) \in Seq(EepromOps)
        /\ \A b : Setting(b, T) \in Seq(EepromOps) /\ Sending(b, T) \in Seq(EepromOps)
    BY <2>2, BitTail
  <2>4. AtBit(f, M, T, y)
    BY <2>1 DEF T
  <2>5. ASSUME Left(Sending(f.bits[y], T)) PROVE at <= Len(Scripts[call])
    BY <1>1, <2>3, <2>5, Ops DEF Sending
  <2>6. ASSUME Left(Sampling(f, y, T)) PROVE at <= Len(Scripts[call])
    <3>1. CASE y > f.first
      BY <1>1, <2>3, <2>6, <3>1, Ops DEF Sampling
    <3>2. CASE ~ (y > f.first)
      BY <2>5, <2>6, <3>2 DEF Sampling
    <3> QED
      BY <3>1, <3>2
  <2>7. ASSUME Left(<<Set({"din"})>> \o Clocking(T)) PROVE at <= Len(Scripts[call])
    BY <1>1, <2>3, <2>7, Ops
  <2>8. ASSUME Left(Clocking(T)) PROVE at <= Len(Scripts[call])
    BY <1>1, <2>3, <2>8, Ops DEF Clocking
  <2>9. ASSUME Left(Cleared(T)) PROVE at <= Len(Scripts[call])
    BY <1>1, <2>2, <2>9, Ops DEF Cleared
  <2> QED
    BY <2>4, <2>5, <2>6, <2>7, <2>8, <2>9 DEF AtBit
<1>5. CASE After(f, M, K)
  BY <1>1, <1>5, Ops DEF After, Falls
<1> QED
  BY <1>3, <1>4, <1>5 DEF Framed

\* A call that is at its end has left what it should.
LEMMA CallEnds ==
  ASSUME at \in Nat \ {0}, at = Len(Scripts[call]) + 1, call \in UNION Programs,
         call.name \in EepromCall, RomTypeOK, board \in Boards, Progress
  PROVE  \E N \in Mems : Rests(hDevice, N) /\ Result(call, before[board])
<1> DEFINE a == call.addr \div 2
           M == before[board]
<1>1. M \in Mems /\ ~ (at <= Len(Scripts[call])) /\ <<>> \in Seq(EepromOps)
  BY OneOps DEF RomTypeOK
<1>2. \A K \in Seq(EepromOps) : ~ Left(Pauses(K))
  <2>1. \A o \in EepromOps, r \in Seq(EepromOps) : Left(<<o>> \o r) => at <= Len(Scripts[call])
    BY NextLeft DEF Left
  <2> QED
    BY <1>1, <2>1, Ops DEF Pauses
<1>3. CASE Reads(call)
  <2>1. a \in 0 .. Words - 1 /\ Reading(a, M) /\ ~ Writes(call) /\ call.name = "ReadDWord"
    BY <1>3, CallScripts DEF Progress, Reads, Writes
  <2>2. Good(EnableFrame) /\ Good(ReadFrame(a))
    BY <2>1, EnableGood, ReadGood
  <2>3. Frame(ReadFrame(a), <<>>) \in Seq(EepromOps)
    <3>1. Len(ReadFrame(a).bits) \in Nat
      BY <2>2 DEF Good
    <3> QED
      BY <1>1, <3>1, FrameOps
  <2>4. ~ Framed(EnableFrame, M, Frame(ReadFrame(a), <<>>)) /\ ~ Framed(ReadFrame(a), M, <<>>)
    BY <1>1, <2>2, <2>3, NotEnded
  <2>5. Rests(hDevice, M) /\ READ_Data = Answer(M, a, 2 * WordBits)
    BY <2>1, <2>4 DEF Reading
  <2> QED
    BY <1>1, <1>3, <2>1, <2>5 DEF Result, Rests
<1>4. CASE Writes(call)
  <2> DEFINE hi == High(call.value)
             lo == Low(call.value)
             M1 == Stored(M, a, hi)
             M2 == Stored(M1, a + 1, lo)
             K1 == WriteRest(a + 1, lo, <<>>)
             f1 == WriteFrame(a, hi)
             f2 == WriteFrame(a + 1, lo)
  <2>1. /\ a \in 0 .. 2 ^ AddrBits - 1 /\ a + 1 \in 0 .. 2 ^ AddrBits - 1
        /\ hi \in 0 .. Top - 1 /\ lo \in 0 .. Top - 1
        /\ call.name # "ReadDWord" /\ ~ Reads(call)
    BY <1>4, CallScripts DEF Writes, Reads
  <2>2. Writing(a, hi, lo, M)
    BY <1>4, <2>1 DEF Progress
  <2>3. Good(EnableFrame) /\ Good(f1) /\ Good(f2)
    BY <2>1, EnableGood, WriteGood
  <2>4. M2 \in Mems
    <3>1. /\ Words \in Nat \ {0} /\ Top \in Nat /\ a \in Nat /\ a + 1 \in Nat
      BY <2>1, Widths
    <3>2. \A N \in Mems, x \in Nat, v \in 0 .. Top - 1 : Stored(N, x, v) \in Mems
      <4>1. \A x \in Nat : x % Words \in 0 .. Words - 1
        BY <3>1, SMT
      <4> QED
        BY <3>1, <4>1 DEF Stored, Mems
    <3> QED
      BY <1>1, <2>1, <3>1, <3>2
  <2>5. Len(f1.bits) \in Nat /\ Len(f2.bits) \in Nat
    BY <2>3 DEF Good
  <2>6. /\ Pauses(<<>>) \in Seq(EepromOps) /\ K1 \in Seq(EepromOps)
        /\ Pauses(K1) \in Seq(EepromOps) /\ WriteRest(a, hi, K1) \in Seq(EepromOps)
    <3> HIDE DEF f1, f2
    <3>1. \A f, K : Len(f.bits) \in Nat /\ K \in Seq(EepromOps) =>
            /\ Pauses(K) \in Seq(EepromOps) /\ Frame(f, K) \in Seq(EepromOps)
            /\ Cleared(K) \in Seq(EepromOps)
      BY FrameOps
    <3>2. Pauses(<<>>) \in Seq(EepromOps)
      BY <1>1, <2>5, <3>1
    <3>3. K1 \in Seq(EepromOps)
      BY <2>5, <3>1, <3>2 DEF WriteRest, f2
    <3> HIDE DEF K1
    <3>4. Pauses(K1) \in Seq(EepromOps)
      BY <2>5, <3>1, <3>3
    <3> QED
      BY <2>5, <3>1, <3>2, <3>3, <3>4 DEF WriteRest, f1
  <2>7. /\ ~ Framed(EnableFrame, M, WriteRest(a, hi, K1)) /\ ~ Framed(f1, M, Pauses(K1))
        /\ ~ Framed(f2, M1, Pauses(<<>>))
    <3> HIDE DEF K1, M1, f1, f2
    <3> QED
      BY <1>1, <2>3, <2>6, NotEnded
  <2>8. ~ Busy(M1, K1) /\ ~ Busy(M2, <<>>)
    <3> HIDE DEF K1
    <3> QED
      BY <1>1, <1>2, <2>6 DEF Busy
  <2>9. Rests(hDevice, M2)
    BY <2>2, <2>7, <2>8 DEF Writing
  <2> QED
    BY <1>4, <2>1, <2>4, <2>9 DEF Result, Rests, Written
<1>5. CASE ~ Reads(call) /\ ~ Writes(call)
  <2>1. Rests(hDevice, M) /\ (call.name = "ReadDWord" => READ_Data = 0)
    BY <1>5 DEF Progress
  <2> QED
    BY <1>1, <1>5, <2>1 DEF Result, Rests
<1> QED
  BY <1>3, <1>4, <1>5

\* A script starts as itself.
LEMMA Starting ==
  ASSUME NEW script \in Seq(EepromOps)
  PROVE  GoesOn(script, 1, script)
<1>1. Len(script) \in Nat
  BY LenProperties
<1>2. Len(script) = 1 - 1 + Len(script) /\ \A x \in 1 .. Len(script) : 1 - 1 + x = x
  BY <1>1
<1> QED
  BY <1>2 DEF GoesOn

\* A call starts with the write enable command.
LEMMA EnableNext ==
  ASSUME NEW M \in Mems, NEW K, Left(Cleared(Frame(EnableFrame, K)))',
         cntrl'[hDevice'] = {}, READ_Data' = 0, eeprom'[hDevice'].in = <<>>,
         eeprom'[hDevice'].mem = M, ~ eeprom'[hDevice'].busy
  PROVE  Framed(EnableFrame, M, K)'
<1> DEFINE f == EnableFrame
<1>1. Good(f) /\ f.first = CommandBits + 1 /\ f.from = CommandBits
  <2>1. f.first = CommandBits + 1 /\ f.from = CommandBits
    BY DEF EnableFrame
  <2> QED
    BY <2>1, EnableGood
<1> HIDE DEF f
<1>2. Answer(M, f.addr, Samples(f, 0)) = 0
  BY <1>1, NoAnswer
<1>3. Took(eeprom'[hDevice'], f, M, 0)
  <2>1. ~ (0 >= CommandBits + 1) /\ ~ (0 >= CommandBits)
    BY Widths
  <2>2. Len(<<>>) = 0 /\ 1 .. 0 = {}
    OBVIOUS
  <2> QED
    BY <1>1, <2>1, <2>2 DEF Took
<1> QED
  BY <1>2, <1>3 DEF Framed, Before, Taken, Lines3, f

\* A call that starts has nothing sent yet.
LEMMA CallBegins ==
  ASSUME ClockTypeOK, RomOK, NEW b \in Boards, NEW c \in program, Call(b, c)
  PROVE  RomOK'
<1>1. /\ at = 0 /\ call' = c /\ board' = b /\ at' = 1 /\ READ_Data' = 0 /\ hDevice' = hDevice
      /\ cntrl' = cntrl /\ eeprom' = eeprom
      /\ before' = [before EXCEPT ![b] =
                      IF hDevice \in Cards THEN eeprom[hDevice].mem ELSE before[b]]
  BY DEF Call, lib, rom
<1>2. c \in UNION Programs
  BY DEF ClockTypeOK
<1>3. RomTypeOK /\ \A d \in Cards : Rests(d, eeprom[d].mem)
  BY <1>1 DEF RomOK
<1>4. RomTypeOK'
  <2>1. (IF hDevice \in Cards THEN eeprom[hDevice].mem ELSE before[b]) \in Mems
    BY <1>3 DEF RomTypeOK, Chips
  <2> QED
    BY <1>1, <1>2, <1>3, <2>1 DEF RomTypeOK
<1>5. \A d \in Cards : Rests(d, eeprom[d].mem)'
  BY <1>1, <1>3 DEF Rests
<1>6. ASSUME hDevice' \in Cards PROVE Progress'
  <2> DEFINE M == eeprom[hDevice].mem
             a == c.addr \div 2
  <2>1. PICK N \in Mems : N = M
    BY <1>1, <1>3, <1>6 DEF RomTypeOK, Chips
  <2>2. before'[board'] = N
    BY <1>1, <1>3, <1>6, <2>1 DEF RomTypeOK
  <2>3. /\ cntrl'[hDevice'] = {} /\ eeprom'[hDevice'].in = <<>> /\ eeprom'[hDevice'].mem = N
        /\ ~ eeprom'[hDevice'].busy
    BY <1>1, <1>3, <1>6, <2>1 DEF Rests
  <2>4. <<>> \in Seq(EepromOps) /\ \A f, K : Len(f.bits) \in Nat /\ K \in Seq(EepromOps) =>
          /\ Pauses(K) \in Seq(EepromOps) /\ Frame(f, K) \in Seq(EepromOps)
          /\ Cleared(K) \in Seq(EepromOps)
    BY OneOps, FrameOps
  <2>5. Len(EnableFrame.bits) \in Nat
    BY EnableGood DEF Good
  <2>6. CASE Reads(c)
    <3>1. /\ a \in 0 .. Words - 1 /\ ~ Writes(c)
          /\ Scripts[c] = Cleared(Frame(EnableFrame, Frame(ReadFrame(a), <<>>)))
      BY <1>2, <2>6, CallScripts DEF Reads, Writes
    <3> DEFINE K == Frame(ReadFrame(a), <<>>)
    <3>2. K \in Seq(EepromOps)
      <4>1. Len(ReadFrame(a).bits) \in Nat
        BY <3>1, ReadGood DEF Good
      <4> QED
        BY <2>4, <4>1
    <3> HIDE DEF K
    <3>3. Cleared(Frame(EnableFrame, K)) \in Seq(EepromOps)
      BY <2>4, <2>5, <3>2
    <3>4. Left(Cleared(Frame(EnableFrame, K)))'
      BY <1>1, <3>1, <3>3, Starting DEF Left, K
    <3>5. Framed(EnableFrame, N, K)'
      BY <1>1, <2>3, <3>4, EnableNext
    <3>6. Reading(a, N)'
      BY <3>5 DEF Reading, K
    <3> QED
      BY <1>1, <2>2, <2>6, <3>1, <3>6 DEF Progress
  <2>7. CASE Writes(c)
    <3> DEFINE hi == High(c.value)
               lo == Low(c.value)
               K1 == WriteRest(a + 1, lo, <<>>)
               K == WriteRest(a, hi, K1)
    <3>1. /\ a \in 0 .. 2 ^ AddrBits - 1 /\ a + 1 \in 0 .. 2 ^ AddrBits - 1
          /\ hi \in 0 .. Top - 1 /\ lo \in 0 .. Top - 1
          /\ Scripts[c] = Cleared(Frame(EnableFrame, K)) /\ ~ Reads(c)
      BY <1>2, <2>7, CallScripts DEF Reads, Writes
    <3>2. K \in Seq(EepromOps)
      <4>1. Len(WriteFrame(a, hi).bits) \in Nat /\ Len(WriteFrame(a + 1, lo).bits) \in Nat
        BY <3>1, WriteGood DEF Good
      <4>2. Pauses(<<>>) \in Seq(EepromOps)
        BY <2>4, <4>1
      <4>3. K1 \in Seq(EepromOps)
        BY <2>4, <4>1, <4>2 DEF WriteRest
      <4> HIDE DEF K1
      <4>4. Pauses(K1) \in Seq(EepromOps)
        BY <2>4, <4>1, <4>3
      <4> QED
        BY <2>4, <4>1, <4>4 DEF WriteRest
    <3> HIDE DEF K
    <3>3. Cleared(Frame(EnableFrame, K)) \in Seq(EepromOps)
      BY <2>4, <2>5, <3>2
    <3>4. Left(Cleared(Frame(EnableFrame, K)))'
      BY <1>1, <3>1, <3>3, Starting DEF Left
    <3>5. Framed(EnableFrame, N, K)'
      BY <1>1, <2>3, <3>4, EnableNext
    <3>6. Writing(a, hi, lo, N)'
      BY <3>5 DEF Writing, K
    <3> QED
      BY <1>1, <2>2, <2>7, <3>1, <3>6 DEF Progress
  <2>8. CASE ~ Reads(c) /\ ~ Writes(c)
    BY <1>1, <2>2, <2>3, <2>8 DEF Progress, Rests
  <2> QED
    BY <2>6, <2>7, <2>8
<1> QED
  BY <1>1, <1>4, <1>5, <1>6 DEF RomOK

\* No program is killed in a call of the EEPROM.
NoEepromKills == \A c \in Fatal : c.name \notin EepromCall

\* What happens between the operations keeps the invariant.
LEMMA RomBetween ==
  ASSUME ClockTypeOK, RomOK, Between, NoEepromKills
  PROVE  RomOK'
<1>1. RomTypeOK /\ at \in Nat /\ hDevice \in Cards \cup {NoFile, Closed}
  BY DEF RomOK, ClockTypeOK
<1>2. NoFile \notin Cards /\ Closed \notin Cards
  BY Cg400Assumption DEF NoFile, Closed
<1>3. ASSUME \A c \in Cards : Rests(c, eeprom[c].mem), UNCHANGED <<rom, before>>, call' = NoCall,
             at' = 0
      PROVE  RomOK'
  <2>1. cntrl' = cntrl /\ eeprom' = eeprom /\ before' = before
    BY <1>3 DEF rom
  <2>2. RomTypeOK'
    BY <1>1, <1>3, <2>1 DEF RomTypeOK
  <2>3. \A c \in Cards : Rests(c, eeprom[c].mem)'
    BY <1>3, <2>1 DEF Rests
  <2>4. ~ (at' > 0) /\ ~ (call # NoCall)'
    BY <1>3
  <2> QED
    BY <2>2, <2>3, <2>4 DEF RomOK
<1>4. at = 0 => \A c \in Cards : Rests(c, eeprom[c].mem)
  BY DEF RomOK
<1>5. CASE \E b \in Boards : cg400_Open(b) \/ cg400_Close(b)
  BY <1>3, <1>4, <1>5 DEF cg400_Open, cg400_Close, hist
<1>6. CASE \E b \in Boards, c \in program : Call(b, c)
  BY <1>6, CallBegins
<1>7. CASE Return
  <2>1. /\ at \in Nat \ {0} /\ at = Len(Scripts[call]) + 1 /\ at' = 0
        /\ UNCHANGED <<hDevice, cntrl, eeprom, before, call, board, READ_Data>>
    BY <1>1, <1>7 DEF Return, lib, rom
  <2>2. call \in UNION Programs /\ board \in Boards /\ call # NoCall
    <3>1. call \in UNION Programs /\ board \in Boards
      BY <2>1 DEF ClockTypeOK
    <3>2. call \in Requests
      BY <3>1, Cg400Assumption
    <3>3. call.name # "none"
      BY <3>2 DEF Requests
    <3> QED
      BY <3>1, <3>3 DEF NoCall
  <2>3. hDevice \in Cards => Progress
    BY <2>1 DEF RomOK
  <2>4. ASSUME hDevice \in Cards
        PROVE  Result(call, before[board]) /\ Rests(hDevice, eeprom[hDevice].mem)
    <3>1. CASE call.name \in EepromCall
      <4>1. PICK N \in Mems : Rests(hDevice, N) /\ Result(call, before[board])
        BY <1>1, <2>1, <2>2, <2>3, <2>4, <3>1, CallEnds
      <4> QED
        BY <4>1 DEF Rests
    <3>2. CASE call.name \notin EepromCall
      <4>1. ~ Reads(call) /\ ~ Writes(call) /\ call.name # "ReadDWord"
        BY <3>2 DEF Reads, Writes, EepromCall
      <4>2. Rests(hDevice, before[board])
        BY <2>3, <2>4, <4>1 DEF Progress
      <4> QED
        BY <4>1, <4>2 DEF Result, Rests
    <3> QED
      BY <3>1, <3>2
  <2>5. ASSUME NEW c \in Cards PROVE Rests(c, eeprom[c].mem)
    <3>1. CASE c = hDevice
      BY <2>4, <3>1
    <3>2. CASE c # hDevice
      BY <3>2 DEF RomOK
    <3> QED
      BY <3>1, <3>2
  <2>6. RomTypeOK'
    BY <1>1, <2>1 DEF RomTypeOK
  <2>7. \A c \in Cards : Rests(c, eeprom[c].mem)'
    BY <2>1, <2>5 DEF Rests
  <2>8. hDevice' \in Cards => Result(call, before[board])'
    BY <2>1, <2>4 DEF Result
  <2> QED
    BY <2>1, <2>6, <2>7, <2>8 DEF RomOK
<1>8. CASE Exit
  BY <1>3, <1>4, <1>8 DEF Exit, Gone
<1>9. CASE Kill
  <2>1. call.name \notin EepromCall
    BY <1>9 DEF Kill, NoEepromKills
  <2>2. \A c \in Cards : Rests(c, eeprom[c].mem)
    BY <2>1 DEF RomOK
  <2> QED
    BY <1>3, <1>9, <2>2 DEF Kill, Gone
<1> QED
  BY <1>5, <1>6, <1>7, <1>8, <1>9 DEF Between, Ends

\* The invariant holds at the start.
LEMMA RomStart == Init => RomOK
<1> SUFFICES ASSUME Init PROVE RomOK
  OBVIOUS
<1>1. Blank \in Chips /\ Blank.mem \in Mems /\ Blank.in = <<>> /\ ~ Blank.busy
  <2>1. Top \in Nat \ {0} /\ 2 ^ WordBits - 1 = Top - 1 /\ Top - 1 \in 0 .. Top - 1
    BY Widths
  <2>2. [w \in 0 .. Words - 1 |-> 2 ^ WordBits - 1] \in Mems
    BY <2>1 DEF Mems
  <2>3. <<>> \in Seq({0, 1})
    OBVIOUS
  <2> QED
    BY <2>2, <2>3 DEF Blank, Chips
<1>2. /\ at = 0 /\ call = NoCall /\ cntrl = [c \in Cards |-> {}] /\ eeprom = [c \in Cards |-> Blank]
      /\ before = [b \in Boards |-> Blank.mem]
  BY DEF Init
<1> HIDE DEF Blank
<1>3. RomTypeOK
  <2>1. [c \in Cards |-> {}] \in [Cards -> SUBSET {"cs", "din", "clk"}]
    OBVIOUS
  <2>2. [c \in Cards |-> Blank] \in [Cards -> Chips]
    BY <1>1
  <2>3. [b \in Boards |-> Blank.mem] \in [Boards -> Mems]
    BY <1>1
  <2> QED
    BY <1>2, <2>1, <2>2, <2>3 DEF RomTypeOK
<1>4. \A c \in Cards : Rests(c, eeprom[c].mem)
  BY <1>1, <1>2 DEF Rests
<1> QED
  BY <1>2, <1>3, <1>4 DEF RomOK

\* Every step keeps the invariant.
LEMMA RomStep ==
  ASSUME ClockTypeOK, RomOK, [Next]_vars, NoEepromKills
  PROVE  RomOK'
<1>1. CASE Operations
  BY <1>1, RomOnward
<1>2. CASE Between
  BY <1>2, RomBetween
<1>3. CASE UNCHANGED vars
  <2>1. UNCHANGED <<hDevice, cntrl, eeprom, before, call, board, READ_Data, at>>
    BY <1>3 DEF vars, lib, rom, hist, run
  <2>2. RomTypeOK /\ RomTypeOK'
    BY <2>1 DEF RomOK, RomTypeOK
  <2>3. \A c \in Cards : Rests(c, eeprom[c].mem)' <=> Rests(c, eeprom[c].mem)
    BY <2>1 DEF Rests
  <2>4. Result(call, before[board])' <=> Result(call, before[board])
    BY <2>1 DEF Result
  <2>5. Progress' <=> Progress
    <3>1. \A rest : Left(rest)' <=> Left(rest)
      BY <2>1 DEF Left
    <3>2. \A f, M, K : Framed(f, M, K)' <=> Framed(f, M, K)
      BY <2>1, <3>1 DEF Framed, Before, Within, After, AtBit, Taken, Lines3
    <3>3. \A M : Rests(hDevice, M)' <=> Rests(hDevice, M)
      BY <2>1 DEF Rests
    <3>4. \A a, M : Reading(a, M)' <=> Reading(a, M)
      BY <2>1, <3>1, <3>2, <3>3 DEF Reading
    <3>5. \A a, hi, lo, M : Writing(a, hi, lo, M)' <=> Writing(a, hi, lo, M)
      BY <2>1, <3>1, <3>2, <3>3 DEF Writing, Busy
    <3> QED
      BY <2>1, <3>3, <3>4, <3>5 DEF Progress
  <2> QED
    BY <2>1, <2>2, <2>3, <2>4, <2>5 DEF RomOK
<1> QED
  BY <1>1, <1>2, <1>3, Steps

\* An EEPROM call has sent as much of its frames, and its EEPROM has taken, answered
\* and stored as much, as the operation it is at says; all other EEPROMs rest.
THEOREM RomInvariant ==
  ASSUME NoEepromKills
  PROVE  Spec => []RomOK
<1>1. Init => RomOK
  BY RomStart
<1>2. ClockTypeOK /\ RomOK /\ [Next]_vars => RomOK'
  BY RomStep
<1>3. Spec => []ClockTypeOK
  <2>1. ClockInv => ClockTypeOK
    BY DEF ClockInv
  <2> QED
    BY <2>1, ClockInvariant, PTL
<1> QED
  BY <1>1, <1>2, <1>3, PTL DEF Spec

\* An EEPROM read returns the two words at its address, a refused one zero.
THEOREM EepromReads ==
  ASSUME NoEepromKills
  PROVE  Spec => []ReadsBack
<1>1. ASSUME ClockTypeOK, RomOK PROVE ReadsBack
  <2> SUFFICES ASSUME at = 0, call.name = "ReadDWord", hDevice = board
               PROVE  LET a == call.addr \div 2
                          m == eeprom[board].mem
                      IN  READ_Data = IF a < Words
                                      THEN m[a] * 2 ^ WordBits + m[(a + 1) % Words] ELSE 0
    BY DEF ReadsBack
  <2> DEFINE a == call.addr \div 2
             m == eeprom[board].mem
  <2>1. call # NoCall /\ hDevice \in Cards
    BY <1>1, Cg400Assumption DEF NoCall, ClockTypeOK, NoFile, Closed
  <2>2. Result(call, before[board]) /\ call \in UNION Programs
    <3>1. Result(call, before[board])
      BY <1>1, <2>1 DEF RomOK
    <3>2. call = NoCall \/ call \in UNION Programs
      BY <1>1 DEF RomOK, RomTypeOK
    <3> QED
      BY <2>1, <3>1, <3>2
  <2>3. ~ Writes(call)
    BY DEF Writes
  <2>4. m = before[board] /\ m \in Mems
    BY <1>1, <2>1, <2>2, <2>3 DEF Result, RomOK, RomTypeOK, Chips
  <2>5. CASE Reads(call)
    <3>1. a \in 0 .. Words - 1 /\ a < Words
      BY <2>2, <2>5, CallScripts DEF Reads
    <3>2. READ_Data = Answer(m, a, 2 * WordBits)
      BY <2>2, <2>4, <2>5 DEF Result
    <3> HIDE DEF m, a
    <3>3. READ_Data = m[a] * 2 ^ WordBits + m[(a + 1) % Words]
      BY <2>4, <3>1, <3>2, WholeAnswer
    <3> QED
      BY <3>1, <3>3 DEF m, a
  <2>6. CASE ~ Reads(call)
    BY <2>2, <2>6 DEF Result, Reads
  <2> QED
    BY <2>5, <2>6
<1>2. Spec => []ClockTypeOK
  <2>1. ClockInv => ClockTypeOK
    BY DEF ClockInv
  <2> QED
    BY <2>1, ClockInvariant, PTL
<1> QED
  BY <1>1, <1>2, RomInvariant, PTL

\* Every write is to a word the EEPROM has.
InBounds == \A c \in UNION Programs : c.name = "WriteDWord" => c.addr \div 2 # Words

\* An EEPROM write stores both halves of its value, and no call changes any other word.
THEOREM EepromWrites ==
  ASSUME NoEepromKills, InBounds
  PROVE  Spec => []WritesItsWords
<1>1. ASSUME ClockTypeOK, RomOK PROVE WritesItsWords
  <2> SUFFICES ASSUME at = 0, hDevice = board, call # NoCall
               PROVE  LET a == call.addr \div 2
                      IN  eeprom[board].mem =
                            IF call.name = "WriteDWord" /\ a < Words
                            THEN [before[board] EXCEPT ![a] = High(call.value),
                                                       ![(a + 1) % Words] = Low(call.value)]
                            ELSE before[board]
    BY DEF WritesItsWords
  <2> DEFINE a == call.addr \div 2
  <2>1. hDevice \in Cards
    BY <1>1, Cg400Assumption DEF ClockTypeOK, NoFile, Closed
  <2>2. Result(call, before[board]) /\ call \in UNION Programs
    <3>1. Result(call, before[board])
      BY <1>1, <2>1 DEF RomOK
    <3>2. call = NoCall \/ call \in UNION Programs
      BY <1>1 DEF RomOK, RomTypeOK
    <3> QED
      BY <2>1, <3>1, <3>2
  <2>3. CASE Writes(call)
    <3>1. a \in 0 .. 2 ^ AddrBits - 1 /\ call.name = "WriteDWord" /\ a <= Words /\ a # Words
      BY <2>2, <2>3, CallScripts DEF Writes, InBounds
    <3>2. a < Words /\ a % Words = a
      <4>1. Words \in Nat \ {0} /\ a \in Nat
        BY <3>1, Widths
      <4> QED
        BY <3>1, <4>1, SMT
    <3>3. eeprom[board].mem = Stored(Stored(before[board], a, High(call.value)), a + 1, Low(call.value))
      BY <2>2, <2>3 DEF Result, Written
    <3> HIDE DEF a
    <3>4. eeprom[board].mem = [before[board] EXCEPT ![a] = High(call.value),
                                                    ![(a + 1) % Words] = Low(call.value)]
      BY <3>2, <3>3 DEF Stored
    <3> QED
      BY <3>1, <3>2, <3>4 DEF a
  <2>4. CASE ~ Writes(call)
    <3>1. ~ (call.name = "WriteDWord" /\ a < Words)
      <4>1. ASSUME call.name = "WriteDWord" PROVE a \in Nat
        <5>1. call.addr \in Nat
          BY <2>2, <4>1, EepromCalls DEF EepromCall
        <5> QED
          BY <5>1, SMT
      <4>2. Words \in Nat
        BY Widths
      <4> QED
        BY <2>4, <4>1, <4>2 DEF Writes
    <3> QED
      BY <2>2, <2>4, <3>1 DEF Result
  <2> QED
    BY <2>3, <2>4
<1>2. Spec => []ClockTypeOK
  <2>1. ClockInv => ClockTypeOK
    BY DEF ClockInv
  <2> QED
    BY <2>1, ClockInvariant, PTL
<1> QED
  BY <1>1, <1>2, RomInvariant, PTL
=============================================================================
