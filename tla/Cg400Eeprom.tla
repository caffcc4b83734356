----------------------------- MODULE Cg400Eeprom -----------------------------
(***************************************************************************)
(* The card's serial EEPROM (a 93C56 behind the PLX 9030's CNTRL register) *)
(* and the register writes with which cg400_lib.cpp reads and writes it.   *)
(*                                                                         *)
(* A call is the sequence of its writes to CNTRL.  Each of them takes the   *)
(* register as EEPROM_DELAY has just read it and sets or clears lines, so   *)
(* P9030_CNTRL_DATA is the register and is left out, and so is the          *)
(* protected area register, which only guards writes through the VPD.      *)
(***************************************************************************)
EXTENDS Integers, Sequences, SequencesExt

CONSTANTS
  AddrBits,   \* 8
  WordBits    \* 16

\* The address is one bit longer than the EEPROM needs, and the first is ignored.
Words == 2 ^ (AddrBits - 1)

Bits(v, n) == [x \in 1 .. n |-> (v \div 2 ^ (n - x)) % 2]
Number(bits) == CHOOSE v \in 0 .. 2 ^ Len(bits) - 1 : Bits(v, Len(bits)) = bits

-----------------------------------------------------------------------------
\* The calls, as sequences of operations

Clear(lines) == [op |-> "clear", lines |-> lines]
Set(lines)   == [op |-> "set", lines |-> lines]
Sample       == [op |-> "sample"]
Pause        == [op |-> "pause"]

WriteSer(BinValue) ==
  <<Clear({"din", "clk"})>>
  \o (IF BinValue = 1 THEN <<Set({"din"})>> ELSE <<>>)
  \o <<Set({"clk"}), Clear({"din", "clk"})>>

Send(v, n) == FlattenSeq([x \in 1 .. n |-> WriteSer(Bits(v, n)[x])])

\* A start bit, two bits of operation and the address.
CommandBits == AddrBits + 3
WEN_Command         == 4 * 2 ^ AddrBits + 3 * 2 ^ (AddrBits - 2)
READ_Command(Addr)  == 6 * 2 ^ AddrBits + Addr
WRITE_Command(Addr) == 5 * 2 ^ AddrBits + Addr

WriteEnable ==
  <<Clear({"din", "clk"}), Set({"cs"})>> \o Send(WEN_Command, CommandBits) \o <<Clear({"cs"})>>

MutantReadDWord(Addr) ==
  IF Addr \div 2 > Words - 1
  THEN <<>>
  ELSE WriteEnable
       \o <<Set({"cs"})>>
       \o Send(READ_Command(Addr \div 2), CommandBits)
       \o FlattenSeq([x \in 1 .. 2 * WordBits |-> <<Sample>> \o WriteSer(0)])
       \o <<Clear({"cs"})>>

cg400_EEPROMReadDWord(Addr) ==
  IF Addr \div 2 > Words - 1
  THEN <<>>
  ELSE WriteEnable
       \o <<Set({"cs"})>>
       \o Send(READ_Command(Addr \div 2), CommandBits)
       \o WriteSer(0)
       \o FlattenSeq([x \in 1 .. 2 * WordBits |-> <<Sample>> \o WriteSer(0)])
       \o <<Clear({"cs"})>>

MutantWriteWord(Addr, Word) ==
  <<Clear({"din", "clk"}), Set({"cs"})>>
  \o Send(WRITE_Command(Addr), CommandBits)
  \o Send(Word, WordBits)
  \o <<Clear({"cs"})>>

WriteWord(Addr, Word) ==
  <<Clear({"din", "clk"}), Set({"cs"})>>
  \o Send(WRITE_Command(Addr), CommandBits)
  \o Send(Word, WordBits)
  \o <<Clear({"cs"}), Pause>>

High(RegValue) == RegValue \div 2 ^ WordBits
Low(RegValue)  == RegValue % 2 ^ WordBits

cg400_EEPROMWriteDWord(Addr, RegValue) ==
  IF Addr \div 2 > Words
  THEN <<>>
  ELSE WriteEnable
       \o WriteWord(Addr \div 2, High(RegValue))
       \o WriteWord(Addr \div 2 + 1, Low(RegValue))

-----------------------------------------------------------------------------
\* The EEPROM: the bits it has taken since it was selected, its contents, whether
\* it takes writes, whether it is storing a word, and its output line.

Blank == [in |-> <<>>, mem |-> [w \in 0 .. Words - 1 |-> 2 ^ WordBits - 1],
          enabled |-> FALSE, busy |-> FALSE, out |-> 0]

Operation(in) == Number(SubSeq(in, 2, 3))
Address(in)   == Number(SubSeq(in, 4, CommandBits))
Word(in)      == Number(SubSeq(in, CommandBits + 1, CommandBits + WordBits))

\* Whether writes are enabled once in has been taken.
Enabled(chip, in) ==
  IF Len(in) = CommandBits /\ Operation(in) = 0
  THEN CASE Address(in) \div 2 ^ (AddrBits - 2) = 3 -> TRUE
         [] Address(in) \div 2 ^ (AddrBits - 2) = 0 -> FALSE
         [] OTHER -> chip.enabled
  ELSE chip.enabled

\* A dummy zero follows a read command, then the words from that address on.
Output(chip, in) ==
  LET k == Len(in) - CommandBits - 1
      w == (Address(in) + k \div WordBits) % Words
  IN IF k >= 0 /\ Operation(in) = 2 THEN Bits(chip.mem[w], WordBits)[1 + (k % WordBits)] ELSE 0

\* A rising clock: bits before the start bit, or while a word is stored, are lost.
Clocked(chip, bit) ==
  IF chip.busy \/ (chip.in = <<>> /\ bit = 0)
  THEN chip
  ELSE LET in == Append(chip.in, bit)
       IN [chip EXCEPT !.in = in, !.enabled = Enabled(chip, in), !.out = Output(chip, in)]

\* Deselected after a whole write command, the EEPROM stores the word.
Deselected(chip) ==
  IF Len(chip.in) = CommandBits + WordBits /\ Operation(chip.in) = 1 /\ chip.enabled
  THEN [chip EXCEPT !.in = <<>>, !.busy = TRUE,
                    !.mem[Address(chip.in) % Words] = Word(chip.in)]
  ELSE [chip EXCEPT !.in = <<>>]

\* The lines of CNTRL change from old to new.
Driven(chip, old, new) ==
  CASE "cs" \in old \ new -> Deselected(chip)
    [] "cs" \in new /\ "clk" \in new \ old -> Clocked(chip, IF "din" \in new THEN 1 ELSE 0)
    [] OTHER -> chip
=============================================================================
