----------------------------- MODULE Cg400Clock ------------------------------
(***************************************************************************)
(* The card's clock: a DS852 synthesiser (DDS), whose tuning word comes    *)
(* from ports 1 and 2, and an LMX2316 (PLL) loaded bit by bit through      *)
(* port 0, with the port writes cg400_lib.cpp makes to set them.           *)
(*                                                                         *)
(* The value of port 0 is the set of its lines that are one.  The GPIO     *)
(* register and the contents of the RAM are left out.                      *)
(***************************************************************************)
EXTENDS Integers, Sequences, SequencesExt

CONSTANTS
  HalfBits,   \* 16, half a tuning word
  FullScale   \* 10^9 Hz, the frequency of a tuning word of 2^32

Scale == 2 ^ (2 * HalfBits)

Bit(v, n) == (v \div 2 ^ n) % 2

-----------------------------------------------------------------------------
\* The calls, as sequences of operations

Port0_Zero == [op |-> "zero"]
Set_Port0(RegNum, BitValue) == [op |-> "port0", line |-> RegNum, value |-> BitValue]
WritePortW(PortAddr, PortValue) == [op |-> "port", addr |-> PortAddr, value |-> PortValue]
RamOutput(on) == [op |-> "ram", on |-> on]

PllBits == 21

MutantLoad_PLL(RegValue) ==
  <<Set_Port0("PLL_SER_SCLK", 0), Set_Port0("PLL_SER_DIN", 0), Set_Port0("PLL_SER_CS1n", 0)>>
  \o FlattenSeq([i \in 1 .. PllBits - 1 |->
       <<Set_Port0("PLL_SER_DIN", Bit(RegValue, PllBits - i)),
         Set_Port0("PLL_SER_SCLK", 1), Set_Port0("PLL_SER_SCLK", 0)>>])
  \o <<Set_Port0("PLL_SER_CS1n", 1)>>

Load_PLL(RegValue) ==
  <<Set_Port0("PLL_SER_SCLK", 0), Set_Port0("PLL_SER_DIN", 0), Set_Port0("PLL_SER_CS1n", 0)>>
  \o FlattenSeq([i \in 1 .. PllBits |->
       <<Set_Port0("PLL_SER_DIN", Bit(RegValue, PllBits - i)),
         Set_Port0("PLL_SER_SCLK", 1), Set_Port0("PLL_SER_SCLK", 0)>>])
  \o <<Set_Port0("PLL_SER_CS1n", 1)>>

Function_LTCH == 146      \* 0x000092
R_Counter     == 1048616  \* 0x100028
N_Counter     == 4001     \* 0x000FA1

cg400_initialize ==
  <<Port0_Zero, Set_Port0("DDS_RST", 1), Set_Port0("STRP", 0), Set_Port0("PLL_SER_CS1n", 1)>>
  \o Load_PLL(Function_LTCH) \o Load_PLL(R_Counter) \o Load_PLL(N_Counter)

\* The tuning words a frequency may get: rounded up, and any word when that does
\* not fit, since the conversion from double is then undefined.
FTWs(DDS_Frequency) ==
  LET FTW == (DDS_Frequency * Scale + FullScale - 1) \div FullScale
  IN IF FTW < Scale THEN {FTW} ELSE 0 .. Scale - 1

Accepts(DDS_Frequency) == DDS_Frequency < Scale /\ DDS_Frequency >= 0

MutantSetFrequency(FTW) ==
  IF FTW = 0
  THEN <<Set_Port0("DDS_RST", 1)>>
  ELSE <<Set_Port0("DDS_RST", 0), WritePortW(1, FTW % 2 ^ HalfBits),
         Set_Port0("STRP", 1), WritePortW(2, FTW \div 2 ^ HalfBits), Set_Port0("STRP", 0)>>

cg400_SetFrequency(FTW) ==
  IF FTW = 0
  THEN <<Set_Port0("DDS_RST", 1)>>
  ELSE <<Set_Port0("DDS_RST", 0), WritePortW(1, FTW % 2 ^ HalfBits),
         WritePortW(2, FTW \div 2 ^ HalfBits), Set_Port0("STRP", 1), Set_Port0("STRP", 0)>>

\* Before a read the RAM's output is enabled (the line is low), before a write it
\* is disabled, one word or a block.
cg400_ReadRAM  == <<RamOutput(TRUE)>>
cg400_WriteRAM == <<RamOutput(FALSE)>>

-----------------------------------------------------------------------------
\* The chips: the PLL's shift register and its latches, by control bits; the DDS's
\* tuning word.

PowerUp == [shift |-> 0, latch |-> [c \in 0 .. 3 |-> 0]]

\* A rising clock shifts a bit in while CS1n is low; CS1n, rising, loads a latch.
PllDriven(pll, old, new) ==
  LET bit == IF "PLL_SER_DIN" \in new THEN 1 ELSE 0
  IN CASE "PLL_SER_CS1n" \in new \ old -> [pll EXCEPT !.latch[pll.shift % 4] = pll.shift]
       [] "PLL_SER_CS1n" \notin new /\ "PLL_SER_SCLK" \in new \ old ->
            [pll EXCEPT !.shift = (2 * pll.shift + bit) % 2 ^ PllBits]
       [] OTHER -> pll

\* The DDS takes the tuning word when STRP falls.
DdsDriven(dds, old, new, port1, port2) ==
  IF "STRP" \in old \ new THEN port2 * 2 ^ HalfBits + port1 ELSE dds
=============================================================================
