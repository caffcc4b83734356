----------------------------- MODULE MCCg400Lib ------------------------------
(***************************************************************************)
(* Programs for Cg400Lib: one that sets the clock and uses the RAM, and    *)
(* one that uses an EEPROM of four words of two bits.                      *)
(***************************************************************************)
EXTENDS Cg400Lib

MCAddrBits  == 3
MCWordBits  == 2
MCHalfBits  == 2
MCFullScale == 5

\* Off, two frequencies below full scale, and two that are refused.
Frequencies == {-1, 0, 1, 4, 16}

SetCalls ==
  UNION {{[name |-> "SetFrequency", freq |-> f, word |-> w] :
            w \in IF Accepts(f) THEN FTWs(f) ELSE {0}} : f \in Frequencies}

ClockCalls == SetCalls \cup {[name |-> n] : n \in {"initialize", "ReadRAM", "WriteRAM"}}

\* The first words, the last ones, and the first address past each bound.
EepromCalls ==
  {[name |-> "ReadDWord", addr |-> a] : a \in {0, 3, 6, 8}}
  \cup {[name |-> "WriteDWord", addr |-> a, value |-> v] : a \in {0, 3, 6, 10}, v \in {6, 9}}

MCPrograms == {ClockCalls, EepromCalls}
MCFatal == ClockCalls
=============================================================================
