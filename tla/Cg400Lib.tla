------------------------------ MODULE Cg400Lib -------------------------------
(***************************************************************************)
(* A program that uses cg400_lib: it opens boards, initialises them, sets  *)
(* their frequency, uses their RAM and reads and writes their EEPROM, and  *)
(* may be killed between two writes to the card.                           *)
(*                                                                         *)
(* The four handles cg400_hPlx1 .. 4 all hold the address of the one       *)
(* gPLXDev, whose device file is that of the board opened last.            *)
(***************************************************************************)
EXTENDS Cg400Eeprom, Cg400Clock

CONSTANTS
  Cards,      \* the cards in the machine, /dev/siplx0 being card 1
  Boards,     \* the numbers the program opens
  Programs,   \* sets of calls; a program makes those of one of them
  Fatal,      \* the calls in which the program may be killed
  MaxKills    \* and how often it is (a bound)

\* What a program can ask for; a frequency comes with the tuning word it gets.
Requests ==
  [name : {"initialize", "ReadRAM", "WriteRAM"}]
  \cup {r \in [name : {"SetFrequency"}, freq : Int, word : Nat] :
          Accepts(r.freq) => r.word \in FTWs(r.freq)}
  \cup [name : {"ReadDWord"}, addr : Nat]
  \cup [name : {"WriteDWord"}, addr : Nat, value : 0 .. 2 ^ (2 * WordBits) - 1]

ASSUME Cg400Assumption ==
  /\ Boards \subseteq 1 .. 4
  /\ Cards \subseteq 1 .. 4
  /\ AddrBits \in 2 .. 8
  /\ WordBits \in 1 .. 16
  /\ HalfBits \in 1 .. 16
  /\ FullScale \in Nat \ {0}
  /\ \A calls \in Programs : calls \subseteq Requests

VARIABLES
  hPlx,         \* the numbers whose handle is not xNULL
  hDevice,      \* the card gPLXDev's file is open on, or why it is not
  Port0_Value,
  WGR,          \* WGR[0], the library's copy of port 0
  cntrl,        \* each card's CNTRL register: the EEPROM's lines that are one
  eeprom,       \* each card's EEPROM
  port0,        \* each card's port 0
  port,         \* each card's ports 1 and 2
  pll,
  dds,
  program,      \* the calls of this program
  call,         \* the call that runs
  board,        \* and its BrdNum
  kills,        \* how often the program was killed
  at,           \* the operation it is at; 0 between calls
  READ_Data,
  ready,        \* history: boards initialised by this process
  freq,         \* history: the frequency each ready board was last set to
  before        \* history: the EEPROM's contents when the call began

lib   == <<hPlx, hDevice, Port0_Value, WGR>>
clock == <<port0, port, pll, dds>>
rom   == <<cntrl, eeprom>>
hist  == <<ready, freq, before, kills>>
run   == <<program, call, board, at, READ_Data>>
vars  == <<lib, clock, rom, hist, run>>

NoFile == 0     \* open failed
Closed == -1    \* the file was closed

NoCall == [name |-> "none"]

ScriptOf(c) ==
  CASE c.name = "initialize"   -> cg400_initialize
    [] c.name = "SetFrequency" -> IF Accepts(c.freq) THEN cg400_SetFrequency(c.word) ELSE <<>>
    [] c.name = "ReadRAM"      -> cg400_ReadRAM
    [] c.name = "WriteRAM"     -> cg400_WriteRAM
    [] c.name = "ReadDWord"    -> cg400_EEPROMReadDWord(c.addr)
    [] c.name = "WriteDWord"   -> cg400_EEPROMWriteDWord(c.addr, c.value)

Scripts == [c \in UNION Programs |-> ScriptOf(c)]

Init ==
  /\ hPlx = {}
  /\ hDevice = NoFile
  /\ Port0_Value = {}
  /\ WGR = {}
  /\ cntrl = [c \in Cards |-> {}]
  /\ eeprom = [c \in Cards |-> Blank]
  /\ port0 = [c \in Cards |-> {}]
  /\ port = [c \in Cards |-> <<0, 0>>]
  /\ pll = [c \in Cards |-> PowerUp]
  /\ dds = [c \in Cards |-> 0]
  /\ program \in Programs
  /\ call = NoCall
  /\ board \in Boards
  /\ at = 0
  /\ READ_Data = 0
  /\ kills = 0
  /\ ready = {}
  /\ freq = [b \in Boards |-> 0]
  /\ before = [b \in Boards |-> Blank.mem]

-----------------------------------------------------------------------------
\* Opening and closing

BrdNumOK(BrdNum) == BrdNum \in hPlx

\* P9030_Open succeeds whatever open does, so that no return code of the switches
\* survives, and a failure of P9030_IntEnable is returned as 0.
cg400_Open(CardNum) ==
  /\ at = 0
  /\ hPlx' = hPlx \cup {CardNum}
  /\ hDevice' = IF CardNum \in Cards THEN CardNum ELSE NoFile
  /\ call' = NoCall
  /\ UNCHANGED <<Port0_Value, WGR, clock, rom, hist, program, board, at, READ_Data>>

\* Only the local copy of the handle is cleared.
cg400_Close(CardNum) ==
  /\ at = 0
  /\ BrdNumOK(CardNum)
  /\ hDevice' = Closed
  /\ ready' = ready \ {CardNum}
  /\ call' = NoCall
  /\ UNCHANGED <<hPlx, Port0_Value, WGR, clock, rom, freq, before, kills, program, board, at, READ_Data>>

-----------------------------------------------------------------------------
\* Calls

Call(BrdNum, c) ==
  /\ at = 0
  /\ BrdNumOK(BrdNum)
  /\ call' = c
  /\ board' = BrdNum
  /\ at' = 1
  /\ READ_Data' = 0
  /\ before' = [before EXCEPT ![BrdNum] =
                 IF hDevice \in Cards THEN eeprom[hDevice].mem ELSE before[BrdNum]]
  /\ UNCHANGED <<lib, clock, rom, ready, freq, kills, program>>

Operates(op) ==
  /\ at > 0
  /\ at <= Len(Scripts[call])
  /\ Scripts[call][at].op = op
  /\ at' = at + 1
  /\ UNCHANGED <<hPlx, hDevice, hist, program, call, board>>

Arg == Scripts[call][at]

\* A write to CNTRL reaches the card whose file is open.
WriteCntrl(lines) ==
  IF hDevice \in Cards
  THEN /\ cntrl' = [cntrl EXCEPT ![hDevice] = lines]
       /\ eeprom' = [eeprom EXCEPT ![hDevice] = Driven(@, cntrl[hDevice], lines)]
  ELSE UNCHANGED rom

\* What EEPROM_DELAY reads: zero when the ioctl fails.
P9030_CNTRL_DATA == IF hDevice \in Cards THEN cntrl[hDevice] ELSE {}

ClearLines ==
  /\ Operates("clear")
  /\ WriteCntrl(P9030_CNTRL_DATA \ Arg.lines)
  /\ UNCHANGED <<Port0_Value, WGR, clock, READ_Data>>

SetLines ==
  /\ Operates("set")
  /\ WriteCntrl(P9030_CNTRL_DATA \cup Arg.lines)
  /\ UNCHANGED <<Port0_Value, WGR, clock, READ_Data>>

SampleBit ==
  /\ Operates("sample")
  /\ READ_Data' = 2 * READ_Data + (IF hDevice \in Cards THEN eeprom[hDevice].out ELSE 0)
  /\ UNCHANGED <<Port0_Value, WGR, clock, rom>>

\* Five hundred delays, in which the EEPROM stores the word.
PauseForWrite ==
  /\ Operates("pause")
  /\ eeprom' = IF hDevice \in Cards THEN [eeprom EXCEPT ![hDevice].busy = FALSE] ELSE eeprom
  /\ UNCHANGED <<Port0_Value, WGR, clock, cntrl, READ_Data>>

\* cg400_WritePortW(BrdNum, 0, lines)
WritePort0(lines) ==
  /\ WGR' = lines
  /\ IF hDevice \in Cards
     THEN /\ port0' = [port0 EXCEPT ![hDevice] = lines]
          /\ pll' = [pll EXCEPT ![hDevice] = PllDriven(@, port0[hDevice], lines)]
          /\ dds' = [dds EXCEPT ![hDevice] =
                      DdsDriven(@, port0[hDevice], lines, port[hDevice][1], port[hDevice][2])]
     ELSE UNCHANGED <<port0, pll, dds>>
  /\ UNCHANGED <<port, rom, READ_Data>>

ZeroPort0 ==
  /\ Operates("zero")
  /\ Port0_Value' = {}
  /\ WritePort0({})

SetPort0 ==
  /\ Operates("port0")
  /\ Port0_Value' = IF Arg.value = 1 THEN Port0_Value \cup {Arg.line} ELSE Port0_Value \ {Arg.line}
  /\ WritePort0(Port0_Value')

MutantUseRam ==
  /\ Operates("ram")
  /\ WritePort0(IF Arg.on THEN {} ELSE {"OE"})
  /\ UNCHANGED Port0_Value

\* The RAM's output line is changed in the copy of the port, not in Port0_Value.
UseRam ==
  /\ Operates("ram")
  /\ WritePort0(IF Arg.on THEN WGR \ {"OE"} ELSE WGR \cup {"OE"})
  /\ UNCHANGED Port0_Value

WritePort ==
  /\ Operates("port")
  /\ port' = IF hDevice \in Cards THEN [port EXCEPT ![hDevice][Arg.addr] = Arg.value] ELSE port
  /\ UNCHANGED <<Port0_Value, WGR, port0, pll, dds, rom, READ_Data>>

Return ==
  /\ at > 0
  /\ at = Len(Scripts[call]) + 1
  /\ at' = 0
  /\ ready' = IF call.name = "initialize" /\ hDevice = board THEN ready \cup {board} ELSE ready
  /\ freq' = [freq EXCEPT ![board] =
               CASE call.name = "initialize" -> 0
                 [] call.name = "SetFrequency" /\ Accepts(call.freq) -> call.freq
                 [] OTHER -> @]
  /\ UNCHANGED <<lib, clock, rom, before, kills, program, call, board, READ_Data>>

Step ==
  \/ ClearLines \/ SetLines \/ SampleBit \/ PauseForWrite
  \/ ZeroPort0 \/ SetPort0 \/ UseRam \/ WritePort \/ Return

\* The process ends: its variables are lost, the card's registers stay as they are.
Gone ==
  /\ hPlx' = {}
  /\ hDevice' = NoFile
  /\ Port0_Value' = {}
  /\ WGR' = {}
  /\ at' = 0
  /\ call' = NoCall
  /\ READ_Data' = 0
  /\ ready' = {}
  /\ freq' = [b \in Boards |-> 0]
  /\ UNCHANGED <<clock, rom, before, program, board>>

Exit ==
  /\ at = 0
  /\ Gone
  /\ UNCHANGED kills

Kill ==
  /\ at > 0
  /\ call \in Fatal
  /\ kills < MaxKills
  /\ kills' = kills + 1
  /\ Gone

Next ==
  \/ \E b \in Boards : cg400_Open(b) \/ cg400_Close(b)
  \/ \E b \in Boards, c \in program : Call(b, c)
  \/ Step
  \/ Exit
  \/ Kill

Spec == Init /\ [][Next]_vars

-----------------------------------------------------------------------------
\* Properties

\* The board a finished call was made on, while its card is reached.
Resting(b) == at = 0 /\ b \in ready /\ hDevice = b

\* Once a board is initialised its PLL holds the three words it was sent, also when
\* an earlier program was killed in the middle of loading one.
PllProgrammed ==
  \A b \in Boards : Resting(b) =>
    \A w \in {Function_LTCH, R_Counter, N_Counter} : pll[b].latch[w % 4] = w

\* The DDS only ever takes a tuning word of a frequency that was asked for, never
\* half of one and half of another, wherever a program is killed.
NoTornWord ==
  \A c \in Cards :
    dds[c] \in {0} \cup {d.word : d \in {e \in UNION Programs : e.name = "SetFrequency"}}

\* Between calls the DDS of an initialised board is held in reset for frequency 0,
\* and otherwise runs at the smallest step that reaches the frequency, also after
\* the RAM was used through the same port.
DdsFollows ==
  \A b \in Boards : Resting(b) =>
    /\ freq[b] = 0 <=> "DDS_RST" \in port0[b]
    /\ freq[b] # 0 =>
         \A k \in 0 .. Scale - 1 : k * FullScale >= freq[b] * Scale <=> k >= dds[b]

\* An EEPROM read returns the two words at the address.
ReadsBack ==
  at = 0 /\ call.name = "ReadDWord" /\ hDevice = board =>
    LET a == call.addr \div 2
        m == eeprom[board].mem
    IN READ_Data = IF a < Words THEN m[a] * 2 ^ WordBits + m[(a + 1) % Words] ELSE 0

\* An EEPROM write stores both halves of the value, and no call changes any other
\* word.
WritesItsWords ==
  at = 0 /\ hDevice = board /\ call # NoCall =>
    LET a == call.addr \div 2
    IN eeprom[board].mem =
         IF call.name = "WriteDWord" /\ a < Words
         THEN [before[board] EXCEPT ![a] = High(call.value),
                                    ![(a + 1) % Words] = Low(call.value)]
         ELSE before[board]
=============================================================================
