------------------------------- MODULE Screen -------------------------------
(***************************************************************************)
(* What the visor shows (screen.c): one cursor shared by the line about the *)
(* latest exit, the last words of InfiniteLoop and the report of an         *)
(* exception in the visor itself, which may break into any of them.  The    *)
(* screen is a function on the cells written since they held a blank; a     *)
(* cell is two bytes, 80 cells a row.  Strings of the visor hold printable  *)
(* characters only.                                                         *)
(***************************************************************************)
EXTENDS Integers, Sequences, FiniteSets

CONSTANTS
  Modes,            \* settings of PE and PG the guest is seen in
  Codes,            \* exit codes of exits that the visor resumes from
  Infos,            \* pairs of EXITINFO1 and EXITINFO2
  CR0, CR3,         \* the guest's, when the visor gives up
  Traps,            \* frames that exceptions in the visor leave on the stack
  MaxExits,         \* bound on exits
  MaxDword          \* the largest number there is, of at most 32 bits

HLT == 120          \* VMEXIT_HLT and so on
NMI == 97
SHUTDOWN == 127
INVALID == 65535

Word == 65536       \* values of 16 bits
NoCode == -1        \* of an exception without an error code

ASSUME DwordAssumption ==
  MaxDword \in Nat /\ Word <= MaxDword /\ MaxDword \div 268435456 < 16

ASSUME ScreenAssumption ==
  /\ Modes \subseteq [pe : BOOLEAN, pg : BOOLEAN]
  /\ Codes \subseteq 0..(Word - 1) \ {HLT, NMI, SHUTDOWN, INVALID}
  /\ Infos \subseteq (0..MaxDword) \X (0..MaxDword)
  /\ CR0 \in 0..MaxDword /\ CR3 \in 0..MaxDword
  /\ Traps \subseteq [cs : 1..(Word - 1), ip : 0..MaxDword,
                     err : (0..(Word - 1)) \cup {NoCode}]
  /\ MaxExits \in 0..MaxDword

Columns == 80
Rows == 25
OnScreen == 0..(Rows * Columns - 1)
Blank == [of |-> " ", k |-> 0]

VARIABLES
  cursor_x, cursor_y, cursorLocation,
  video,            \* the cells written
  gInterceptCount,
  exit,             \* the latest exit
  trap,             \* the frame of the exception in the visor
  pc                \* the string being written, "guest" or "stop"

cursor == <<cursor_x, cursor_y, cursorLocation>>
vars == <<cursor, video, gInterceptCount, exit, trap, pc>>
-----------------------------------------------------------------------------
(* Strings.                                                                 *)

\* Character k of a literal, by its name; the literals by their lengths.
Literals ==
  [Entering |-> 37, P |-> 1, R |-> 1, G |-> 6, n |-> 6, Exit |-> 8, Info1 |-> 9,
   Info2 |-> 9, Shutdown |-> 47, Halted |-> 27, Nmi |-> 47, Unknown |-> 19,
   Toilet |-> 57, CR0value |-> 11, CR3value |-> 13, Exception |-> 50, Colon |-> 1]

Literal(t) == [k \in 1..Literals[t] |-> [of |-> t, k |-> k]]

Digit(d) == [of |-> "digit", k |-> d]

Chars == [of : DOMAIN Literals \cup {"digit", " ", "Visor loaded"}, k : Nat]

\* dig[v % radix], v /= radix, while (v): the least significant digit first.
Digits[v \in 0..MaxDword] ==
  <<Digit(v % 16)>> \o (IF v \div 16 = 0 THEN <<>> ELSE Digits[v \div 16])

Itoa(v) == LET d == Digits[v] IN [k \in 1..Len(d) |-> d[Len(d) + 1 - k]]
-----------------------------------------------------------------------------
(* The cursor.                                                              *)

\* Slip: x counts bytes.
LocationOfByte(x, y) == (y * 160 + x) % Word

Location(x, y) == (y * 160 + x * 2) % Word

\* Where the cursor is n characters on.
\* Slip: the next row from column 80 on, and x is not reset.
AdvancedStuck(x, y, n) == <<x + n, y + Cardinality({k \in 1..n : x + k >= 80})>>

Advanced(x, y, n) == <<(x + n) % 160, y + (x + n) \div 160>>

Over(cells, below) ==
  [c \in DOMAIN cells \cup DOMAIN below |-> IF c \in DOMAIN cells THEN cells[c] ELSE below[c]]

\* Characters i to j of a text, one after the other.
Run(x, y, text, i, j) ==
  LET first == Location(x, y) \div 2
  IN  [c \in first..(first + j - i) |-> text[c - first + i]]

\* monitor_put for each of the first n characters of a text: what is left at
\* column 160 goes on at the next row.
PutAll(x, y, text, n) ==
  LET fit == IF x + n <= 160 THEN n ELSE 160 - x
      to == Advanced(x, y, n)
  IN  [x |-> to[1], y |-> to[2],
       cells |-> Over(Run(0, y + 1, text, fit + 1, n), Run(x, y, text, 1, fit))]

\* From row 25 on: the upper half of the screen moves by half a row, and what
\* was to be the last row is the half after it.
Scrolled(cells) ==
  [c \in DOMAIN cells \cup (0..(12 * Columns - 1)) |->
     IF c < 12 * Columns
     THEN IF c + 40 \in DOMAIN cells THEN cells[c + 40] ELSE Blank
     ELSE IF c < 12 * Columns + 40 THEN Blank ELSE cells[c]]

\* monitor_write_at and monitor_write; "at" is where, or the cursor.
MonitorWrite(at, text) ==
  LET s == PutAll(at[1], at[2], text, Len(text))
      all == Over(s.cells, video)
  IN  /\ video' = IF s.y >= Rows THEN Scrolled(all) ELSE all
      /\ cursor_x' = s.x
      /\ cursor_y' = IF s.y >= Rows THEN 24 ELSE s.y
      /\ cursorLocation' = (cursor_y' * 160 + cursor_x') % Word

\* An exception after n characters.
MonitorWriteCut(at, text, n) ==
  LET s == PutAll(at[1], at[2], text, n)
  IN  /\ video' = Over(s.cells, video)
      /\ cursor_x' = s.x /\ cursor_y' = s.y
      /\ UNCHANGED cursorLocation
-----------------------------------------------------------------------------
(* What is written, where and what comes next.                              *)

Here == <<cursor_x, cursor_y>>
Call(at, text, next) == [at |-> at, text |-> text, next |-> next]

Dispatch(e) ==
  CASE e.code = SHUTDOWN -> "shutdown"
    [] e.code = HLT /\ ~e.intf -> "hlt"
    [] e.code = NMI -> "nmi"
    [] e.code = INVALID -> "unknown"
    [] OTHER -> "guest"

ModeAt == IF exit.mode.pe THEN <<1, 0>> ELSE <<20, 0>>
ModeText == Literal(IF exit.mode.pe THEN "P" ELSE "R")
PagingText == Literal(IF exit.mode.pg THEN "G" ELSE "n")

\* Slip: both lines of InfiniteLoop at row 15.
CRValueAtToilet == <<0, 15>>

CRValueAt == <<0, 17>>

\* Slip: the report goes on where the cursor is.
ReportHere == Here

ReportAt == <<0, 16>>

\* _isr_common reads [bp+8] and [bp+4] before it looks whether the exception
\* pushed an error code, below EIP and CS; it keeps 16 bits of each.
At4(f) == IF f.err = NoCode THEN f.ip ELSE f.err
At8(f) == IF f.err = NoCode THEN f.cs ELSE f.ip

ExcCS(f) == At8(f) % Word
ExcIP(f) == At4(f) % Word

Status == {"mode", "paging", "count", "exit", "code", "info1", "value1", "info2", "value2"}
LastWords == {"shutdown", "hlt", "nmi", "unknown", "unknown code", "toilet", "toilet code",
              "cr0", "cr0 value", "cr3", "cr3 value"}
Report == {"exception", "exc cs", "exc colon", "exc ip"}
Writing == {"entering"} \cup Status \cup LastWords \cup Report

Write(l) ==
  CASE l = "entering" -> Call(<<0, 1>>, Literal("Entering"), "guest")
    \* the line of VisorLoop about an exit
    [] l = "mode" -> Call(ModeAt, ModeText, "paging")
    [] l = "paging" -> Call(Here, PagingText, "count")
    [] l = "count" -> Call(Here, Itoa(gInterceptCount + 1), "exit")
    [] l = "exit" -> Call(Here, Literal("Exit"), "code")
    [] l = "code" -> Call(Here, Itoa(exit.code), "info1")
    [] l = "info1" -> Call(Here, Literal("Info1"), "value1")
    [] l = "value1" -> Call(Here, Itoa(exit.info[1]), "info2")
    [] l = "info2" -> Call(Here, Literal("Info2"), "value2")
    [] l = "value2" -> Call(Here, Itoa(exit.info[2]), Dispatch(exit))
    \* an exit nobody handles, and InfiniteLoop
    [] l = "shutdown" -> Call(Here, Literal("Shutdown"), "toilet")
    [] l = "hlt" -> Call(<<0, 1>>, Literal("Halted"), "toilet")
    [] l = "nmi" -> Call(<<0, 1>>, Literal("Nmi"), "toilet")
    [] l = "unknown" -> Call(<<0, 2>>, Literal("Unknown"), "unknown code")
    [] l = "unknown code" -> Call(Here, Itoa(exit.code), "toilet")
    [] l = "toilet" -> Call(<<0, 15>>, Literal("Toilet"), "toilet code")
    [] l = "toilet code" -> Call(Here, Itoa(exit.code), "cr0")
    [] l = "cr0" -> Call(CRValueAt, Literal("CR0value"), "cr0 value")
    [] l = "cr0 value" -> Call(Here, Itoa(CR0), "cr3")
    [] l = "cr3" -> Call(Here, Literal("CR3value"), "cr3 value")
    [] l = "cr3 value" -> Call(Here, Itoa(CR3), "stop")
    \* host_isr_handler, which ends in a loop of its own
    [] l = "exception" -> Call(ReportAt, Literal("Exception"), "exc cs")
    [] l = "exc cs" -> Call(Here, Itoa(ExcCS(trap)), "exc colon")
    [] l = "exc colon" -> Call(Here, Literal("Colon"), "exc ip")
    [] l = "exc ip" -> Call(Here, Itoa(ExcIP(trap)), "stop")
-----------------------------------------------------------------------------
NoTrap == [cs |-> 0, ip |-> 0, err |-> NoCode]
NoExit == [mode |-> [pe |-> FALSE, pg |-> FALSE], code |-> 0, info |-> <<0, 0>>,
           intf |-> FALSE]

Init ==
  /\ cursor_x = 0 /\ cursor_y = 0 /\ cursorLocation = 0
  /\ video = [c \in 80..94 |-> [of |-> "Visor loaded", k |-> c]]     \* by Print
  /\ gInterceptCount = 0 /\ exit = NoExit
  /\ trap = NoTrap /\ pc = "clear"

MonitorClear ==
  /\ pc = "clear" /\ pc' = "entering"
  /\ video' = [c \in DOMAIN video \ OnScreen |-> video[c]]
  /\ cursor_x' = 0 /\ cursor_y' = 0 /\ cursorLocation' = 0
  /\ UNCHANGED <<gInterceptCount, exit, trap>>

Counted == gInterceptCount' = IF pc = "count" THEN gInterceptCount + 1 ELSE gInterceptCount

VisorWrites ==
  /\ pc \in Writing
  /\ LET c == Write(pc)
     IN  MonitorWrite(c.at, c.text) /\ pc' = c.next
  /\ Counted
  /\ UNCHANGED <<exit, trap>>

GuestExits ==
  /\ pc = "guest" /\ gInterceptCount < MaxExits
  /\ exit' \in [mode : Modes, code : Codes \cup {HLT, NMI, SHUTDOWN, INVALID},
               info : Infos, intf : BOOLEAN]
  /\ pc' = "mode"
  /\ UNCHANGED <<cursor, video, gInterceptCount, trap>>

\* An exception, or an interrupt the visor has no handler of its own for; the
\* handler runs with interrupts off.  Vectors 8 and 9 lead to the handlers of the
\* timer and the keyboard, which return: a double fault is not reported.
HostException ==
  /\ pc \in Writing /\ trap = NoTrap
  /\ LET c == Write(pc)
     IN  \E n \in 0..(Len(c.text) - 1) : MonitorWriteCut(c.at, c.text, n)
  /\ trap' \in Traps
  /\ pc' = "exception"
  /\ Counted
  /\ UNCHANGED exit

Next == MonitorClear \/ VisorWrites \/ GuestExits \/ HostException

Spec == Init /\ [][Next]_vars
-----------------------------------------------------------------------------
\* The cursor stays on the screen, so the visor never scrolls, and no cell behind
\* the screen is written.
TypeOK ==
  /\ cursor_x \in 0..159 /\ cursor_y \in 0..(Rows - 1)
  /\ cursorLocation \in 0..(Word - 1)
  /\ DOMAIN video \subseteq OnScreen
  /\ \A c \in DOMAIN video : video[c] \in Chars
  /\ gInterceptCount \in 0..MaxExits
  /\ trap \in Traps \cup {NoTrap}
  /\ pc \in Writing \cup {"clear", "guest", "stop"}

Shown(c) == IF c \in DOMAIN video THEN video[c] ELSE Blank

Place == <<1, 16, 256, 4096, 65536, 1048576, 16777216, 268435456>>

Width(v) == CHOOSE n \in 1..8 : v \div Place[n] < 16 /\ (n = 1 \/ v >= Place[n])

\* A literal, or a number in hexadecimal, can be read from a cell on.
Reads(c, t) == \A k \in 1..Literals[t] : Shown(c + k - 1) = [of |-> t, k |-> k]

ReadsNumber(c, v) ==
  \A k \in 1..Width(v) :
    Shown(c + k - 1) = Digit((v \div Place[Width(v) + 1 - k]) % 16)

\* When the guest goes on, the line about its latest exit can be read, whichever
\* lines were there before; only its end may be followed by theirs.
StatusShown ==
  pc = "guest" /\ gInterceptCount > 0 =>
    LET c0 == IF exit.mode.pe THEN 1 ELSE 20
        c1 == c0 + 1
        c2 == c1 + 6
        c3 == c2 + Width(gInterceptCount)
        c4 == c3 + 8
        c5 == c4 + Width(exit.code)
        c6 == c5 + 9
        c7 == c6 + Width(exit.info[1])
    IN  /\ Reads(c0, IF exit.mode.pe THEN "P" ELSE "R")
        /\ Reads(c1, IF exit.mode.pg THEN "G" ELSE "n")
        /\ ReadsNumber(c2, gInterceptCount)
        /\ Reads(c3, "Exit") /\ ReadsNumber(c4, exit.code)
        /\ Reads(c5, "Info1") /\ ReadsNumber(c6, exit.info[1])
        /\ Reads(c7, "Info2") /\ ReadsNumber(c7 + 9, exit.info[2])

\* When the visor gives up, its reason, the exit code and the guest's control
\* registers can all be read.
Row(y) == y * Columns

LastWordsShown ==
  pc = "stop" /\ trap = NoTrap =>
    /\ exit.code = HLT => Reads(Row(1), "Halted")
    /\ exit.code = NMI => Reads(Row(1), "Nmi")
    /\ exit.code = SHUTDOWN => \E c \in 0..(2 * Columns) : Reads(c, "Shutdown")
    /\ exit.code = INVALID =>
         Reads(Row(2), "Unknown") /\ ReadsNumber(Row(2) + 19, exit.code)
    /\ Reads(Row(15), "Toilet") /\ ReadsNumber(Row(15) + 57, exit.code)
    /\ Reads(Row(17), "CR0value") /\ ReadsNumber(Row(17) + 11, CR0)
    /\ LET c == Row(17) + 11 + Width(CR0)
       IN  Reads(c, "CR3value") /\ ReadsNumber(c + 13, CR3)

\* The report of an exception in the visor can be read in full, whatever it broke
\* into.  Of an exception without an error code it tells CS and the low word of
\* EIP; of one with an error code, the low word of EIP and the error code, in the
\* places of _exc_CS and _exc_IP.
ReportShown ==
  pc = "stop" /\ trap # NoTrap =>
    LET first == IF trap.err = NoCode THEN trap.cs ELSE trap.ip % Word
        second == IF trap.err = NoCode THEN trap.ip % Word ELSE trap.err
        c == Row(16) + 50 + Width(first)
    IN  /\ Reads(Row(16), "Exception") /\ ReadsNumber(Row(16) + 50, first)
        /\ Reads(c, "Colon") /\ ReadsNumber(c + 1, second)
=============================================================================
