------------------------------- MODULE GuestIO -------------------------------
(***************************************************************************)
(* Port I/O of the guest (guest.c, HandleGuestIO): the visor answers the    *)
(* two CMOS cells that hold the extended memory size and forwards every     *)
(* other access to the hardware, byte by byte.  One step is one IN or OUT   *)
(* of the guest with the whole handler; the hardware is a CMOS behind ports *)
(* 70h/71h and a register behind every other port.                          *)
(***************************************************************************)
EXTENDS Integers

CONSTANTS
  Ports,            \* ports of other devices the guest uses
  Indices,          \* CMOS cells the guest selects besides 17h and 18h
  Bytes,            \* byte values the guest writes
  W,                \* values of a word: 2^16 in the code, smaller for TLC
  Blocks,           \* high words of the guest's code addresses ({0}: real mode)
  Sizes,            \* operand sizes of its accesses to Ports, in bytes
  Paired            \* TRUE: the guest accesses a cell it selected, once

IndexPort == 112    \* 70h
DataPort == 113     \* 71h
ExtMemCells == {23, 24}
Cells == Indices \cup ExtMemCells

\* Slip: the low byte is not masked out of 0C00h.
ExtMemByteUnmasked(i) == IF i = 23 THEN 3072 ELSE 12

ExtMemByte(i) == IF i = 23 THEN 0 ELSE 12  \* (4 MB - 1 MB) / 1 KB = 0C00h
OpenBus == 255

Lanes == 0..3
Byte == 0..255

ASSUME IOAssumption ==
  /\ Ports \subseteq Nat \ {IndexPort, DataPort}
  /\ \A p \in Ports : p + 3 < IndexPort \/ p > DataPort
  /\ Indices \subseteq Byte \ ExtMemCells
  /\ 0 \in Indices
  /\ Bytes \subseteq Byte
  /\ W \in Nat /\ W > 1
  /\ Blocks \subseteq Nat
  /\ Sizes \subseteq {1, 2, 4}
  /\ Paired \in BOOLEAN

VARIABLES
  eax,              \* the guest's EAX in the VMCB, as four bytes
  rip,              \* the guest's RIP in the VMCB, as two words
  IOPortInValue, IOPortInValueSet,
  cmosIndex,        \* the index register of the real CMOS
  cmos,             \* the cells of the real CMOS
  device,           \* the registers behind the other ports
  selected,         \* auxiliary: the cell the guest selected last
  believed,         \* auxiliary: the cells, as the guest wrote them
  ready             \* auxiliary: the selected cell has not been accessed yet

visor == <<IOPortInValue, IOPortInValueSet>>
hardware == <<cmosIndex, cmos, device>>
guest == <<selected, believed, ready>>
vars == <<eax, rip, visor, hardware, guest>>
-----------------------------------------------------------------------------
(* The hardware: inb of one byte, and outb of byte b[k] to port + k.        *)

PortByte(p) ==
  CASE p = DataPort -> cmos[cmosIndex]
    [] p \in Ports -> device[p]
    [] OTHER -> OpenBus

Outb(port, size, b) ==
  /\ cmosIndex' = IF port = IndexPort THEN b[0] ELSE cmosIndex
  /\ cmos' = IF port = DataPort THEN [cmos EXCEPT ![cmosIndex] = b[0]] ELSE cmos
  /\ device' = [p \in Ports |-> IF p \in port..(port + size - 1)
                                THEN b[p - port] ELSE device[p]]
-----------------------------------------------------------------------------
(* HandleGuestIO, one operator per way through it.                          *)

\* Slip: the byte is computed but not marked as waiting.
LatchUnmarked(v) ==
  /\ v[0] \in ExtMemCells
  /\ IOPortInValue' = ExtMemByte(v[0])
  /\ eax' = v
  /\ UNCHANGED <<IOPortInValueSet, hardware>>

LatchExtMemByte(v) == \* OUT 70h of 17h or 18h: remembered, not forwarded
  /\ v[0] \in ExtMemCells
  /\ IOPortInValue' = ExtMemByte(v[0])
  /\ IOPortInValueSet' = TRUE
  /\ eax' = v
  /\ UNCHANGED hardware

\* Slip: the latched byte is not used up.
ReadLatchedAgain ==
  /\ IOPortInValueSet
  /\ eax' = [eax EXCEPT ![0] = IOPortInValue]
  /\ UNCHANGED <<visor, hardware>>

ReadLatched ==
  /\ IOPortInValueSet
  /\ eax' = [eax EXCEPT ![0] = IOPortInValue]
  /\ IOPortInValue' = 0
  /\ IOPortInValueSet' = FALSE
  /\ UNCHANGED hardware

IgnoreInFromIndex == UNCHANGED <<eax, visor, hardware>>

ForwardIn(port, size) ==
  /\ eax' = [k \in Lanes |-> IF k < size THEN PortByte(port + k) ELSE eax[k]]
  /\ UNCHANGED <<visor, hardware>>

\* (BYTE)(EAX & 0xFF00) >> 8 is 0: the cast comes before the shift.
ForwardOut(port, size, v) ==
  /\ Outb(port, size, [v EXCEPT ![1] = 0, ![2] = 0, ![3] = 0])
  /\ eax' = v
  /\ UNCHANGED visor

\* lblReturn: the low word of the next instruction's address, word-wide.
Return == rip' = [rip EXCEPT !.lo = (rip.lo + 1) % W]

HandleOut(port, size, v) ==
  /\ \/ port = IndexPort /\ LatchExtMemByte(v)
     \/ /\ ~(port = IndexPort /\ v[0] \in ExtMemCells)
        /\ ForwardOut(port, size, v)
  /\ Return

HandleIn(port, size) ==
  /\ \/ port = IndexPort /\ IgnoreInFromIndex
     \/ port = DataPort /\ ReadLatched
     \/ /\ port # IndexPort /\ ~(port = DataPort /\ IOPortInValueSet)
        /\ ForwardIn(port, size)
  /\ Return
-----------------------------------------------------------------------------
(* The guest: byte accesses to the CMOS, any access to other devices.       *)

Code == [hi : Blocks, lo : 0..(W - 1)]

Jump ==             \* instructions that are no port accesses
  rip' \in Code /\ UNCHANGED <<eax, visor, hardware, guest>>

Value(a, b) == [k \in Lanes |-> IF k = 0 THEN a ELSE b]

Select(i, b) ==     \* OUT 70h, AL
  /\ HandleOut(IndexPort, 1, Value(i, b))
  /\ selected' = i
  /\ ready' = TRUE
  /\ UNCHANGED believed

ReadCell ==         \* IN AL, 71h
  /\ Paired => ready
  /\ HandleIn(DataPort, 1)
  /\ ready' = FALSE
  /\ UNCHANGED <<selected, believed>>

WriteCell(a, b) ==  \* OUT 71h, AL
  /\ Paired => ready /\ selected \notin ExtMemCells
  /\ HandleOut(DataPort, 1, Value(a, b))
  /\ believed' = [believed EXCEPT ![selected] = a]
  /\ ready' = FALSE
  /\ UNCHANGED selected

ReadIndexPort == HandleIn(IndexPort, 1) /\ UNCHANGED guest

DeviceIn(port, size) == HandleIn(port, size) /\ UNCHANGED guest

DeviceOut(port, size, a, b) ==
  HandleOut(port, size, Value(a, b)) /\ UNCHANGED guest
-----------------------------------------------------------------------------
Init ==
  /\ eax = Value(85, 0)
  /\ rip \in Code
  /\ IOPortInValue = 0
  /\ IOPortInValueSet = FALSE
  /\ cmosIndex \in Indices
  /\ cmos \in [Cells -> Bytes]
  /\ device \in [Ports -> Bytes]
  /\ selected = cmosIndex
  /\ believed = cmos
  /\ ready = FALSE

Next ==
  \/ Jump
  \/ \E i \in Cells, b \in Bytes :
       (Paired => ~ready) /\ Select(i, b)
  \/ ReadCell
  \/ \E a, b \in Bytes : WriteCell(a, b)
  \/ ReadIndexPort
  \/ \E p \in Ports, s \in Sizes : DeviceIn(p, s)
  \/ \E p \in Ports, s \in Sizes, a, b \in Bytes : DeviceOut(p, s, a, b)

Spec == Init /\ [][Next]_vars
-----------------------------------------------------------------------------
TypeOK ==
  /\ eax \in [Lanes -> Byte]
  /\ rip \in Code
  /\ IOPortInValue \in Byte /\ IOPortInValueSet \in BOOLEAN
  /\ cmosIndex \in Cells
  /\ cmos \in [Cells -> Byte] /\ believed \in [Cells -> Byte]
  /\ device \in [Ports -> Byte]
  /\ selected \in Cells
  /\ ready \in BOOLEAN

\* The byte a read of port 71h owes the guest.
Owed == IF selected \in ExtMemCells THEN ExtMemByte(selected)
        ELSE believed[selected]

\* A guest that accesses each cell it selects once reads the extended memory
\* size the visor pretends, and in every other cell what it wrote there last:
\* neither the latch nor the real CMOS ever shows through (guest.c:581-625).
ReadsOwed == [][ReadCell => eax'[0] = Owed]_vars

\* The same holds of the state between two accesses: the latch is armed exactly
\* while a size cell is selected, the real index register follows the guest's
\* selections of other cells, and the real cells hold what the guest wrote.
LatchMatchesSelection ==
  Paired =>
    /\ IOPortInValueSet <=> ready /\ selected \in ExtMemCells
    /\ IOPortInValueSet => IOPortInValue = ExtMemByte(selected)
    /\ ready /\ selected \notin ExtMemCells => cmosIndex = selected
    /\ \A i \in Indices : cmos[i] = believed[i]

=============================================================================
