--------------------------- MODULE GuestIO_proofs ---------------------------
(***************************************************************************)
(* A guest that follows the CMOS protocol is never shown a stale byte, for   *)
(* every set of ports, cells and values.                                    *)
(***************************************************************************)
EXTENDS GuestIO, TLAPS

(* The values the guest loads into EAX are four bytes.                      *)
LEMMA ValueType ==
  ASSUME NEW a \in Byte, NEW b \in Byte
  PROVE  /\ Value(a, b) \in [Lanes -> Byte]
         /\ Value(a, b)[0] = a
BY DEF Value, Lanes

LEMMA CellsAreBytes == Cells \subseteq Byte /\ Bytes \subseteq Byte
                       /\ \A i \in ExtMemCells : ExtMemByte(i) \in Byte
BY IOAssumption DEF Cells, ExtMemCells, Byte, ExtMemByte

(* RIP moves on within its block.                                           *)
LEMMA ReturnType ==
  ASSUME TypeOK, Return
  PROVE  rip' \in Code
<1>1. (rip.lo + 1) % W \in 0..(W - 1)
  BY IOAssumption DEF TypeOK, Code
<1>2. QED
  BY <1>1 DEF TypeOK, Code, Return

(* What a byte OUT to the index port, to the data port and to a device does *)
(* to the hardware.                                                         *)
LEMMA IndexPorts == IndexPort \notin Ports /\ DataPort \notin Ports
                    /\ IndexPort # DataPort
BY IOAssumption DEF IndexPort, DataPort

LEMMA OutbDevices ==
  ASSUME TypeOK, NEW port \in Nat, NEW size \in {1, 2, 4},
         NEW b \in [Lanes -> Byte], Outb(port, size, b)
  PROVE  device' \in [Ports -> Byte]
<1>1. ASSUME NEW p \in Ports, p \in port..(port + size - 1)
      PROVE  b[p - port] \in Byte
  <2>1. p - port \in Lanes
    BY <1>1, IOAssumption DEF Lanes
  <2>2. QED
    BY <2>1
<1>2. QED
  BY <1>1 DEF Outb, TypeOK

(* Forwarding blanks the upper bytes, and keeps the lowest.                 *)
LEMMA Blanked ==
  ASSUME NEW v \in [Lanes -> Byte]
  PROVE  /\ [v EXCEPT ![1] = 0, ![2] = 0, ![3] = 0] \in [Lanes -> Byte]
         /\ [v EXCEPT ![1] = 0, ![2] = 0, ![3] = 0][0] = v[0]
BY DEF Lanes, Byte

(* Each access of the guest, without the handler's case distinctions.       *)
LEMMA SelectEffect ==
  ASSUME TypeOK, NEW i \in Cells, NEW b \in Bytes, Select(i, b)
  PROVE  /\ eax' \in [Lanes -> Byte] /\ rip' \in Code
         /\ selected' = i /\ ready' = TRUE /\ believed' = believed
         /\ cmos' = cmos /\ device' \in [Ports -> Byte]
         /\ i \in ExtMemCells => /\ IOPortInValue' = ExtMemByte(i)
                                 /\ IOPortInValueSet' = TRUE
                                 /\ cmosIndex' = cmosIndex
         /\ i \notin ExtMemCells => /\ IOPortInValue' = IOPortInValue
                                    /\ IOPortInValueSet' = IOPortInValueSet
                                    /\ cmosIndex' = i
<1>1. Value(i, b) \in [Lanes -> Byte] /\ Value(i, b)[0] = i
  BY ValueType, CellsAreBytes
<1>5. rip' \in Code
  BY ReturnType DEF Select, HandleOut
<1>2. CASE i \in ExtMemCells
  BY <1>1, <1>2, <1>5
     DEF Select, HandleOut, LatchExtMemByte, hardware, TypeOK
<1>3. CASE i \notin ExtMemCells
  <2> DEFINE b0 == [Value(i, b) EXCEPT ![1] = 0, ![2] = 0, ![3] = 0]
  <2>1. Outb(IndexPort, 1, b0) /\ UNCHANGED visor /\ eax' = Value(i, b)
    BY <1>1, <1>3
       DEF Select, HandleOut, LatchExtMemByte, ForwardOut
  <2>2. b0[0] = i /\ b0 \in [Lanes -> Byte]
    BY <1>1, Blanked
  <2>3. device' \in [Ports -> Byte]
    BY <2>1, <2>2, OutbDevices DEF IndexPort
  <2> HIDE DEF b0
  <2>4. QED
    BY <1>1, <1>3, <1>5, <2>1, <2>2, <2>3, IndexPorts DEF Select, Outb, visor
<1>4. QED
  BY <1>2, <1>3

LEMMA ReadCellEffect ==
  ASSUME TypeOK, ReadCell
  PROVE  /\ Paired => ready
         /\ ready' = FALSE /\ UNCHANGED <<selected, believed, hardware>>
         /\ eax' \in [Lanes -> Byte] /\ rip' \in Code
         /\ IOPortInValueSet => /\ eax'[0] = IOPortInValue
                                /\ IOPortInValue' = 0
                                /\ IOPortInValueSet' = FALSE
         /\ ~IOPortInValueSet => /\ eax'[0] = cmos[cmosIndex]
                                 /\ UNCHANGED visor
<1>4. rip' \in Code
  BY ReturnType DEF ReadCell, HandleIn
<1>1. CASE IOPortInValueSet
  BY <1>1, <1>4, IndexPorts
     DEF ReadCell, HandleIn, ReadLatched, TypeOK, Lanes
<1>2. CASE ~IOPortInValueSet
  <2>1. ForwardIn(DataPort, 1)
    BY <1>2, IndexPorts DEF ReadCell, HandleIn, ReadLatched
  <2>2. PortByte(DataPort + 0) = cmos[cmosIndex]
    <3>1. DataPort + 0 = DataPort
      BY DEF DataPort
    <3>2. PortByte(DataPort) = cmos[cmosIndex]
      BY IndexPorts DEF PortByte
    <3>3. QED
      BY <3>1, <3>2
  <2>3. eax' = [k \in Lanes |-> IF k < 1 THEN PortByte(DataPort + k) ELSE eax[k]]
    BY <2>1 DEF ForwardIn
  <2>4. eax'[0] = cmos[cmosIndex]
    BY <2>2, <2>3 DEF Lanes
  <2>5. \A k \in Lanes : k < 1 => k = 0
    BY DEF Lanes
  <2>6. eax' \in [Lanes -> Byte]
    BY <2>2, <2>3, <2>5 DEF TypeOK
  <2>7. QED
    BY <1>2, <1>4, <2>1, <2>4, <2>6 DEF ReadCell, ForwardIn
<1>3. QED
  BY <1>1, <1>2

LEMMA WriteCellEffect ==
  ASSUME TypeOK, NEW a \in Bytes, NEW b \in Bytes, WriteCell(a, b)
  PROVE  /\ Paired => ready /\ selected \notin ExtMemCells
         /\ ready' = FALSE /\ selected' = selected
         /\ believed' = [believed EXCEPT ![selected] = a]
         /\ cmos' = [cmos EXCEPT ![cmosIndex] = a]
         /\ UNCHANGED <<visor, cmosIndex>>
         /\ eax' \in [Lanes -> Byte] /\ device' \in [Ports -> Byte]
         /\ rip' \in Code
<1> DEFINE b0 == [Value(a, b) EXCEPT ![1] = 0, ![2] = 0, ![3] = 0]
<1>1. Value(a, b) \in [Lanes -> Byte] /\ Value(a, b)[0] = a
  BY ValueType, CellsAreBytes
<1>2. Outb(DataPort, 1, b0) /\ UNCHANGED visor /\ eax' = Value(a, b)
  BY IndexPorts DEF WriteCell, HandleOut, ForwardOut
<1>3. b0[0] = a /\ b0 \in [Lanes -> Byte]
  BY <1>1, Blanked
<1>4. device' \in [Ports -> Byte]
  BY <1>2, <1>3, OutbDevices DEF DataPort
<1>6. rip' \in Code
  BY ReturnType DEF WriteCell, HandleOut
<1> HIDE DEF b0
<1>5. QED
  BY <1>1, <1>2, <1>3, <1>4, <1>6, IndexPorts DEF WriteCell, Outb

(* Devices and reads of port 70h leave the CMOS and the latch alone.        *)
LEMMA OtherEffect ==
  ASSUME TypeOK,
         \/ Jump
         \/ ReadIndexPort
         \/ \E p \in Ports, s \in Sizes : DeviceIn(p, s)
         \/ \E p \in Ports, s \in Sizes, a, b \in Bytes : DeviceOut(p, s, a, b)
  PROVE  /\ eax' \in [Lanes -> Byte] /\ device' \in [Ports -> Byte]
         /\ rip' \in Code
         /\ UNCHANGED <<visor, cmosIndex, cmos, guest>>
<1>5. CASE Jump
  BY <1>5 DEF Jump, hardware, TypeOK
<1>1. CASE ReadIndexPort
  BY <1>1, IndexPorts, ReturnType
     DEF ReadIndexPort, HandleIn, IgnoreInFromIndex, ReadLatched, hardware,
         TypeOK
<1>2. ASSUME NEW p \in Ports, NEW s \in Sizes, DeviceIn(p, s)
      PROVE  /\ eax' \in [Lanes -> Byte] /\ device' \in [Ports -> Byte]
             /\ rip' \in Code
             /\ UNCHANGED <<visor, cmosIndex, cmos, guest>>
  <2>1. ForwardIn(p, s) /\ UNCHANGED guest /\ rip' \in Code
    BY <1>2, IndexPorts, ReturnType DEF DeviceIn, HandleIn
  <2>2. \A q : PortByte(q) \in Byte
    BY DEF PortByte, TypeOK, OpenBus, Byte
  <2>3. eax' \in [Lanes -> Byte]
    BY <2>1, <2>2 DEF ForwardIn, TypeOK
  <2>4. QED
    BY <2>1, <2>3 DEF ForwardIn, hardware, TypeOK
<1>3. ASSUME NEW p \in Ports, NEW s \in Sizes, NEW a \in Bytes, NEW b \in Bytes,
             DeviceOut(p, s, a, b)
      PROVE  /\ eax' \in [Lanes -> Byte] /\ device' \in [Ports -> Byte]
             /\ rip' \in Code
             /\ UNCHANGED <<visor, cmosIndex, cmos, guest>>
  <2> DEFINE b0 == [Value(a, b) EXCEPT ![1] = 0, ![2] = 0, ![3] = 0]
  <2>1. Value(a, b) \in [Lanes -> Byte]
    BY ValueType, CellsAreBytes
  <2>2. Outb(p, s, b0) /\ UNCHANGED <<visor, guest>> /\ eax' = Value(a, b)
        /\ rip' \in Code
    BY <1>3, IndexPorts, ReturnType DEF DeviceOut, HandleOut, ForwardOut
  <2>3. b0 \in [Lanes -> Byte]
    BY <2>1, Blanked
  <2>4. p \in Nat /\ s \in {1, 2, 4}
    BY IOAssumption
  <2>5. device' \in [Ports -> Byte]
    BY <2>2, <2>3, <2>4, OutbDevices
  <2> HIDE DEF b0
  <2>6. QED
    BY <2>1, <2>2, <2>5, IndexPorts DEF Outb
<1>4. QED
  BY <1>1, <1>2, <1>3, <1>5
-----------------------------------------------------------------------------
(* The state of the latch, the CMOS and the devices is well typed.          *)
THEOREM IOTypeCorrect == Spec => []TypeOK
<1>1. Init => TypeOK
  <2> SUFFICES ASSUME Init PROVE TypeOK
    OBVIOUS
  <2>1. eax \in [Lanes -> Byte]
    <3>1. 85 \in Byte /\ 0 \in Byte
      BY DEF Byte
    <3>2. QED
      BY <3>1, ValueType DEF Init
  <2>2. cmos \in [Cells -> Byte] /\ device \in [Ports -> Byte]
    BY CellsAreBytes DEF Init
  <2>3. 0 \in Byte /\ cmosIndex \in Cells
    BY DEF Init, Byte, Cells
  <2>4. QED
    BY <2>1, <2>2, <2>3 DEF Init, TypeOK
<1>2. TypeOK /\ [Next]_vars => TypeOK'
  <2> SUFFICES ASSUME TypeOK, [Next]_vars PROVE TypeOK'
    OBVIOUS
  <2>1. ASSUME NEW i \in Cells, NEW b \in Bytes, Select(i, b) PROVE TypeOK'
    BY <2>1, SelectEffect, CellsAreBytes DEF TypeOK
  <2>2. CASE ReadCell
    <3>1. 0 \in Byte
      BY DEF Byte
    <3>2. QED
      BY <2>2, <3>1, ReadCellEffect DEF TypeOK, visor, hardware
  <2>3. ASSUME NEW a \in Bytes, NEW b \in Bytes, WriteCell(a, b) PROVE TypeOK'
    BY <2>3, WriteCellEffect, CellsAreBytes DEF TypeOK, visor
  <2>4. CASE \/ Jump
             \/ ReadIndexPort
             \/ \E p \in Ports, s \in Sizes : DeviceIn(p, s)
             \/ \E p \in Ports, s \in Sizes, a, b \in Bytes :
                  DeviceOut(p, s, a, b)
    BY <2>4, OtherEffect DEF TypeOK, visor, guest
  <2>5. CASE UNCHANGED vars
    BY <2>5 DEF vars, visor, hardware, guest, TypeOK
  <2>6. QED
    BY <2>1, <2>2, <2>3, <2>4, <2>5 DEF Next
<1>3. QED
  BY <1>1, <1>2, PTL DEF Spec

(* For a guest that follows the protocol, the latch is armed exactly while  *)
(* a size cell waits, and the real CMOS is what the guest believes it is.   *)
THEOREM LatchInvariant == Spec => []LatchMatchesSelection
<1>1. Init => LatchMatchesSelection
  BY DEF Init, LatchMatchesSelection
<1>2. TypeOK /\ LatchMatchesSelection /\ [Next]_vars => LatchMatchesSelection'
  <2> SUFFICES ASSUME TypeOK, LatchMatchesSelection, [Next]_vars, Paired
               PROVE  LatchMatchesSelection'
    BY DEF LatchMatchesSelection
  <2> USE DEF LatchMatchesSelection
  <2>1. ASSUME NEW i \in Cells, NEW b \in Bytes, ~ready, Select(i, b)
        PROVE  LatchMatchesSelection'
    BY <2>1, SelectEffect DEF TypeOK
  <2>2. CASE ReadCell
    BY <2>2, ReadCellEffect DEF TypeOK, visor, hardware
  <2>3. ASSUME NEW a \in Bytes, NEW b \in Bytes, WriteCell(a, b)
        PROVE  LatchMatchesSelection'
    <3>1. cmosIndex = selected
      BY <2>3, WriteCellEffect
    <3>2. \A i \in Indices : cmos'[i] = believed'[i]
      BY <2>3, <3>1, WriteCellEffect DEF TypeOK, Cells
    <3>3. QED
      BY <2>3, <3>2, WriteCellEffect DEF visor
  <2>4. CASE \/ Jump
             \/ ReadIndexPort
             \/ \E p \in Ports, s \in Sizes : DeviceIn(p, s)
             \/ \E p \in Ports, s \in Sizes, a, b \in Bytes :
                  DeviceOut(p, s, a, b)
    BY <2>4, OtherEffect DEF visor, guest
  <2>5. CASE UNCHANGED vars
    BY <2>5 DEF vars, visor, hardware, guest
  <2>6. QED
    BY <2>1, <2>2, <2>3, <2>4, <2>5 DEF Next
<1>3. QED
  BY <1>1, <1>2, IOTypeCorrect, PTL DEF Spec

(* Every read of port 71h returns what the selected cell owes the guest.    *)
THEOREM ReadsOwedHold ==
  ASSUME Paired
  PROVE  Spec => ReadsOwed
<1>1. TypeOK /\ LatchMatchesSelection /\ [Next]_vars
        => [ReadCell => eax'[0] = Owed]_vars
  <2> SUFFICES ASSUME TypeOK, LatchMatchesSelection, ReadCell
               PROVE  eax'[0] = Owed
    OBVIOUS
  <2>1. ready
    BY ReadCellEffect
  <2>2. CASE selected \in ExtMemCells
    BY <2>1, <2>2, ReadCellEffect DEF LatchMatchesSelection, Owed
  <2>3. CASE selected \notin ExtMemCells
    <3>1. eax'[0] = cmos[selected] /\ selected \in Indices
      BY <2>1, <2>3, ReadCellEffect DEF LatchMatchesSelection, TypeOK, Cells
    <3>2. QED
      BY <2>3, <3>1 DEF LatchMatchesSelection, Owed
  <2>4. QED
    BY <2>2, <2>3
<1>2. QED
  BY <1>1, IOTypeCorrect, LatchInvariant, PTL DEF Spec, ReadsOwed
=============================================================================
