---------------------------- MODULE MCVisorLoop ----------------------------
(***************************************************************************)
(* Small instances of VisorLoop for TLC.                                    *)
(***************************************************************************)
EXTENDS VisorLoop, TLC

MCStart == [hi |-> 0, lo |-> 1]
MCHandlers == {[hi |-> 0, lo |-> 0]}

Call(ah, dl) ==
  [ah |-> ah, al |-> 0, bx |-> 1, cx |-> 1, dh |-> 0, dl |-> dl, cf |-> TRUE]

\* AH=88h, and AH=08h on the hard disk and on the floppy.
MCRegFiles == {Call(136, 128), Call(8, 128), Call(8, 0)}

\* The same and INT 13h/48h, the extended drive parameters.
MCRegFilesEdd == MCRegFiles \cup {Call(72, 128)}

MCExceptions == {<<13, 0>>, <<13, 16>>, <<6, -1>>}
MCExceptionsDB == MCExceptions \cup {<<1, -1>>}
MCIntFaults == {<<4, 33>>}
NoFaults == {}
Shipped == {13}
AllExceptions == 0..31
None == {}
CR0AndNMI == {"cr0write", "nmi"}
Zeroed == {NoEvent}
=============================================================================
