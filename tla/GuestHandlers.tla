---------------------------- MODULE GuestHandlers ----------------------------
(***************************************************************************)
(* The control register exits of the guest (guest.c, HandleCR0Write to      *)
(* HandleCR3Read), with the register file they decode a ModRM byte for, in  *)
(* one guest with the interrupts of GuestStack: both work on its RIP, RSP   *)
(* and CS.  The general registers but EAX and ESP are in GuestRegisters,    *)
(* which the world switch of VisorLoop saves and loads slot by slot.        *)
(***************************************************************************)
EXTENDS GuestStack

CONSTANTS
  Operands,         \* ModRM numbers of the registers the guest names
  Dwords            \* values it loads them with

EAX == 0
ECX == 1
EDX == 2
EBX == 3
ESP == 4
EBP == 5
ESI == 6
EDI == 7
Slots == 0..5
Dword == [hi : Word, lo : Word]
Zero == [hi |-> 0, lo |-> 0]
InitialCR0 == [hi |-> 0, lo |-> 16]             \* GUEST_INITIAL_CR0
GuestCR3 == [hi |-> 54, lo |-> 24576]           \* GUEST_CR3_VALUE, 366000h

ASSUME GuestHandlersAssumption ==
  Operands \subseteq 0..7 \ {ESP} /\ Dwords \subseteq Dword

VARIABLES
  rax, GuestRegisters,
  GuestRequestedCR3, GuestPModeFlag, GuestPagingFlag,
  cr3,              \* of the guest, in the VMCB
  held,             \* auxiliary: what the guest left in each register
  wrote             \* auxiliary: what its CR3 is to be: what it last wrote

file == <<rax, GuestRegisters, held>>
shadows == <<GuestRequestedCR3, GuestPModeFlag, GuestPagingFlag, cr3, wrote>>
vars == <<stackvars, file, shadows>>
-----------------------------------------------------------------------------
(* The register file.                                                       *)

\* The slot the world switch keeps a register in.
Saved(r) == CASE r = EBX -> 0 [] r = ECX -> 1 [] r = EDX -> 2
              [] r = ESI -> 3 [] r = EDI -> 4 [] r = EBP -> 5

\* The slot the ModRM decoding reads and writes for it.
SlotByNumber(r) == IF r < ESP THEN r - 1 ELSE r - 2     \* slip: ModRM order
Slot(r) == CASE r = EBX -> 0 [] r = ECX -> 1 [] r = EDX -> 2
             [] r = ESI -> 3 [] r = EDI -> 4 [] r = EBP -> 5

GetGuestMODRegGenRegValue(r) ==
  CASE r = EAX -> rax
    [] r = ESP -> [hi |-> 0, lo |-> rsp]
    [] OTHER -> GuestRegisters[Slot(r)]

\* A word store into the VMCB keeps the upper half of EAX; a word assigned to
\* an element of GuestRegisters clears it.
Low(d) == [hi |-> 0, lo |-> d.lo]

\* The byte that names the register is fetched with the base of CS as a word:
\* beyond 64K it is some other byte.
Decoded(r) == IF cs.base < W THEN {r} ELSE 0..7

IncrementGuestIP(ip) == (ip + 3) % W

SetGuestMODRegGenRegValue(r, d, whole) ==
  /\ rip' = IncrementGuestIP(IF r = ESP THEN d.lo ELSE rip)
  /\ rax' = IF r # EAX THEN rax ELSE IF whole THEN d ELSE [rax EXCEPT !.lo = d.lo]
  /\ GuestRegisters' = IF r \in {EAX, ESP} THEN GuestRegisters
                       ELSE [GuestRegisters EXCEPT ![Slot(r)] = IF whole THEN d ELSE Low(d)]
-----------------------------------------------------------------------------
(* The exits.                                                               *)

\* The dispatcher has moved RIP on; HandleCR0Write returns before its body.
HandleCR0WriteWhole(n) ==     \* slip: the body runs to its end
  /\ Near /\ n \in {2, 3}
  /\ rip' = (rip + n) % W
  /\ GuestPModeFlag' = (rax.lo % 2 = 1)
  /\ GuestPagingFlag' = (IF rax.lo % 2 = 1 THEN TRUE ELSE GuestPagingFlag)
  /\ cr3' = IF rax.lo % 2 = 1 THEN GuestRequestedCR3 ELSE cr3
  /\ UNCHANGED <<cs, rsp, flags, mem, frames, file, GuestRequestedCR3, wrote>>

HandleCR0Write(n) ==
  /\ Near /\ n \in {2, 3}
  /\ rip' = (rip + n) % W
  /\ UNCHANGED <<cs, rsp, flags, mem, frames, file, shadows>>

HandleCR3Write(r) ==
  /\ Near
  /\ GuestRequestedCR3' = GetGuestMODRegGenRegValue(r)
  /\ cr3' = IF GuestPModeFlag /\ GuestPagingFlag THEN GetGuestMODRegGenRegValue(r) ELSE cr3
  /\ rip' = IncrementGuestIP(rip)
  /\ wrote' = held[r]
  /\ UNCHANGED <<cs, rsp, flags, mem, frames, file, GuestPModeFlag, GuestPagingFlag>>

\* What the guest is owed: the word or dword in the register it named, and after
\* SMSW whatever upper half.
Owed(r, d, whole, hi) == [held EXCEPT ![r] = IF whole THEN d ELSE [hi |-> hi, lo |-> d.lo]]

Result(r) == IF r = EAX THEN rax' ELSE GuestRegisters'[Saved(r)]

HandleCR0Read(r, whole) ==
  /\ Near
  /\ \E q \in Decoded(r) : SetGuestMODRegGenRegValue(q, InitialCR0, whole)
  /\ held' = Owed(r, InitialCR0, whole, Result(r).hi)
  /\ UNCHANGED <<cs, rsp, flags, mem, frames, shadows>>

HandleCR3Read(r) ==
  LET d == IF GuestPModeFlag /\ GuestPagingFlag THEN GuestRequestedCR3 ELSE Zero
  IN  /\ Near
      /\ \E q \in Decoded(r) : SetGuestMODRegGenRegValue(q, d, TRUE)
      /\ held' = Owed(r, d, TRUE, 0)
      /\ UNCHANGED <<cs, rsp, flags, mem, frames, shadows>>

GuestLoads(r, d) ==
  /\ rax' = IF r = EAX THEN d ELSE rax
  /\ GuestRegisters' = IF r = EAX THEN GuestRegisters
                       ELSE [GuestRegisters EXCEPT ![Saved(r)] = d]
  /\ held' = [held EXCEPT ![r] = d]
  /\ UNCHANGED <<stackvars, shadows>>
-----------------------------------------------------------------------------
Init ==
  /\ StackInit
  /\ rax = Zero /\ GuestRegisters = [s \in Slots |-> Zero]
  /\ held = [r \in Operands |-> Zero]
  /\ GuestRequestedCR3 = GuestCR3 /\ wrote = GuestCR3
  /\ GuestPModeFlag = FALSE /\ GuestPagingFlag = FALSE
  /\ cr3 = GuestCR3

Next ==
  \/ StackNext /\ UNCHANGED <<file, shadows>>
  \/ \E n \in {2, 3} : HandleCR0Write(n)
  \/ \E r \in Operands :
       \/ HandleCR3Write(r)
       \/ \E whole \in BOOLEAN : HandleCR0Read(r, whole)
       \/ HandleCR3Read(r)
       \/ \E d \in Dwords : GuestLoads(r, d)

Spec == Init /\ [][Next]_vars
-----------------------------------------------------------------------------
TypeOK ==
  /\ StackTypeOK
  /\ rax \in Dword /\ GuestRegisters \in [Slots -> Dword]
  /\ GuestRequestedCR3 \in Dword /\ cr3 \in Dword /\ wrote \in Dword
  /\ GuestPModeFlag \in BOOLEAN /\ GuestPagingFlag \in BOOLEAN
  /\ held \in [Operands -> Dword]

\* Each exit changes the register the guest named and no other: what the next
\* world switch loads is what the guest left there, or was answered.
RegistersAgree ==
  \A r \in Operands : held[r] = IF r = EAX THEN rax ELSE GuestRegisters[Saved(r)]

\* The directory the guest runs on stays the one SetupGuestPages built, for the
\* translation by hand depends on it, while the shadow has what the guest wrote.
PagingIdle ==
  /\ ~GuestPagingFlag /\ cr3 = GuestCR3
  /\ GuestRequestedCR3 = wrote
=============================================================================
