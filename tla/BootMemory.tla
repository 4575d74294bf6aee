----------------------------- MODULE BootMemory -----------------------------
(***************************************************************************)
(* Physical memory from the boot sector to the first VMRUN: what the disk   *)
(* reads leave behind, the tables start.bin builds below 1 MB, and the      *)
(* copies that take them and the visor to their final addresses.  Memory is *)
(* a function from 4 KB pages to what they hold; sectors and structures     *)
(* smaller than a page stand for the page they begin in.                    *)
(***************************************************************************)
EXTENDS Integers

CONSTANTS
  Globals,          \* page of the visor's variables, as an offset from 0
  MemMap            \* page of the E820 map, INT15_MEMORY_MAP of cross.h: 3C000h

Pages == 0..2127

\* Where start.h puts things, first below 1 MB and then for good.
VmcbStart == 32                     \*  20000h
Vmcb == 1536                        \* 600000h
GdtStart == 96                      \*  60000h
Gdt == 2064                         \* 810000h
HostCR3Start == 112                 \*  70000h
HostCR3 == 1553                     \* 611000h
NestedStart == 26                   \*  1A000h
Nested == 1569                      \* 621000h
VisorStart == 80                    \*  50000h
Visor == 2048                       \* 800000h
MbrStart == 103                     \* 6000:7C00
MbrFinal == 7                       \* 0000:7C00
Idt == 1824                         \* 720000h
GdtrImage == 1791                   \* 6FF000h
GuestCR3 == 870                     \* 366000h
StartModule == 144                  \*  90000h
BootParams == 159                   \* C_SPT_ADDR in segment 9000h
Bios == 160..255                    \* A0000h to 1 MB
Video == 184                        \*  B8000h, the text screen
StartPages == 2                     \* 12 sectors
VisorPages == 14                    \* 112 sectors
ImagePages == 5                     \* visor.bin's own length

ASSUME BootMemoryAssumption ==
  /\ Globals \in 0..(VisorPages - 1) \ {0, MbrFinal}
  /\ MemMap \in (VmcbStart + 6)..(VisorStart - 1)

VARIABLES
  pc,               \* the next part of the boot
  mem,              \* what each page holds
  gdtr, idtr,       \* the pages the processor's table registers point to
  sti,              \* interrupts are enabled in protected mode
  loaded            \* auxiliary: pages of visor.bin the disk delivered

registers == <<gdtr, idtr, sti>>
vars == <<pc, mem, registers, loaded>>

RealMode == {"start.bin", "visor.bin", "mbr", "start", "relocate", "gdt",
             "vmcb", "pmode"}
MoveSteps == {"move vmcb", "move nested", "move host", "fix"}
VisorSteps == {"main", "segment0", "guest pages", "iopm", "tables", "vmrun",
               "guest"} \cup MoveSteps
-----------------------------------------------------------------------------
Ram(p) == <<"ram", p>>

Block(at, n, kind) == [p \in at..(at + n - 1) |-> <<kind, p - at>>]

Page(at, kind, version) == [p \in {at} |-> <<kind, version>>]

Copied(from, to, n) == [p \in to..(to + n - 1) |-> mem[p - to + from]]

Overlay(new) == [p \in Pages |-> IF p \in DOMAIN new THEN new[p] ELSE mem[p]]

Step(from, to) == pc = from /\ pc' = to
-----------------------------------------------------------------------------
(* The boot loader.  INT 13h may fail, or fail halfway; nobody looks.       *)

LoadStart ==
  /\ pc = "start.bin"
  /\ \E k \in 0..StartPages :
       /\ mem' = [Overlay(Block(StartModule, k, "start"))
                    EXCEPT ![VmcbStart] = <<"packet", 0>>]
       /\ pc' = IF k = StartPages THEN "visor.bin" ELSE "lost"
  /\ UNCHANGED <<registers, loaded>>

LoadVisor ==
  /\ Step("visor.bin", "mbr")
  /\ loaded' \in 0..VisorPages
  /\ mem' = Overlay(Block(VisorStart, loaded', "visor"))
  /\ UNCHANGED registers

LoadMbr ==
  /\ Step("mbr", "start")
  /\ \/ mem' = Overlay(Page(MbrStart, "mbr", 0))
     \/ UNCHANGED mem
  /\ UNCHANGED <<registers, loaded>>
-----------------------------------------------------------------------------
(* start.bin, in real mode.                                                 *)

Start ==            \* the disk's geometry and the memory map
  /\ Step("start", "relocate")
  /\ mem' = [Overlay(Page(BootParams, "geometry", 0))
               EXCEPT ![MemMap] = <<"e820", 0>>]
  /\ UNCHANGED <<registers, loaded>>

RelocateDosMBR ==   \* from 6000:0, where the boot loader put nothing
  /\ Step("relocate", "gdt")
  /\ mem' = Overlay(Copied(GdtStart, MbrFinal, 1))
  /\ UNCHANGED <<registers, loaded>>

SetupGDTs ==
  /\ Step("gdt", "vmcb")
  /\ mem' = Overlay(Page(GdtStart, "gdt", 0))
  /\ UNCHANGED <<registers, loaded>>

SetupVMCB ==
  /\ Step("vmcb", "pmode")
  /\ mem' = Overlay(Page(VmcbStart, "vmcb", 0))
  /\ UNCHANGED <<registers, loaded>>

\* Only the first instruction of the image is looked at before the jump into it.
Jump ==
  CASE mem[VisorStart] # <<"visor", 0>> -> "halted"
    [] mem[VisorStart] = <<"visor", 0>> /\ loaded < ImagePages -> "lost"
    [] OTHER -> "main"

\* Slip: only 16K are moved.
EnableProtectedModeShort ==
  /\ pc = "pmode"
  /\ gdtr' = GdtStart
  /\ mem' = Overlay(Copied(VisorStart, Visor, 4))
  /\ pc' = Jump
  /\ UNCHANGED <<idtr, sti, loaded>>

\* With MoveVisor; another image than expected fills part of the screen.
EnableProtectedMode ==
  /\ pc = "pmode"
  /\ gdtr' = GdtStart
  /\ mem' = [Overlay(Copied(VisorStart, Visor, 80))
               EXCEPT ![Video] = IF Jump = "halted" THEN <<"text", 0>> ELSE @]
  /\ pc' = Jump
  /\ UNCHANGED <<idtr, sti, loaded>>
-----------------------------------------------------------------------------
(* The visor, until it enters the guest.                                    *)

\* Slip: the stack descriptor is changed after the table was copied.
MainCopiesFirst ==
  /\ Step("main", "segment0")
  /\ mem' = [Overlay(Copied(GdtStart, Gdt, 1)) EXCEPT ![GdtStart] = <<"gdt", 1>>]
  /\ UNCHANGED <<registers, loaded>>

\* The stack moves, and with it its descriptor.  Two lines go to the screen;
\* VerifySVM returns 0 at once, whether the machine has SVM or not.
Main ==
  /\ Step("main", "segment0")
  /\ mem' = [Overlay(Page(GdtStart, "gdt", 1))
               EXCEPT ![Gdt] = <<"gdt", 1>>, ![Video] = <<"text", 1>>]
  /\ UNCHANGED <<registers, loaded>>

\* Slip: the boot sector is taken from where RelocateDosMBR took it.
CopySegment0FromGdt ==
  /\ Step("segment0", "guest pages")
  /\ mem' = Overlay(Copied(GdtStart, MbrFinal, 1))
  /\ UNCHANGED <<registers, loaded>>

\* Slip: all of segment 0 is copied, not the boot sector alone.
CopySegment0Whole ==
  /\ Step("segment0", "guest pages")
  /\ mem' = Overlay(Copied(GdtStart, 0, 16))
  /\ UNCHANGED <<registers, loaded>>

\* With OFFSET_TO_GUEST_PHYSICAL_PAGES = 0 the upper memory is copied onto
\* itself, and low memory not at all.
CopySegment0 ==
  /\ Step("segment0", "guest pages")
  /\ mem' = Overlay(Copied(MbrStart, MbrFinal, 1))
  /\ UNCHANGED <<registers, loaded>>

SetupGuestPages ==  \* the loop runs once more than 4 MB need
  /\ Step("guest pages", "iopm")
  /\ mem' = Overlay(Block(GuestCR3, 3, "guest tables"))
  /\ UNCHANGED <<registers, loaded>>

\* 18K where the map has 12K.  The address of the map goes to DWORD 40h of
\* the VMCB, through DS: to 100h behind 820000h, not into the VMCB.
ClearIOPM ==
  /\ Step("iopm", "tables")
  /\ mem' = [Overlay(Block(VmcbStart + 1, 5, "zero"))
               EXCEPT ![Visor + VmcbStart] = <<"stray", 0>>]
  /\ UNCHANGED <<registers, loaded>>

\* Slip: the IDT register keeps the address the table was to have at first.
LoadTablesOldIdt ==
  /\ Step("tables", "move vmcb")
  /\ mem' = Overlay(Page(Idt, "idt", 0))
  /\ gdtr' = Gdt /\ idtr' = 1621 /\ sti' = TRUE
  /\ UNCHANGED loaded

\* LGDT, LIDT and STI of MoveStuff.  The variable idtPtr is written while DS
\* is open: at its offset in low memory, not in the visor.
LoadTables ==
  /\ Step("tables", "move vmcb")
  /\ mem' = [Overlay(Page(GdtrImage, "gdtr", 0))
               EXCEPT ![Idt] = <<"idt", 0>>, ![Globals] = <<"stray", 1>>]
  /\ gdtr' = Gdt /\ idtr' = Idt /\ sti' = TRUE
  /\ UNCHANGED loaded

MoveVmcb ==
  /\ Step("move vmcb", "move nested")
  /\ mem' = Overlay(Copied(VmcbStart, Vmcb, 32))
  /\ UNCHANGED <<registers, loaded>>

MoveNestedTables == \* the directory and one table
  /\ Step("move nested", "move host")
  /\ mem' = Overlay(Copied(NestedStart, Nested, 2))
  /\ UNCHANGED <<registers, loaded>>

MoveHostTables ==   \* the directory and 4 pages of tables
  /\ Step("move host", "fix")
  /\ mem' = Overlay(Copied(HostCR3Start, HostCR3, 5))
  /\ UNCHANGED <<registers, loaded>>

\* Slip: the I/O permission map's new address is not written.
FixWithoutIOPM ==
  /\ Step("fix", "vmrun")
  /\ mem' = [mem EXCEPT ![Nested] = <<"directory", 0>>,
                        ![HostCR3] = <<"directory", 1>>,
                        ![Globals] = <<"stray", 2>>]
  /\ UNCHANGED <<registers, loaded>>

FixAddresses ==     \* UpdatePDEntry, and the I/O permission map's address
  /\ Step("fix", "vmrun")
  /\ mem' = [mem EXCEPT ![Nested] = <<"directory", 0>>,
                        ![HostCR3] = <<"directory", 1>>,
                        ![Vmcb] = <<mem[Vmcb][1], 1>>,
                        ![Globals] = <<"stray", 2>>]
  /\ UNCHANGED <<registers, loaded>>

\* The screen is cleared and written once more.  VM_HSAVE_PA keeps its reset
\* value: VMRUN saves the host's state at 0.
EnterGuest ==
  /\ Step("vmrun", "guest")
  /\ mem' = [mem EXCEPT ![0] = <<"host state", 0>>, ![Video] = <<"text", 2>>]
  /\ UNCHANGED <<registers, loaded>>

Stopped == pc \in {"lost", "halted", "guest"} /\ UNCHANGED vars
-----------------------------------------------------------------------------
Init ==
  /\ pc = "start.bin"
  /\ mem = [p \in Pages |-> Ram(p)]
  /\ gdtr = 0 /\ idtr = 0 /\ sti = FALSE
  /\ loaded = 0

BootLoader == LoadStart \/ LoadVisor \/ LoadMbr
StartModuleRuns == Start \/ RelocateDosMBR \/ SetupGDTs \/ SetupVMCB
                     \/ EnableProtectedMode
VisorRuns ==
  \/ Main \/ CopySegment0 \/ SetupGuestPages \/ ClearIOPM \/ LoadTables
  \/ MoveVmcb \/ MoveNestedTables \/ MoveHostTables \/ FixAddresses
  \/ EnterGuest

Next == BootLoader \/ StartModuleRuns \/ VisorRuns \/ Stopped

Spec == Init /\ [][Next]_vars
-----------------------------------------------------------------------------
TypeOK ==
  /\ pc \in RealMode \cup VisorSteps \cup {"lost", "halted"}
  /\ DOMAIN mem = Pages
  /\ gdtr \in {0, GdtStart, Gdt} /\ idtr \in {0, Idt}
  /\ sti \in BOOLEAN
  /\ loaded \in 0..VisorPages

\* From the switch to protected mode on, the processor's GDT is where GDTR says;
\* an interrupt that MoveStuff's STI lets in finds the final GDT, with the moved
\* stack, and the IDT, between all the copies that follow (visor.c:146-194).
TablesBehindRegisters ==
  /\ pc \in VisorSteps => mem[gdtr][1] = "gdt"
  /\ sti => mem[gdtr] = <<"gdt", 1>> /\ mem[idtr] = <<"idt", 0>>

\* Every page of the visor that the disk delivered is still there after all the
\* tables have been built and moved around it (start.c:606-704).
VisorRunsItsImage ==
  pc \in VisorSteps =>
    /\ loaded >= ImagePages
    /\ \A k \in 0..(loaded - 1) : mem[Visor + k] = <<"visor", k>>

\* The guest starts at 0000:7C00 with whatever the boot loader read into
\* 6000:7C00, in spite of RelocateDosMBR and of the tables built in between
\* ("Put the DOS MBR at 0000:7C00", visor.c:519-520).
GuestBootsMbr ==
  pc = "guest" => mem[MbrFinal] \in {<<"mbr", 0>>, Ram(MbrStart)}

\* The guest enters with a VMCB that points to the moved I/O permission map,
\* with a map of zeros, and with its page tables in place.
GuestStateComplete ==
  pc = "guest" =>
    /\ mem[Vmcb] = <<"vmcb", 1>>
    /\ \A k \in 1..3 : mem[Vmcb + k][1] = "zero"
    /\ \A k \in 0..2 : mem[GuestCR3 + k] = <<"guest tables", k>>

\* No table, copy or stray store reaches the BIOS's memory: the ROM stays as the
\* BIOS left it, and until VMRUN the interrupt vectors; of the video memory only
\* the text screen changes (what INT 10h prints counts as the BIOS's).
BiosIntact ==
  /\ \A p \in Bios \ {Video} : mem[p] = Ram(p)
  /\ mem[Video] = Ram(Video) \/ mem[Video][1] = "text"
  /\ pc # "guest" => mem[0] = Ram(0)

=============================================================================
