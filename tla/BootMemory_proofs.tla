------------------------- MODULE BootMemory_proofs -------------------------
(***************************************************************************)
(* However little of it the disk delivers, the boot never lets one          *)
(* structure be copied over another: for every page of the image that the   *)
(* visor's variables may be on but those of the vectors and of the boot     *)
(* sector, and every place of the memory map.                               *)
(***************************************************************************)
EXTENDS BootMemory, TLAPS

(* Memory after a step, page by page.                                       *)
LEMMA OverlayValue ==
  ASSUME NEW new
  PROVE  /\ DOMAIN Overlay(new) = Pages
         /\ \A p \in Pages :
              Overlay(new)[p] = IF p \in DOMAIN new THEN new[p] ELSE mem[p]
BY DEF Overlay

LEMMA InPages ==
  ASSUME NEW first \in Pages, NEW n \in Nat, first + n - 1 \in Pages,
         NEW k \in 0..(n - 1)
  PROVE  /\ first + k \in Pages
         /\ first + k \in first..(first + n - 1)
BY DEF Pages

(* The step leaves every page outside W alone.                              *)
Writes(W) ==
  /\ DOMAIN mem' = Pages
  /\ \A p \in Pages \ W : mem'[p] = mem[p]

LEMMA WriteBlock ==
  ASSUME NEW at \in Pages, NEW n \in Nat, at + n - 1 \in Pages, NEW kind,
         mem' = Overlay(Block(at, n, kind))
  PROVE  /\ Writes(at..(at + n - 1))
         /\ \A k \in 0..(n - 1) : mem'[at + k] = <<kind, k>>
<1>1. at \in Int /\ \A p \in Pages : p \in Int
  BY DEF Pages
<1>2. Writes(at..(at + n - 1))
  BY <1>1, OverlayValue DEF Block, Writes
<1>3. ASSUME NEW k \in 0..(n - 1)
      PROVE  mem'[at + k] = <<kind, k>>
  <2>1. at + k \in Pages /\ at + k \in at..(at + n - 1)
    BY InPages
  <2>2. (at + k) - at = k
    BY <1>1
  <2>3. /\ at + k \in DOMAIN Block(at, n, kind)
        /\ Block(at, n, kind)[at + k] = <<kind, (at + k) - at>>
    BY <2>1 DEF Block
  <2>4. mem'[at + k] = Block(at, n, kind)[at + k]
    BY <2>1, <2>3, OverlayValue
  <2> QED
    BY <2>2, <2>3, <2>4
<1> QED
  BY <1>2, <1>3

LEMMA WritePage ==
  ASSUME NEW at \in Pages, NEW kind, NEW version,
         mem' = Overlay(Page(at, kind, version))
  PROVE  Writes({at}) /\ mem'[at] = <<kind, version>>
BY OverlayValue DEF Page, Writes

LEMMA WriteCopy ==
  ASSUME NEW from \in Int, NEW to \in Pages, NEW n \in Nat, to + n - 1 \in Pages,
         mem' = Overlay(Copied(from, to, n))
  PROVE  /\ Writes(to..(to + n - 1))
         /\ \A k \in 0..(n - 1) : mem'[to + k] = mem[from + k]
<1>1. to \in Int /\ \A p \in Pages : p \in Int
  BY DEF Pages
<1>2. Writes(to..(to + n - 1))
  BY <1>1, OverlayValue DEF Copied, Writes
<1>3. ASSUME NEW k \in 0..(n - 1)
      PROVE  mem'[to + k] = mem[from + k]
  <2>1. to + k \in Pages /\ to + k \in to..(to + n - 1)
    BY InPages
  <2>2. (to + k) - to + from = from + k
    BY <1>1
  <2>3. /\ to + k \in DOMAIN Copied(from, to, n)
        /\ Copied(from, to, n)[to + k] = mem[(to + k) - to + from]
    BY <2>1 DEF Copied
  <2>4. mem'[to + k] = Copied(from, to, n)[to + k]
    BY <2>1, <2>3, OverlayValue
  <2> QED
    BY <2>2, <2>3, <2>4
<1> QED
  BY <1>2, <1>3

LEMMA WriteCopies ==
  ASSUME NEW from \in Int, NEW to \in Pages, NEW n, NEW m \in Nat, n = m + 1,
         to + m \in Pages, mem' = Overlay(Copied(from, to, n))
  PROVE  /\ Writes(to..(to + m))
         /\ \A k \in 0..m : mem'[to + k] = mem[from + k]
<1>1. to \in Int
  BY DEF Pages
<1>2. n \in Nat /\ to + n - 1 = to + m /\ n - 1 = m
  BY <1>1
<1> QED
  BY <1>2, WriteCopy

LEMMA Numbers ==
  /\ VmcbStart = 32 /\ Vmcb = 1536 /\ GdtStart = 96 /\ Gdt = 2064
  /\ HostCR3Start = 112 /\ HostCR3 = 1553 /\ NestedStart = 26 /\ Nested = 1569
  /\ VisorStart = 80 /\ Visor = 2048 /\ MbrStart = 103 /\ MbrFinal = 7
  /\ Idt = 1824 /\ GdtrImage = 1791 /\ GuestCR3 = 870 /\ StartModule = 144
  /\ BootParams = 159 /\ StartPages = 2 /\ VisorPages = 14 /\ ImagePages = 5
  /\ Globals \in {1, 2, 3, 4, 5, 6, 8, 9, 10, 11, 12, 13}
  /\ MemMap \in 38..79
  /\ Video = 184
BY BootMemoryAssumption
   DEF Video, VmcbStart, Vmcb, GdtStart, Gdt, HostCR3Start, HostCR3, NestedStart,
       Nested, VisorStart, Visor, MbrStart, MbrFinal, Idt, GdtrImage, GuestCR3,
       StartModule, BootParams, StartPages, VisorPages, ImagePages

LEMMA PagesAreInts == \A p \in Int : p \in Pages <=> 0 <= p /\ p < 2128
BY DEF Pages

-----------------------------------------------------------------------------
(* What memory holds at each point of the boot.                             *)

Loaded == RealMode \ {"start.bin", "visor.bin"}
Entering == {"vmrun", "guest"}
Moving == MoveSteps \cup Entering

ImageInPlace ==
  /\ pc \in Loaded =>
       \A k \in 0..(loaded - 1) : mem[VisorStart + k] = <<"visor", k>>
  /\ VisorRunsItsImage

TablesInPlace ==
  /\ sti <=> pc \in Moving
  /\ pc \in VisorSteps => gdtr = IF sti THEN Gdt ELSE GdtStart
  /\ sti => idtr = Idt
  /\ pc \in VisorSteps \cup {"vmcb", "pmode"} => mem[GdtStart][1] = "gdt"
  /\ pc \in VisorSteps \ {"main"} => mem[Gdt] = <<"gdt", 1>>
  /\ sti => mem[Idt] = <<"idt", 0>>

MbrInPlace ==
  /\ mem[MbrStart] \in {<<"mbr", 0>>, Ram(MbrStart)}
  /\ pc \in VisorSteps \ {"main", "segment0"} =>
       mem[MbrFinal] \in {<<"mbr", 0>>, Ram(MbrStart)}

VmcbInPlace ==
  /\ pc \in {"pmode", "main", "segment0", "guest pages", "iopm", "tables",
             "move vmcb"} => mem[VmcbStart] = <<"vmcb", 0>>
  /\ pc \in {"tables", "move vmcb"} =>
       \A k \in 1..3 : mem[VmcbStart + k][1] = "zero"
  /\ pc \in {"move nested", "move host", "fix"} => mem[Vmcb] = <<"vmcb", 0>>
  /\ pc \in Entering => mem[Vmcb] = <<"vmcb", 1>>
  /\ pc \in {"move nested", "move host", "fix"} \cup Entering =>
       \A k \in 1..3 : mem[Vmcb + k][1] = "zero"

GuestTablesInPlace ==
  pc \in {"iopm", "tables"} \cup Moving =>
    \A k \in 0..2 : mem[GuestCR3 + k] = <<"guest tables", k>>

Layout ==
  /\ TypeOK
  /\ ImageInPlace
  /\ TablesInPlace
  /\ MbrInPlace
  /\ VmcbInPlace
  /\ GuestTablesInPlace
  /\ BiosIntact

LEMMA LayoutInit == Init => Layout
<1> SUFFICES ASSUME Init PROVE Layout
  OBVIOUS
<1>1. pc = "start.bin" /\ gdtr = 0 /\ idtr = 0 /\ loaded = 0
  BY DEF Init
<1>2. sti \in BOOLEAN /\ ~sti
  BY DEF Init
<1>3. \A p \in Pages : mem[p] = Ram(p)
  BY DEF Init
<1>4. DOMAIN mem = Pages
  BY DEF Init
<1>5. TypeOK
  BY <1>1, <1>2, <1>4 DEF TypeOK, RealMode, VisorPages
<1>6. ImageInPlace /\ VmcbInPlace /\ GuestTablesInPlace
  BY <1>1 DEF ImageInPlace, VisorRunsItsImage, VmcbInPlace, GuestTablesInPlace,
              Loaded, Entering, Moving, RealMode, MoveSteps, VisorSteps
<1>7. TablesInPlace
  BY <1>1, <1>2 DEF TablesInPlace, Entering, Moving, MoveSteps, VisorSteps
<1>8. MbrInPlace
  BY <1>1, <1>3 DEF MbrInPlace, MbrStart, Pages, VisorSteps, MoveSteps
<1>9. BiosIntact
  BY <1>3 DEF BiosIntact, Bios, Video, Pages
<1> QED
  BY <1>5, <1>6, <1>7, <1>8, <1>9 DEF Layout
-----------------------------------------------------------------------------
(* A step that spares a structure's pages keeps the structure.              *)

LEMMA ImageKept ==
  ASSUME TypeOK, ImageInPlace, NEW W, Writes(W), loaded' = loaded,
         pc' \in Loaded =>
           pc \in Loaded /\ \A k \in 0..13 : VisorStart + k \notin W,
         pc' \in VisorSteps =>
           pc \in VisorSteps /\ \A k \in 0..13 : Visor + k \notin W
  PROVE  ImageInPlace'
<1>1. /\ loaded \in 0..14
      /\ \A k \in 0..13 : VisorStart + k \in Pages /\ Visor + k \in Pages
  BY Numbers, PagesAreInts DEF TypeOK
<1>2. \A k \in 0..(loaded - 1) : k \in 0..13
  BY <1>1
<1>3. pc' \in Loaded =>
        \A k \in 0..(loaded' - 1) : mem'[VisorStart + k] = <<"visor", k>>
  BY <1>1, <1>2 DEF ImageInPlace, Writes
<1>4. pc' \in VisorSteps =>
        /\ loaded' >= ImagePages
        /\ \A k \in 0..(loaded' - 1) : mem'[Visor + k] = <<"visor", k>>
  BY <1>1, <1>2 DEF ImageInPlace, VisorRunsItsImage, Writes
<1> QED
  BY <1>3, <1>4 DEF ImageInPlace, VisorRunsItsImage

LEMMA TablesKept ==
  ASSUME TypeOK, TablesInPlace, NEW W, Writes(W), UNCHANGED registers,
         pc' \in Moving <=> pc \in Moving,
         pc' \in VisorSteps => pc \in VisorSteps,
         pc' \in {"vmcb", "pmode"} => pc \in {"vmcb", "pmode"},
         pc' \in VisorSteps \ {"main"} => pc \in VisorSteps \ {"main"},
         GdtStart \notin W, Gdt \notin W, Idt \notin W
  PROVE  TablesInPlace'
<1>1. GdtStart \in Pages /\ Gdt \in Pages /\ Idt \in Pages
  BY Numbers, PagesAreInts
<1>2. /\ mem'[GdtStart] = mem[GdtStart] /\ mem'[Gdt] = mem[Gdt]
      /\ mem'[Idt] = mem[Idt]
  BY <1>1 DEF Writes
<1> QED
  BY <1>2 DEF TablesInPlace, registers

LEMMA MbrKept ==
  ASSUME MbrInPlace, NEW W, Writes(W), MbrStart \notin W,
         pc' \in VisorSteps \ {"main", "segment0"} =>
           pc \in VisorSteps \ {"main", "segment0"} /\ MbrFinal \notin W
  PROVE  MbrInPlace'
<1>1. MbrStart \in Pages /\ MbrFinal \in Pages
  BY Numbers, PagesAreInts
<1> QED
  BY <1>1 DEF MbrInPlace, Writes, Ram

LEMMA GuestTablesKept ==
  ASSUME GuestTablesInPlace, NEW W, Writes(W),
         pc' \in {"iopm", "tables"} \cup Moving =>
           /\ pc \in {"iopm", "tables"} \cup Moving
           /\ \A k \in 0..2 : GuestCR3 + k \notin W
  PROVE  GuestTablesInPlace'
<1>1. \A k \in 0..2 : GuestCR3 + k \in Pages
  BY Numbers, PagesAreInts
<1> QED
  BY <1>1 DEF GuestTablesInPlace, Writes

LEMMA BiosKept ==
  ASSUME BiosIntact, NEW W, Writes(W), \A p \in W : p \notin 160..255,
         pc' # "guest" => pc # "guest" /\ 0 \notin W
  PROVE  BiosIntact'
<1>1. \A p \in Bios : p \in Pages /\ p \in 160..255
  BY PagesAreInts DEF Bios
<1>2. 0 \in Pages
  BY PagesAreInts
<1>3. Video \in Pages \ W
  BY Numbers, PagesAreInts
<1> QED
  BY <1>1, <1>2, <1>3 DEF BiosIntact, Writes, Ram

LEMMA BiosPrinted ==
  ASSUME BiosIntact, NEW W, Writes(W), \A p \in W : p \notin 160..255 \ {184},
         mem'[Video] = mem[Video] \/ mem'[Video][1] = "text",
         pc' # "guest" => pc # "guest" /\ 0 \notin W
  PROVE  BiosIntact'
<1>1. \A p \in Bios \ {Video} : p \in Pages /\ p \in 160..255 \ {184}
  BY Numbers, PagesAreInts DEF Bios
<1>2. 0 \in Pages
  BY PagesAreInts
<1>3. \A p \in Bios \ {Video} : mem'[p] = Ram(p)
  BY <1>1 DEF BiosIntact, Writes
<1>4. pc' # "guest" => mem'[0] = Ram(0)
  BY <1>2 DEF BiosIntact, Writes
<1>5. mem'[Video] = Ram(Video) \/ mem'[Video][1] = "text"
  BY DEF BiosIntact
<1> QED
  BY <1>3, <1>4, <1>5 DEF BiosIntact, Ram
-----------------------------------------------------------------------------
(* Each step of the boot keeps the layout.                                  *)

LEMMA LoadStartKeeps == Layout /\ LoadStart => Layout'
<1> SUFFICES ASSUME Layout, LoadStart PROVE Layout'
  OBVIOUS
<1>1. /\ pc = "start.bin" /\ pc' \in {"visor.bin", "lost"}
      /\ UNCHANGED registers
      /\ loaded' = loaded
  BY DEF LoadStart, Step, registers
<1>2. Writes({VmcbStart} \cup StartModule..(StartModule + 1))
  <2>1. PICK k \in 0..StartPages :
          mem' = [Overlay(Block(StartModule, k, "start"))
                    EXCEPT ![VmcbStart] = <<"packet", 0>>]
    BY DEF LoadStart
  <2>2. /\ StartModule..(StartModule + k - 1) \subseteq
             StartModule..(StartModule + 1)
        /\ VmcbStart \in Pages
    BY Numbers, PagesAreInts
  <2>3. \A p \in Pages \ (StartModule..(StartModule + 1)) :
          Overlay(Block(StartModule, k, "start"))[p] = mem[p]
    BY <2>2, OverlayValue DEF Block
  <2> QED
    BY <2>1, <2>2, <2>3, OverlayValue DEF Writes
<1> DEFINE W == {VmcbStart} \cup StartModule..(StartModule + 1)
<1>3. Writes(W)
  BY <1>2
<1>4. /\ \A k \in 0..13 : VisorStart + k \notin W
      /\ \A k \in 0..13 : Visor + k \notin W
      /\ GdtStart \notin W /\ Gdt \notin W /\ Idt \notin W
      /\ MbrStart \notin W
      /\ 0 \notin W /\ \A p \in W : p \notin 160..255
  BY Numbers
<1> HIDE DEF W
<1>5. VmcbInPlace'
  BY <1>1 DEF VmcbInPlace, Entering
<1>6. TypeOK'
  BY <1>1, <1>3
     DEF Layout, TypeOK, registers, Writes, RealMode, VisorSteps, MoveSteps
<1>7. ImageInPlace' /\ TablesInPlace' /\ MbrInPlace' /\ GuestTablesInPlace'
      /\ BiosIntact'
  BY <1>1, <1>3, <1>4, ImageKept, TablesKept, MbrKept, GuestTablesKept,
     BiosKept
     DEF Layout, Loaded, RealMode, VisorSteps, MoveSteps, Entering, Moving
<1> QED
  BY <1>5, <1>6, <1>7 DEF Layout

LEMMA LoadVisorKeeps == Layout /\ LoadVisor => Layout'
<1> SUFFICES ASSUME Layout, LoadVisor PROVE Layout'
  OBVIOUS
<1>1. /\ pc = "visor.bin" /\ pc' = "mbr"
      /\ UNCHANGED registers
  BY DEF LoadVisor, Step, registers
<1>2. /\ Writes(VisorStart..(VisorStart + loaded' - 1))
      /\ \A k \in 0..(loaded' - 1) : mem'[VisorStart + k] = <<"visor", k>>
      /\ loaded' \in 0..13 \cup {14}
  <2>1. PICK n \in 0..VisorPages :
          loaded' = n /\ mem' = Overlay(Block(VisorStart, n, "visor"))
    BY DEF LoadVisor
  <2>2. /\ n \in 0..13 \cup {14} /\ n \in Nat
        /\ VisorStart \in Pages /\ VisorStart + n - 1 \in Pages
    BY Numbers, PagesAreInts
  <2>3. /\ Writes(VisorStart..(VisorStart + n - 1))
        /\ \A k \in 0..(n - 1) : mem'[VisorStart + k] = <<"visor", k>>
    BY <2>1, <2>2, WriteBlock
  <2> QED
    BY <2>1, <2>2, <2>3
<1> DEFINE W == VisorStart..(VisorStart + 13)
<1>3. Writes(W)
  <2>1. PICK n \in 0..13 \cup {14} : loaded' = n
    BY <1>2
  <2>2. VisorStart..(VisorStart + n - 1) \subseteq W
    BY Numbers
  <2> QED
    BY <1>2, <2>1, <2>2 DEF Writes
<1>4. /\ GdtStart \notin W /\ Gdt \notin W /\ Idt \notin W
      /\ MbrStart \notin W
      /\ 0 \notin W /\ \A p \in W : p \notin 160..255
  BY Numbers
<1> HIDE DEF W
<1>5. VmcbInPlace'
  BY <1>1 DEF VmcbInPlace, Entering
<1>6. TypeOK'
  <2>1. loaded' \in 0..VisorPages
    BY <1>2, Numbers
  <2> QED
    BY <1>1, <1>3, <2>1 DEF Layout, TypeOK, registers, Writes, RealMode
<1>7. ImageInPlace'
  BY <1>1, <1>2
     DEF ImageInPlace, VisorRunsItsImage, VisorSteps, MoveSteps
<1>8. TablesInPlace' /\ MbrInPlace' /\ GuestTablesInPlace' /\ BiosIntact'
  BY <1>1, <1>3, <1>4, TablesKept, MbrKept, GuestTablesKept, BiosKept
     DEF Layout, Loaded, RealMode, VisorSteps, MoveSteps, Entering, Moving
<1> QED
  BY <1>5, <1>6, <1>7, <1>8 DEF Layout

LEMMA LoadMbrKeeps == Layout /\ LoadMbr => Layout'
<1> SUFFICES ASSUME Layout, LoadMbr PROVE Layout'
  OBVIOUS
<1>1. /\ pc = "mbr" /\ pc' = "start"
      /\ UNCHANGED registers
      /\ loaded' = loaded
  BY DEF LoadMbr, Step, registers
<1>2. DOMAIN mem' = Pages /\ Writes({MbrStart})
      /\ mem'[MbrStart] \in {<<"mbr", 0>>, mem[MbrStart]}
  <2>1. MbrStart \in Pages
    BY Numbers, PagesAreInts
  <2>2. CASE mem' = Overlay(Page(MbrStart, "mbr", 0))
    BY <2>1, <2>2, WritePage DEF Writes
  <2>3. CASE mem' = mem
    BY <2>3 DEF Layout, TypeOK, Writes
  <2> QED
    BY <2>2, <2>3 DEF LoadMbr
<1> DEFINE W == {MbrStart}
<1>3. Writes(W)
  BY <1>2
<1>4. /\ \A k \in 0..13 : VisorStart + k \notin W
      /\ \A k \in 0..13 : Visor + k \notin W
      /\ GdtStart \notin W /\ Gdt \notin W /\ Idt \notin W
      /\ 0 \notin W /\ \A p \in W : p \notin 160..255
  BY Numbers
<1> HIDE DEF W
<1>5. VmcbInPlace'
  BY <1>1 DEF VmcbInPlace, Entering
<1>6. MbrInPlace'
  BY <1>1, <1>2 DEF Layout, MbrInPlace, Ram, VisorSteps, MoveSteps
<1>7. TypeOK'
  BY <1>1, <1>3
     DEF Layout, TypeOK, registers, Writes, RealMode, VisorSteps, MoveSteps
<1>8. ImageInPlace' /\ TablesInPlace' /\ GuestTablesInPlace' /\ BiosIntact'
  BY <1>1, <1>3, <1>4, ImageKept, TablesKept, GuestTablesKept, BiosKept
     DEF Layout, Loaded, RealMode, VisorSteps, MoveSteps, Entering, Moving
<1> QED
  BY <1>5, <1>6, <1>7, <1>8 DEF Layout

LEMMA StartKeeps == Layout /\ Start => Layout'
<1> SUFFICES ASSUME Layout, Start PROVE Layout'
  OBVIOUS
<1>1. /\ pc = "start" /\ pc' = "relocate"
      /\ UNCHANGED registers
      /\ loaded' = loaded
  BY DEF Start, Step, registers
<1>2. DOMAIN mem' = Pages
      /\ \A p \in Pages \ {BootParams, MemMap} : mem'[p] = mem[p]
  <2>1. \A p \in Pages \ {BootParams} :
          Overlay(Page(BootParams, "geometry", 0))[p] = mem[p]
    BY OverlayValue DEF Page
  <2> QED
    BY <2>1, OverlayValue DEF Start
<1> DEFINE W == {BootParams, MemMap}
<1>3. Writes(W)
  BY <1>2 DEF Writes
<1>4. /\ \A k \in 0..13 : VisorStart + k \notin W
      /\ \A k \in 0..13 : Visor + k \notin W
      /\ GdtStart \notin W /\ Gdt \notin W /\ Idt \notin W
      /\ MbrStart \notin W
      /\ 0 \notin W /\ \A p \in W : p \notin 160..255
  BY Numbers
<1> HIDE DEF W
<1>5. VmcbInPlace'
  BY <1>1 DEF VmcbInPlace, Entering
<1>6. TypeOK'
  BY <1>1, <1>3
     DEF Layout, TypeOK, registers, Writes, RealMode, VisorSteps, MoveSteps
<1>7. ImageInPlace' /\ TablesInPlace' /\ MbrInPlace' /\ GuestTablesInPlace'
      /\ BiosIntact'
  BY <1>1, <1>3, <1>4, ImageKept, TablesKept, MbrKept, GuestTablesKept,
     BiosKept
     DEF Layout, Loaded, RealMode, VisorSteps, MoveSteps, Entering, Moving
<1> QED
  BY <1>5, <1>6, <1>7 DEF Layout

LEMMA RelocateDosMBRKeeps == Layout /\ RelocateDosMBR => Layout'
<1> SUFFICES ASSUME Layout, RelocateDosMBR PROVE Layout'
  OBVIOUS
<1>1. /\ pc = "relocate" /\ pc' = "gdt"
      /\ UNCHANGED registers
      /\ loaded' = loaded
  BY DEF RelocateDosMBR, Step, registers
<1>2. /\ Writes(MbrFinal..(MbrFinal + 0))
      /\ \A k \in 0..0 : mem'[MbrFinal + k] = mem[GdtStart + k]
  <2>1. /\ GdtStart \in Int /\ MbrFinal \in Pages /\ 0 \in Nat
        /\ MbrFinal + 0 \in Pages /\ 1 = 0 + 1
    BY Numbers, PagesAreInts
  <2> QED
    BY <2>1, WriteCopies DEF RelocateDosMBR
<1> DEFINE W == MbrFinal..(MbrFinal + 0)
<1>3. Writes(W)
  BY <1>2
<1>4. /\ \A k \in 0..13 : VisorStart + k \notin W
      /\ \A k \in 0..13 : Visor + k \notin W
      /\ GdtStart \notin W /\ Gdt \notin W /\ Idt \notin W
      /\ MbrStart \notin W
      /\ 0 \notin W /\ \A p \in W : p \notin 160..255
  BY Numbers
<1> HIDE DEF W
<1>5. VmcbInPlace'
  BY <1>1 DEF VmcbInPlace, Entering
<1>6. TypeOK'
  BY <1>1, <1>3
     DEF Layout, TypeOK, registers, Writes, RealMode, VisorSteps, MoveSteps
<1>7. ImageInPlace' /\ TablesInPlace' /\ MbrInPlace' /\ GuestTablesInPlace'
      /\ BiosIntact'
  BY <1>1, <1>3, <1>4, ImageKept, TablesKept, MbrKept, GuestTablesKept,
     BiosKept
     DEF Layout, Loaded, RealMode, VisorSteps, MoveSteps, Entering, Moving
<1> QED
  BY <1>5, <1>6, <1>7 DEF Layout

LEMMA SetupGDTsKeeps == Layout /\ SetupGDTs => Layout'
<1> SUFFICES ASSUME Layout, SetupGDTs PROVE Layout'
  OBVIOUS
<1>1. /\ pc = "gdt" /\ pc' = "vmcb"
      /\ UNCHANGED registers
      /\ loaded' = loaded
  BY DEF SetupGDTs, Step, registers
<1>2. Writes({GdtStart}) /\ mem'[GdtStart] = <<"gdt", 0>>
  <2>1. GdtStart \in Pages
    BY Numbers, PagesAreInts
  <2> QED
    BY <2>1, WritePage DEF SetupGDTs
<1> DEFINE W == {GdtStart}
<1>3. Writes(W)
  BY <1>2
<1>4. /\ \A k \in 0..13 : VisorStart + k \notin W
      /\ \A k \in 0..13 : Visor + k \notin W
      /\ MbrStart \notin W
      /\ 0 \notin W /\ \A p \in W : p \notin 160..255
  BY Numbers
<1> HIDE DEF W
<1>5. VmcbInPlace'
  BY <1>1 DEF VmcbInPlace, Entering
<1>6. TablesInPlace'
  <2>1. mem'[GdtStart][1] = "gdt"
    BY <1>2
  <2>2. ~sti
    BY <1>1 DEF Layout, TablesInPlace, Moving, Entering, MoveSteps
  <2> QED
    BY <1>1, <2>1, <2>2
       DEF TablesInPlace, VisorSteps, MoveSteps, Moving, Entering, registers
<1>7. TypeOK'
  BY <1>1, <1>3
     DEF Layout, TypeOK, registers, Writes, RealMode, VisorSteps, MoveSteps
<1>8. ImageInPlace' /\ MbrInPlace' /\ GuestTablesInPlace' /\ BiosIntact'
  BY <1>1, <1>3, <1>4, ImageKept, MbrKept, GuestTablesKept, BiosKept
     DEF Layout, Loaded, RealMode, VisorSteps, MoveSteps, Entering, Moving
<1> QED
  BY <1>5, <1>6, <1>7, <1>8 DEF Layout

LEMMA SetupVMCBKeeps == Layout /\ SetupVMCB => Layout'
<1> SUFFICES ASSUME Layout, SetupVMCB PROVE Layout'
  OBVIOUS
<1>1. /\ pc = "vmcb" /\ pc' = "pmode"
      /\ UNCHANGED registers
      /\ loaded' = loaded
  BY DEF SetupVMCB, Step, registers
<1>2. Writes({VmcbStart}) /\ mem'[VmcbStart] = <<"vmcb", 0>>
  <2>1. VmcbStart \in Pages
    BY Numbers, PagesAreInts
  <2> QED
    BY <2>1, WritePage DEF SetupVMCB
<1> DEFINE W == {VmcbStart}
<1>3. Writes(W)
  BY <1>2
<1>4. /\ \A k \in 0..13 : VisorStart + k \notin W
      /\ \A k \in 0..13 : Visor + k \notin W
      /\ GdtStart \notin W /\ Gdt \notin W /\ Idt \notin W
      /\ MbrStart \notin W
      /\ 0 \notin W /\ \A p \in W : p \notin 160..255
  BY Numbers
<1> HIDE DEF W
<1>5. VmcbInPlace'
  BY <1>1, <1>2 DEF VmcbInPlace, Entering
<1>6. TypeOK'
  BY <1>1, <1>3
     DEF Layout, TypeOK, registers, Writes, RealMode, VisorSteps, MoveSteps
<1>7. ImageInPlace' /\ TablesInPlace' /\ MbrInPlace' /\ GuestTablesInPlace'
      /\ BiosIntact'
  BY <1>1, <1>3, <1>4, ImageKept, TablesKept, MbrKept, GuestTablesKept,
     BiosKept
     DEF Layout, Loaded, RealMode, VisorSteps, MoveSteps, Entering, Moving
<1> QED
  BY <1>5, <1>6, <1>7 DEF Layout

LEMMA EnableProtectedModeKeeps == Layout /\ EnableProtectedMode => Layout'
<1> SUFFICES ASSUME Layout, EnableProtectedMode PROVE Layout'
  OBVIOUS
<1>1. /\ pc = "pmode" /\ pc' \in {"halted", "lost", "main"}
      /\ loaded' = loaded
  <2>1. Jump \in {"halted", "lost", "main"}
    BY Zenon DEF Jump
  <2> QED
    BY <2>1 DEF EnableProtectedMode
<1>2. /\ Writes(Visor..(Visor + 79) \cup {Video})
      /\ \A k \in 0..79 : mem'[Visor + k] = mem[VisorStart + k]
      /\ mem'[Video] = mem[Video] \/ mem'[Video] = <<"text", 0>>
  <2> DEFINE new == Copied(VisorStart, Visor, 80)
  <2>1. /\ DOMAIN new = Visor..(Visor + 79)
        /\ \A k \in 0..79 : new[Visor + k] = mem[VisorStart + k]
    <3>1. Visor + 80 - 1 = Visor + 79
      BY Numbers
    <3>2. DOMAIN new = Visor..(Visor + 79)
      BY <3>1 DEF Copied
    <3>3. ASSUME NEW k \in 0..79 PROVE new[Visor + k] = mem[VisorStart + k]
      <4>1. /\ Visor + k \in Visor..(Visor + 80 - 1)
            /\ (Visor + k) - Visor + VisorStart = VisorStart + k
        BY Numbers
      <4>2. new[Visor + k] = mem[(Visor + k) - Visor + VisorStart]
        BY <4>1 DEF Copied
      <4> QED
        BY <4>1, <4>2
    <3> QED
      BY <3>2, <3>3
  <2>2. /\ Video \in Pages /\ Video \notin Visor..(Visor + 79)
        /\ \A k \in 0..79 : /\ Visor + k \in Visor..(Visor + 79)
                            /\ Visor + k \in Pages
                            /\ Visor + k # Video
    BY Numbers, PagesAreInts
  <2>3. mem' = [Overlay(new) EXCEPT
                  ![Video] = IF Jump = "halted" THEN <<"text", 0>> ELSE @]
    BY DEF EnableProtectedMode
  <2> HIDE DEF new
  <2>4. /\ DOMAIN mem' = Pages
        /\ \A p \in Pages \ {Video} : mem'[p] = Overlay(new)[p]
        /\ mem'[Video] = Overlay(new)[Video] \/ mem'[Video] = <<"text", 0>>
    BY <2>2, <2>3, OverlayValue
  <2>5. /\ \A p \in Pages \ (Visor..(Visor + 79)) : Overlay(new)[p] = mem[p]
        /\ \A k \in 0..79 : Overlay(new)[Visor + k] = mem[VisorStart + k]
    BY <2>1, <2>2, OverlayValue
  <2>6. Writes(Visor..(Visor + 79) \cup {Video})
    BY <2>4, <2>5 DEF Writes
  <2> QED
    BY <2>2, <2>4, <2>5, <2>6
<1> DEFINE W == Visor..(Visor + 79) \cup {Video}
<1>3. Writes(W)
  BY <1>2
<1>4. /\ GdtStart \notin W /\ VmcbStart \notin W
      /\ MbrStart \notin W
      /\ 0 \notin W /\ \A p \in W : p \notin 160..255 \ {184}
  BY Numbers
<1> HIDE DEF W
<1>5. VmcbInPlace'
  <2>1. VmcbStart \in Pages
    BY Numbers, PagesAreInts
  <2> QED
    BY <1>1, <1>3, <1>4, <2>1 DEF Layout, VmcbInPlace, Entering, Writes
<1>6. TypeOK'
  BY <1>1, <1>3
     DEF Layout, TypeOK, EnableProtectedMode, Writes, RealMode, VisorSteps, MoveSteps
<1>7. ImageInPlace'
  <2>1. pc' = "main" => loaded >= ImagePages
    <3>1. loaded \in Int /\ ImagePages \in Int
      BY Numbers DEF Layout, TypeOK
    <3>2. Jump = "main" => ~(loaded < ImagePages)
      BY DEF Jump
    <3> QED
      BY <3>1, <3>2 DEF EnableProtectedMode
  <2>2. \A k \in 0..(loaded - 1) : k \in 0..13 /\ k \in 0..79
    BY Numbers DEF Layout, TypeOK
  <2>3. \A k \in 0..(loaded - 1) : mem'[Visor + k] = <<"visor", k>>
    BY <1>1, <1>2, <2>2 DEF Layout, ImageInPlace, Loaded, RealMode
  <2> QED
    BY <1>1, <2>1, <2>3
       DEF ImageInPlace, VisorRunsItsImage, Loaded, RealMode, VisorSteps, MoveSteps
<1>8. TablesInPlace'
  <2>1. mem'[GdtStart] = mem[GdtStart]
    BY <1>3, <1>4, Numbers, PagesAreInts DEF Writes
  <2>2. gdtr' = GdtStart /\ UNCHANGED <<idtr, sti>> /\ ~sti
    BY <1>1 DEF EnableProtectedMode, Layout, TablesInPlace, Moving, Entering,
                MoveSteps
  <2> QED
    BY <1>1, <2>1, <2>2
       DEF Layout, TablesInPlace, VisorSteps, MoveSteps, Moving, Entering
<1>9. MbrInPlace' /\ GuestTablesInPlace'
  BY <1>1, <1>3, <1>4, MbrKept, GuestTablesKept
     DEF Layout, Loaded, RealMode, VisorSteps, MoveSteps, Entering, Moving
<1>10. BiosIntact'
  <2>1. mem'[Video] = mem[Video] \/ mem'[Video][1] = "text"
    BY <1>2
  <2> QED
    BY <1>1, <1>3, <1>4, <2>1, BiosPrinted DEF Layout
<1> QED
  BY <1>5, <1>6, <1>7, <1>8, <1>9, <1>10 DEF Layout

LEMMA MainKeeps == Layout /\ Main => Layout'
<1> SUFFICES ASSUME Layout, Main PROVE Layout'
  OBVIOUS
<1>1. /\ pc = "main" /\ pc' = "segment0"
      /\ UNCHANGED registers
      /\ loaded' = loaded
  BY DEF Main, Step, registers
<1>2. /\ DOMAIN mem' = Pages
      /\ \A p \in Pages \ {GdtStart, Gdt, Video} : mem'[p] = mem[p]
      /\ mem'[GdtStart] = <<"gdt", 1>> /\ mem'[Gdt] = <<"gdt", 1>>
      /\ mem'[Video] = <<"text", 1>>
  <2>1. /\ GdtStart # Gdt /\ GdtStart # Video /\ Gdt # Video
        /\ {GdtStart, Gdt, Video} \subseteq Pages
    BY Numbers, PagesAreInts
  <2>2. /\ Writes({GdtStart} \cup {Gdt, Video})
        /\ mem' = [Overlay(Page(GdtStart, "gdt", 1))
                     EXCEPT ![Gdt] = <<"gdt", 1>>, ![Video] = <<"text", 1>>]
    BY <2>1, OverlayValue DEF Main, Page, Writes
  <2>3. Overlay(Page(GdtStart, "gdt", 1))[GdtStart] = <<"gdt", 1>>
    BY <2>1, OverlayValue DEF Page
  <2> QED
    BY <2>1, <2>2, <2>3, OverlayValue DEF Writes
<1> DEFINE W == {GdtStart, Gdt, Video}
<1>3. Writes(W)
  BY <1>2 DEF Writes
<1>4. /\ \A k \in 0..13 : Visor + k \notin W
      /\ MbrStart \notin W
      /\ 0 \notin W /\ \A p \in W : p \notin 160..255 \ {184}
  BY Numbers
<1> HIDE DEF W
<1>5. VmcbInPlace'
  <2>1. VmcbStart \in Pages \ W
    BY Numbers, PagesAreInts DEF W
  <2> QED
    BY <1>1, <1>3, <2>1 DEF Layout, VmcbInPlace, Entering, Writes
<1>6. TablesInPlace'
  <2>1. mem'[GdtStart][1] = "gdt"
    BY <1>2
  <2> QED
    BY <1>1, <1>2, <2>1
       DEF Layout, TablesInPlace, VisorSteps, MoveSteps, Moving, Entering, registers
<1>7. TypeOK'
  BY <1>1, <1>3
     DEF Layout, TypeOK, registers, Writes, RealMode, VisorSteps, MoveSteps
<1>8. ImageInPlace' /\ MbrInPlace' /\ GuestTablesInPlace' /\ BiosIntact'
  BY <1>1, <1>2, <1>3, <1>4, ImageKept, MbrKept, GuestTablesKept, BiosPrinted
     DEF Layout, Loaded, RealMode, VisorSteps, MoveSteps, Entering, Moving
<1> QED
  BY <1>5, <1>6, <1>7, <1>8 DEF Layout

LEMMA CopySegment0Keeps == Layout /\ CopySegment0 => Layout'
<1> SUFFICES ASSUME Layout, CopySegment0 PROVE Layout'
  OBVIOUS
<1>1. /\ pc = "segment0" /\ pc' = "guest pages"
      /\ UNCHANGED registers
      /\ loaded' = loaded
  BY DEF CopySegment0, Step, registers
<1>2. /\ Writes(MbrFinal..(MbrFinal + 0))
      /\ \A k \in 0..0 : mem'[MbrFinal + k] = mem[MbrStart + k]
  <2>1. /\ MbrStart \in Int /\ MbrFinal \in Pages /\ 0 \in Nat
        /\ MbrFinal + 0 \in Pages /\ 1 = 0 + 1
    BY Numbers, PagesAreInts
  <2> QED
    BY <2>1, WriteCopies DEF CopySegment0
<1> DEFINE W == MbrFinal..(MbrFinal + 0)
<1>3. Writes(W)
  BY <1>2
<1>4. /\ \A k \in 0..13 : Visor + k \notin W
      /\ GdtStart \notin W /\ Gdt \notin W /\ Idt \notin W
      /\ MbrStart \notin W
      /\ 0 \notin W /\ \A p \in W : p \notin 160..255
  BY Numbers
<1> HIDE DEF W
<1>5. VmcbInPlace'
  <2>1. VmcbStart \in Pages \ W
    BY Numbers, PagesAreInts DEF W
  <2> QED
    BY <1>1, <1>3, <2>1 DEF Layout, VmcbInPlace, Entering, Writes
<1>6. MbrInPlace'
  <2>1. mem'[MbrFinal + 0] = mem[MbrStart + 0]
    BY <1>2
  <2>2. /\ MbrFinal + 0 = MbrFinal /\ MbrStart + 0 = MbrStart
        /\ MbrStart \in Pages
    BY Numbers, PagesAreInts
  <2>3. mem'[MbrFinal] = mem[MbrStart] /\ mem'[MbrStart] = mem[MbrStart]
    BY <1>3, <1>4, <2>1, <2>2 DEF Writes
  <2> QED
    BY <2>3 DEF Layout, MbrInPlace, Ram
<1>7. TypeOK'
  BY <1>1, <1>3
     DEF Layout, TypeOK, registers, Writes, RealMode, VisorSteps, MoveSteps
<1>8. ImageInPlace' /\ TablesInPlace' /\ GuestTablesInPlace' /\ BiosIntact'
  BY <1>1, <1>3, <1>4, ImageKept, TablesKept, GuestTablesKept, BiosKept
     DEF Layout, Loaded, RealMode, VisorSteps, MoveSteps, Entering, Moving
<1> QED
  BY <1>5, <1>6, <1>7, <1>8 DEF Layout

LEMMA SetupGuestPagesKeeps == Layout /\ SetupGuestPages => Layout'
<1> SUFFICES ASSUME Layout, SetupGuestPages PROVE Layout'
  OBVIOUS
<1>1. /\ pc = "guest pages" /\ pc' = "iopm"
      /\ UNCHANGED registers
      /\ loaded' = loaded
  BY DEF SetupGuestPages, Step, registers
<1>2. /\ Writes(GuestCR3..(GuestCR3 + 2))
      /\ \A k \in 0..2 : mem'[GuestCR3 + k] = <<"guest tables", k>>
  <2> DEFINE n == 3
  <2>1. /\ GuestCR3 \in Pages /\ n \in Nat
        /\ GuestCR3 + n - 1 = GuestCR3 + 2 /\ GuestCR3 + n - 1 \in Pages
        /\ n - 1 = 2
    BY Numbers, PagesAreInts
  <2>2. mem' = Overlay(Block(GuestCR3, n, "guest tables"))
    BY DEF SetupGuestPages
  <2> HIDE DEF n
  <2>3. /\ Writes(GuestCR3..(GuestCR3 + n - 1))
        /\ \A k \in 0..(n - 1) : mem'[GuestCR3 + k] = <<"guest tables", k>>
    BY <2>1, <2>2, WriteBlock
  <2> QED
    BY <2>1, <2>3
<1> DEFINE W == GuestCR3..(GuestCR3 + 2)
<1>3. Writes(W)
  BY <1>2
<1>4. /\ \A k \in 0..13 : Visor + k \notin W
      /\ GdtStart \notin W /\ Gdt \notin W /\ Idt \notin W
      /\ MbrStart \notin W /\ MbrFinal \notin W
      /\ 0 \notin W /\ \A p \in W : p \notin 160..255
  BY Numbers
<1> HIDE DEF W
<1>5. VmcbInPlace'
  <2>1. VmcbStart \in Pages \ W
    BY Numbers, PagesAreInts DEF W
  <2> QED
    BY <1>1, <1>3, <2>1 DEF Layout, VmcbInPlace, Entering, Writes
<1>6. GuestTablesInPlace'
  BY <1>2 DEF GuestTablesInPlace
<1>7. TypeOK'
  BY <1>1, <1>3
     DEF Layout, TypeOK, registers, Writes, RealMode, VisorSteps, MoveSteps
<1>8. ImageInPlace' /\ TablesInPlace' /\ MbrInPlace' /\ BiosIntact'
  BY <1>1, <1>3, <1>4, ImageKept, TablesKept, MbrKept, BiosKept
     DEF Layout, Loaded, RealMode, VisorSteps, MoveSteps, Entering, Moving
<1> QED
  BY <1>5, <1>6, <1>7, <1>8 DEF Layout

LEMMA ClearIOPMKeeps == Layout /\ ClearIOPM => Layout'
<1> SUFFICES ASSUME Layout, ClearIOPM PROVE Layout'
  OBVIOUS
<1>1. /\ pc = "iopm" /\ pc' = "tables"
      /\ UNCHANGED registers
      /\ loaded' = loaded
  BY DEF ClearIOPM, Step, registers
<1>2. /\ DOMAIN mem' = Pages
      /\ \A p \in Pages \ ((VmcbStart + 1)..(VmcbStart + 5)
                             \cup {Visor + VmcbStart}) : mem'[p] = mem[p]
      /\ \A k \in 1..3 : mem'[VmcbStart + k][1] = "zero"
  <2> DEFINE new == Block(VmcbStart + 1, 5, "zero")
  <2>1. mem' = [Overlay(new) EXCEPT ![Visor + VmcbStart] = <<"stray", 0>>]
    BY DEF ClearIOPM
  <2>2. /\ DOMAIN new = (VmcbStart + 1)..(VmcbStart + 5)
        /\ \A p \in (VmcbStart + 1)..(VmcbStart + 5) :
             new[p] = <<"zero", p - (VmcbStart + 1)>>
    BY Numbers DEF Block
  <2>3. \A k \in 1..3 : /\ VmcbStart + k \in (VmcbStart + 1)..(VmcbStart + 5)
                        /\ VmcbStart + k \in Pages
                        /\ VmcbStart + k # Visor + VmcbStart
    BY Numbers, PagesAreInts
  <2> HIDE DEF new
  <2>4. ASSUME NEW k \in 1..3
        PROVE  mem'[VmcbStart + k][1] = "zero"
    <3>1. mem'[VmcbStart + k] = new[VmcbStart + k]
      BY <2>1, <2>2, <2>3, OverlayValue
    <3>2. new[VmcbStart + k] = <<"zero", (VmcbStart + k) - (VmcbStart + 1)>>
      BY <2>2, <2>3
    <3> QED
      BY <3>1, <3>2
  <2> QED
    BY <2>1, <2>2, <2>4, OverlayValue
<1> DEFINE W == (VmcbStart + 1)..(VmcbStart + 5) \cup {Visor + VmcbStart}
<1>3. Writes(W)
  BY <1>2 DEF Writes
<1>4. /\ \A k \in 0..13 : Visor + k \notin W
      /\ GdtStart \notin W /\ Gdt \notin W /\ Idt \notin W
      /\ MbrStart \notin W /\ MbrFinal \notin W
      /\ \A k \in 0..2 : GuestCR3 + k \notin W
      /\ 0 \notin W /\ \A p \in W : p \notin 160..255
  BY Numbers
<1> HIDE DEF W
<1>5. VmcbInPlace'
  <2>1. VmcbStart \in Pages \ W
    BY Numbers, PagesAreInts DEF W
  <2> QED
    BY <1>1, <1>2, <1>3, <2>1 DEF Layout, VmcbInPlace, Entering, Writes
<1>6. TypeOK'
  BY <1>1, <1>3
     DEF Layout, TypeOK, registers, Writes, RealMode, VisorSteps, MoveSteps
<1>7. ImageInPlace' /\ TablesInPlace' /\ MbrInPlace' /\ GuestTablesInPlace'
      /\ BiosIntact'
  BY <1>1, <1>3, <1>4, ImageKept, TablesKept, MbrKept, GuestTablesKept,
     BiosKept
     DEF Layout, Loaded, RealMode, VisorSteps, MoveSteps, Entering, Moving
<1> QED
  BY <1>5, <1>6, <1>7 DEF Layout

LEMMA LoadTablesKeeps == Layout /\ LoadTables => Layout'
<1> SUFFICES ASSUME Layout, LoadTables PROVE Layout'
  OBVIOUS
<1>1. /\ pc = "tables" /\ pc' = "move vmcb"
      /\ gdtr' = Gdt /\ idtr' = Idt /\ sti'
      /\ loaded' = loaded
  BY DEF LoadTables, Step, registers
<1>2. /\ DOMAIN mem' = Pages
      /\ \A p \in Pages \ {GdtrImage, Idt, Globals} : mem'[p] = mem[p]
      /\ mem'[Idt] = <<"idt", 0>>
  <2>1. Idt \in Pages /\ Idt # Globals
    BY Numbers, PagesAreInts
  <2>2. \A p \in Pages \ {GdtrImage} :
          Overlay(Page(GdtrImage, "gdtr", 0))[p] = mem[p]
    BY OverlayValue DEF Page
  <2> QED
    BY <2>1, <2>2, OverlayValue DEF LoadTables
<1> DEFINE W == {GdtrImage, Idt, Globals}
<1>3. Writes(W)
  BY <1>2 DEF Writes
<1>4. /\ \A k \in 0..13 : Visor + k \notin W
      /\ GdtStart \notin W /\ Gdt \notin W
      /\ MbrStart \notin W /\ MbrFinal \notin W
      /\ \A k \in 0..2 : GuestCR3 + k \notin W
      /\ 0 \notin W /\ \A p \in W : p \notin 160..255
  BY Numbers
<1> HIDE DEF W
<1>5. VmcbInPlace'
  <2>1. VmcbStart \in Pages \ W /\ \A k \in 1..3 : VmcbStart + k \in Pages \ W
    BY Numbers, PagesAreInts DEF W
  <2> QED
    BY <1>1, <1>3, <2>1 DEF Layout, VmcbInPlace, Entering, Writes
<1>6. TypeOK'
  <2>1. sti' \in BOOLEAN
    BY DEF LoadTables
  <2> QED
    BY <1>1, <1>3, <2>1
       DEF Layout, TypeOK, Writes, RealMode, VisorSteps, MoveSteps
<1>7. TablesInPlace'
  <2>1. GdtStart \in Pages /\ Gdt \in Pages
    BY Numbers, PagesAreInts
  <2>2. mem'[GdtStart] = mem[GdtStart] /\ mem'[Gdt] = mem[Gdt]
    BY <1>3, <1>4, <2>1 DEF Writes
  <2> QED
    BY <1>1, <1>2, <2>2
       DEF Layout, TablesInPlace, VisorSteps, MoveSteps, Moving, Entering
<1>8. ImageInPlace' /\ MbrInPlace' /\ GuestTablesInPlace' /\ BiosIntact'
  BY <1>1, <1>3, <1>4, ImageKept, MbrKept, GuestTablesKept, BiosKept
     DEF Layout, Loaded, RealMode, VisorSteps, MoveSteps, Entering, Moving
<1> QED
  BY <1>5, <1>6, <1>7, <1>8 DEF Layout

LEMMA MoveVmcbKeeps == Layout /\ MoveVmcb => Layout'
<1> SUFFICES ASSUME Layout, MoveVmcb PROVE Layout'
  OBVIOUS
<1>1. /\ pc = "move vmcb" /\ pc' = "move nested"
      /\ UNCHANGED registers
      /\ loaded' = loaded
  BY DEF MoveVmcb, Step, registers
<1>2. /\ Writes(Vmcb..(Vmcb + 31))
      /\ \A k \in 0..31 : mem'[Vmcb + k] = mem[VmcbStart + k]
  <2>1. /\ VmcbStart \in Int /\ Vmcb \in Pages /\ 31 \in Nat
        /\ Vmcb + 31 \in Pages /\ 32 = 31 + 1
    BY Numbers, PagesAreInts
  <2> QED
    BY <2>1, WriteCopies DEF MoveVmcb
<1> DEFINE W == Vmcb..(Vmcb + 31)
<1>3. Writes(W)
  BY <1>2
<1>4. /\ \A k \in 0..13 : Visor + k \notin W
      /\ GdtStart \notin W /\ Gdt \notin W /\ Idt \notin W
      /\ MbrStart \notin W /\ MbrFinal \notin W
      /\ \A k \in 0..2 : GuestCR3 + k \notin W
      /\ 0 \notin W /\ \A p \in W : p \notin 160..255
  BY Numbers
<1> HIDE DEF W
<1>5. VmcbInPlace'
  <2>1. /\ mem'[Vmcb + 0] = mem[VmcbStart + 0]
        /\ \A k \in 1..3 : mem'[Vmcb + k] = mem[VmcbStart + k]
    BY <1>2
  <2>2. Vmcb + 0 = Vmcb /\ VmcbStart + 0 = VmcbStart
    BY Numbers
  <2> QED
    BY <1>1, <2>1, <2>2 DEF Layout, VmcbInPlace, Entering
<1>6. TypeOK'
  BY <1>1, <1>3
     DEF Layout, TypeOK, registers, Writes, RealMode, VisorSteps, MoveSteps
<1>7. ImageInPlace' /\ TablesInPlace' /\ MbrInPlace' /\ GuestTablesInPlace'
      /\ BiosIntact'
  BY <1>1, <1>3, <1>4, ImageKept, TablesKept, MbrKept, GuestTablesKept,
     BiosKept
     DEF Layout, Loaded, RealMode, VisorSteps, MoveSteps, Entering, Moving
<1> QED
  BY <1>5, <1>6, <1>7 DEF Layout

LEMMA MoveNestedTablesKeeps == Layout /\ MoveNestedTables => Layout'
<1> SUFFICES ASSUME Layout, MoveNestedTables PROVE Layout'
  OBVIOUS
<1>1. /\ pc = "move nested" /\ pc' = "move host"
      /\ UNCHANGED registers
      /\ loaded' = loaded
  BY DEF MoveNestedTables, Step, registers
<1>2. /\ Writes(Nested..(Nested + 1))
      /\ \A k \in 0..1 : mem'[Nested + k] = mem[NestedStart + k]
  <2>1. /\ NestedStart \in Int /\ Nested \in Pages /\ 1 \in Nat
        /\ Nested + 1 \in Pages /\ 2 = 1 + 1
    BY Numbers, PagesAreInts
  <2> QED
    BY <2>1, WriteCopies DEF MoveNestedTables
<1> DEFINE W == Nested..(Nested + 1)
<1>3. Writes(W)
  BY <1>2
<1>4. /\ \A k \in 0..13 : Visor + k \notin W
      /\ GdtStart \notin W /\ Gdt \notin W /\ Idt \notin W
      /\ MbrStart \notin W /\ MbrFinal \notin W
      /\ \A k \in 0..2 : GuestCR3 + k \notin W
      /\ 0 \notin W /\ \A p \in W : p \notin 160..255
  BY Numbers
<1> HIDE DEF W
<1>5. VmcbInPlace'
  <2>1. Vmcb \in Pages \ W /\ \A k \in 1..3 : Vmcb + k \in Pages \ W
    BY Numbers, PagesAreInts DEF W
  <2> QED
    BY <1>1, <1>3, <2>1 DEF Layout, VmcbInPlace, Entering, Writes
<1>6. TypeOK'
  BY <1>1, <1>3
     DEF Layout, TypeOK, registers, Writes, RealMode, VisorSteps, MoveSteps
<1>7. ImageInPlace' /\ TablesInPlace' /\ MbrInPlace' /\ GuestTablesInPlace'
      /\ BiosIntact'
  BY <1>1, <1>3, <1>4, ImageKept, TablesKept, MbrKept, GuestTablesKept,
     BiosKept
     DEF Layout, Loaded, RealMode, VisorSteps, MoveSteps, Entering, Moving
<1> QED
  BY <1>5, <1>6, <1>7 DEF Layout

LEMMA MoveHostTablesKeeps == Layout /\ MoveHostTables => Layout'
<1> SUFFICES ASSUME Layout, MoveHostTables PROVE Layout'
  OBVIOUS
<1>1. /\ pc = "move host" /\ pc' = "fix"
      /\ UNCHANGED registers
      /\ loaded' = loaded
  BY DEF MoveHostTables, Step, registers
<1>2. /\ Writes(HostCR3..(HostCR3 + 4))
      /\ \A k \in 0..4 : mem'[HostCR3 + k] = mem[HostCR3Start + k]
  <2>1. /\ HostCR3Start \in Int /\ HostCR3 \in Pages /\ 4 \in Nat
        /\ HostCR3 + 4 \in Pages /\ 5 = 4 + 1
    BY Numbers, PagesAreInts
  <2> QED
    BY <2>1, WriteCopies DEF MoveHostTables
<1> DEFINE W == HostCR3..(HostCR3 + 4)
<1>3. Writes(W)
  BY <1>2
<1>4. /\ \A k \in 0..13 : Visor + k \notin W
      /\ GdtStart \notin W /\ Gdt \notin W /\ Idt \notin W
      /\ MbrStart \notin W /\ MbrFinal \notin W
      /\ \A k \in 0..2 : GuestCR3 + k \notin W
      /\ 0 \notin W /\ \A p \in W : p \notin 160..255
  BY Numbers
<1> HIDE DEF W
<1>5. VmcbInPlace'
  <2>1. Vmcb \in Pages \ W /\ \A k \in 1..3 : Vmcb + k \in Pages \ W
    BY Numbers, PagesAreInts DEF W
  <2> QED
    BY <1>1, <1>3, <2>1 DEF Layout, VmcbInPlace, Entering, Writes
<1>6. TypeOK'
  BY <1>1, <1>3
     DEF Layout, TypeOK, registers, Writes, RealMode, VisorSteps, MoveSteps
<1>7. ImageInPlace' /\ TablesInPlace' /\ MbrInPlace' /\ GuestTablesInPlace'
      /\ BiosIntact'
  BY <1>1, <1>3, <1>4, ImageKept, TablesKept, MbrKept, GuestTablesKept,
     BiosKept
     DEF Layout, Loaded, RealMode, VisorSteps, MoveSteps, Entering, Moving
<1> QED
  BY <1>5, <1>6, <1>7 DEF Layout

LEMMA FixAddressesKeeps == Layout /\ FixAddresses => Layout'
<1> SUFFICES ASSUME Layout, FixAddresses PROVE Layout'
  OBVIOUS
<1>1. /\ pc = "fix" /\ pc' = "vmrun"
      /\ UNCHANGED registers
      /\ loaded' = loaded
  BY DEF FixAddresses, Step, registers
<1>2. /\ DOMAIN mem' = Pages
      /\ \A p \in Pages \ {Nested, HostCR3, Vmcb, Globals} : mem'[p] = mem[p]
      /\ mem'[Vmcb] = <<mem[Vmcb][1], 1>>
  <2>1. /\ Nested # Vmcb /\ HostCR3 # Vmcb /\ Globals # Vmcb
        /\ {Nested, HostCR3, Vmcb, Globals} \subseteq Pages
    BY Numbers, PagesAreInts
  <2> QED
    BY <2>1 DEF FixAddresses, Layout, TypeOK
<1> DEFINE W == {Nested, HostCR3, Vmcb, Globals}
<1>3. Writes(W)
  BY <1>2 DEF Writes
<1>4. /\ \A k \in 0..13 : Visor + k \notin W
      /\ GdtStart \notin W /\ Gdt \notin W /\ Idt \notin W
      /\ MbrStart \notin W /\ MbrFinal \notin W
      /\ \A k \in 0..2 : GuestCR3 + k \notin W
      /\ 0 \notin W /\ \A p \in W : p \notin 160..255
  BY Numbers
<1> HIDE DEF W
<1>5. VmcbInPlace'
  <2>1. \A k \in 1..3 : Vmcb + k \in Pages \ W
    BY Numbers, PagesAreInts DEF W
  <2> QED
    BY <1>1, <1>2, <1>3, <2>1 DEF Layout, VmcbInPlace, Entering, Writes
<1>6. TypeOK'
  BY <1>1, <1>3
     DEF Layout, TypeOK, registers, Writes, RealMode, VisorSteps, MoveSteps
<1>7. ImageInPlace' /\ TablesInPlace' /\ MbrInPlace' /\ GuestTablesInPlace'
      /\ BiosIntact'
  BY <1>1, <1>3, <1>4, ImageKept, TablesKept, MbrKept, GuestTablesKept,
     BiosKept
     DEF Layout, Loaded, RealMode, VisorSteps, MoveSteps, Entering, Moving
<1> QED
  BY <1>5, <1>6, <1>7 DEF Layout

LEMMA EnterGuestKeeps == Layout /\ EnterGuest => Layout'
<1> SUFFICES ASSUME Layout, EnterGuest PROVE Layout'
  OBVIOUS
<1>1. /\ pc = "vmrun" /\ pc' = "guest"
      /\ UNCHANGED registers
      /\ loaded' = loaded
  BY DEF EnterGuest, Step, registers
<1>2. /\ DOMAIN mem' = Pages
      /\ \A p \in Pages \ {0, Video} : mem'[p] = mem[p]
      /\ mem'[Video] = <<"text", 2>>
  <2>1. 0 \in Pages /\ Video \in Pages /\ Video # 0
    BY Numbers, PagesAreInts
  <2> QED
    BY <2>1 DEF EnterGuest, Layout, TypeOK
<1> DEFINE W == {0, Video}
<1>3. Writes(W)
  BY <1>2 DEF Writes
<1>4. /\ \A k \in 0..13 : Visor + k \notin W
      /\ GdtStart \notin W /\ Gdt \notin W /\ Idt \notin W
      /\ MbrStart \notin W /\ MbrFinal \notin W
      /\ \A k \in 0..2 : GuestCR3 + k \notin W
      /\ \A p \in W : p \notin 160..255 \ {184}
  BY Numbers
<1> HIDE DEF W
<1>5. VmcbInPlace'
  <2>1. /\ Vmcb \in Pages \ {0, Video}
        /\ \A k \in 1..3 : Vmcb + k \in Pages \ {0, Video}
    BY Numbers, PagesAreInts
  <2> QED
    BY <1>1, <1>2, <2>1 DEF Layout, VmcbInPlace, Entering
<1>6. TypeOK'
  BY <1>1, <1>3
     DEF Layout, TypeOK, registers, Writes, RealMode, VisorSteps, MoveSteps
<1>7. ImageInPlace' /\ TablesInPlace' /\ MbrInPlace' /\ GuestTablesInPlace'
      /\ BiosIntact'
  BY <1>1, <1>2, <1>3, <1>4, ImageKept, TablesKept, MbrKept,
     GuestTablesKept, BiosPrinted
     DEF Layout, Loaded, RealMode, VisorSteps, MoveSteps, Entering, Moving
<1> QED
  BY <1>5, <1>6, <1>7 DEF Layout

LEMMA LayoutStep == Layout /\ [Next]_vars => Layout'
<1> SUFFICES ASSUME Layout, [Next]_vars PROVE Layout'
  OBVIOUS
<1>1. ASSUME UNCHANGED vars PROVE Layout'
  <2>1. UNCHANGED <<pc, mem, gdtr, idtr, sti, loaded>>
    BY <1>1 DEF vars, registers
  <2>2. TypeOK'
    BY <2>1 DEF Layout, TypeOK
  <2>3. ImageInPlace'
    BY <2>1 DEF Layout, ImageInPlace, VisorRunsItsImage
  <2>4. TablesInPlace'
    BY <2>1 DEF Layout, TablesInPlace
  <2>5. MbrInPlace' /\ BiosIntact'
    BY <2>1 DEF Layout, MbrInPlace, BiosIntact, Ram
  <2>6. VmcbInPlace' /\ GuestTablesInPlace'
    BY <2>1 DEF Layout, VmcbInPlace, GuestTablesInPlace
  <2> QED
    BY <2>2, <2>3, <2>4, <2>5, <2>6 DEF Layout
<1>2. CASE Next
  BY <1>1, <1>2, LoadStartKeeps, LoadVisorKeeps, LoadMbrKeeps, StartKeeps,
     RelocateDosMBRKeeps, SetupGDTsKeeps, SetupVMCBKeeps,
     EnableProtectedModeKeeps, MainKeeps, CopySegment0Keeps,
     SetupGuestPagesKeeps, ClearIOPMKeeps, LoadTablesKeeps, MoveVmcbKeeps,
     MoveNestedTablesKeeps, MoveHostTablesKeeps, FixAddressesKeeps,
     EnterGuestKeeps
     DEF Next, BootLoader, StartModuleRuns, VisorRuns, Stopped
<1> QED
  BY <1>1, <1>2

LEMMA LayoutHolds == Spec => []Layout
<1> QED
  BY LayoutInit, LayoutStep, PTL DEF Spec

-----------------------------------------------------------------------------
(* The boot's variables have their types.                                   *)
THEOREM BootTypeCorrect == Spec => []TypeOK
<1>1. Layout => TypeOK
  BY DEF Layout
<1> QED
  BY <1>1, LayoutHolds, PTL

(* Interrupts find their tables from MoveStuff's STI on, during all the     *)
(* copies that follow it (visor.c:146-194).                                 *)
THEOREM TablesReachable == Spec => []TablesBehindRegisters
<1>1. Layout => TablesBehindRegisters
  <2> SUFFICES ASSUME Layout PROVE TablesBehindRegisters
    OBVIOUS
  <2>1. sti => pc \in VisorSteps \ {"main"}
    BY DEF Layout, TablesInPlace, Moving, Entering, VisorSteps, MoveSteps
  <2>2. sti => mem[gdtr] = <<"gdt", 1>> /\ mem[idtr] = <<"idt", 0>>
    BY <2>1 DEF Layout, TablesInPlace
  <2>3. sti => mem[gdtr][1] = "gdt"
    BY <2>2
  <2>4. ~sti /\ pc \in VisorSteps => mem[gdtr][1] = "gdt"
    BY DEF Layout, TablesInPlace
  <2> QED
    BY <2>2, <2>3, <2>4 DEF TablesBehindRegisters
<1> QED
  BY <1>1, LayoutHolds, PTL

(* No table is built or copied over the part of the visor that the disk     *)
(* delivered (start.c:606-704, visor.c:119-194).                            *)
THEOREM ImageSurvives == Spec => []VisorRunsItsImage
<1>1. Layout => VisorRunsItsImage
  BY DEF Layout, ImageInPlace
<1> QED
  BY <1>1, LayoutHolds, PTL

(* The guest boots what the boot loader read into 6000:7C00 (visor.c:519).  *)
THEOREM GuestGetsMbr == Spec => []GuestBootsMbr
<1>1. Layout => GuestBootsMbr
  BY DEF Layout, MbrInPlace, GuestBootsMbr, VisorSteps
<1> QED
  BY <1>1, LayoutHolds, PTL

(* At VMRUN the VMCB, its I/O permission map and the guest's page tables    *)
(* are where the VMCB says (visor.c:119-194, guest.c:30-73).                *)
THEOREM GuestStateInPlace == Spec => []GuestStateComplete
<1>1. Layout => GuestStateComplete
  BY DEF Layout, VmcbInPlace, GuestTablesInPlace, GuestStateComplete, Entering,
         Moving
<1> QED
  BY <1>1, LayoutHolds, PTL

(* Nothing but the text screen changes in the BIOS's memory, and before     *)
(* VMRUN none of the interrupt vectors (visor.c:90, 163, 205, 224, 539).    *)
THEOREM BiosKeeps == Spec => []BiosIntact
<1>1. Layout => BiosIntact
  BY DEF Layout
<1> QED
  BY <1>1, LayoutHolds, PTL
=============================================================================
