# vmmeow: a verification project

vmmeow is a small AMD-SVM hypervisor ("visor"). A boot sector loads a 16-bit
start module and a 32-bit visor; the start module builds the tables and the
VMCB, switches to protected mode and enters the visor; the visor relocates
everything, enters one guest (the DOS boot sector of the same disk) with VMRUN
and from then on serves the guest's exits. These modules model that program,
check the models with TLC and prove the main invariants with TLAPS. Paths below
are relative to the repository.

## The system

| Component | State | Operations | Correct when |
|---|---|---|---|
| Boot loader (`bootloader.c`) | memory, disk | three INT 13h reads | what was read ends up where the later parts look for it |
| Boot and memory layout (`start.c`, `visor.c` main/MoveStuff/CopySegment0, `paging.c`, `pmode.c`) | memory, GDTR, IDTR | table building, copies to 0x600000..0x850000 | no copy runs over what a later step needs; tables are behind the registers before STI |
| Host interrupts and world switch (`visor.c`, `isr_wrapper.asm`) | 8259 masks, ISR/IRR, segments, register save areas, `ticks`, `scancode` | handlers, STI, VMLOAD/VMRUN/VMSAVE, save and restore | every tick the 8259 keeps is counted once, each world keeps its registers, every interrupt is ended |
| Main loop (`visor.c` VisorLoop, `guest.c` HandleRealModeSWInterrupt) | VMCB: RIP, NRIP, EXITCODE, EXITINTINFO, EVENTINJ, clean bits; guest registers | one case per exit code | an event keeps what it is and is answered exactly once |
| Port I/O (`guest.c` HandleGuestIO) | the latch `IOPortInValue`/`Set`, CMOS index | IN, OUT | the guest reads the pretended memory size, and its own data from all else |
| Guest page tables, nested tables (`guest.c` SetupGuestPages, `start.c` SetupPaging, `visor.c` MoveStuff, `utility.c` TranslateGuestPhysicalAddress) | directories and tables, CR3 | build, move, repair, translate by hand | guest and host reach their own memory, the guest never the tables, and the visor the page the guest means |
| Guest stack (`guest.c` INT and IRET by hand) | guest stack, CS, IP, SP, FLAGS | push and pop of an interrupt frame | IRET undoes INT, for any nesting |
| Control registers, ModRM (`guest.c`) | CR0/CR3 shadows, register file | read and write by register number | each number reaches its register; the guest's directory stays where the visor looks for it |
| Screen (`screen.c`, the strings of `visor.c`) | cursor, video memory | put, scroll, clear | the latest exit, the last words and the report of an exception can be read |
| VMCB accessors (`utility.c`) | a temporary | Get/Set in three widths | a store has the width of its field |
| Log (`logging.c`), rest of the algorithms (`utility.c`) | - | no caller | - |

The parts meet in five places. The boot hands over *memory* (BootMemory) and
*interrupt state* (HostInterrupts) to the loop; the loop and the guest share the
VMCB (VisorLoop); the interrupt handlers and the loop share segment registers
and the register save areas (HostInterrupts); the exit handlers share the
guest's RIP, SP, CS and registers (GuestHandlers), and reach its memory by a
translation that depends on CR3 (Paging; GuestHandlers' `PagingIdle` is what
that translation relies on); an exception in the visor shares the cursor with
what it breaks into (Screen). There are no threads: concurrency
is interrupts before the first VMRUN, and the processor's event delivery across
#VMEXIT afterwards. Nothing is persisted, so there is no recovery; partial
failure is a disk read that stops. PROJECT.json lists the hazards line by line.

Build products, editor backups and superseded files (`_start.c`, `start.c~`,
`visor.c.old`, `isr_wrap*.asm`, `visor.map`) are not modelled; two of them are
used as evidence for layout constants (below).

## Modules

| Module | Models | Proofs |
|---|---|---|
| `VisorLoop` | the main loop, exit by exit | `VisorLoop_proofs` |
| `GuestView` | what the loop promises the guest (abstract) | `GuestView_proofs` |
| `GuestIO` | HandleGuestIO and the CMOS behind it | `GuestIO_proofs` |
| `HostInterrupts` | 8259s, handlers, STI to VMRUN, world switch | `HostInterrupts_proofs` |
| `BootMemory` | physical memory from the boot sector to VMRUN | `BootMemory_proofs` |
| `Paging` | the three sets of page tables, their move, the translation by hand | `Paging_proofs` |
| `GuestStack` | INT and IRET by hand beside the processor's delivery | with `GuestHandlers` |
| `GuestHandlers` | GuestStack composed with the control register exits and the register file | `GuestHandlers_proofs` |
| `Screen` | cursor, video memory, every string the visor writes, Itoa | `Screen_proofs` |
| `MC...` | the small instances TLC checks | - |

A definition called a *slip* is a faulty variant of the action that follows it.
No specification uses one; they are there to confirm that each property can
fail.

### VisorLoop and GuestView

The variables are the VMCB fields the loop reads or writes (`rip`, `nrip`,
`regs`, `exit`, `inj`, `clean`), where the processor is (`phase`), the kind of
the guest's next instruction (`insn`), and two auxiliaries: `cause`, the guest
event that still has to be answered, and `frame`, the frame the last delivery
pushed. The guest and the processor are the environment (GuestRuns, GuestInt,
GuestFaults, ExternalInterrupt, VMRUN's delivery, ...); each case of the switch
is one action (EmulateInt, InjectInt, ReflectGP, ReflectException, HandleHLT,
HandleNPF, HandleCR0Write, InfiniteLoop). The host side of an exit runs with
GIF = 0, so it is one step.

Addresses are pairs of a high part and a word, because the code stores RIP by
words (`SetVMCBW`) and subtracts 2 from a word (`visor.c:475`); `W` is the size
of a word, `H` the number of 64K blocks. Registers are abstracted to what the
emulated BIOS calls look at and return.

GuestView says what the guest sees: an INT is served, delivered or reported as
#GP at the INT, exactly once, and nothing else interrupts the guest. VisorLoop
implements it: the guest's instruction pointer is the cause's address while an
event is pending, and RIP otherwise. `RefinesGuestView` is the safety half of
this, `EveryEventAnswered` the liveness half, what the guest asks for it gets in
the end, read through the same mapping. `AnswerSettled` says that who answers an
INT depends on the registers at the INT alone: it stays settled while the event
goes through further exits, and what the visor returns in the registers asks for
no second answer.

### GuestIO

The latch, the guest's EAX as four byte lanes, the index register and cells of
the real CMOS, other devices' ports. `believed`, `selected` and `ready` record
what the guest is entitled to: the cell contents it wrote, the cell it selected,
and whether it has accessed that cell yet. `Paired` restricts the guest to
selecting a cell before each access.

### HostInterrupts

One action per stretch of straight-line code between two points at which an
interrupt can make a difference (SetupPIC, Unmask, Main, MoveStuff,
EnterVisorLoop, VMLOAD, LoadGuest, VMRUN, SaveGuest, Handle), the three handlers
(the gates are interrupt gates, so each is one step), and a guest that takes and
ends interrupts itself. The 8259 pair has request, service and mask registers
with fixed priorities and cascading through IRQ 2. A line may be raised at any
time, before SetupPIC and while its request is latched as well; `dropped` counts
the timer's edges the 8259 does not keep then, and those ICW1 forgets. Two loops
end the visor: "lost" is host_isr_handler's, entered with CLI and without an EOI,
so the interrupt stays in service (`HostISR`); "stuck" is InfiniteLoop's, entered
with GIF = 0 from an exit the switch gives up on (`visor.c:421`, `:493`, `:498`,
`:514`). The segment registers FS and GS are abstracted to what they address
("open", "visor", "guest", "null"). `left` and `hostLeft` record what each world
should find after the switch.

### BootMemory

Memory maps 4 KB pages to <<kind, number>>; a structure smaller than a page
stands for the page it begins in. One action per call or copy, in the order of
the code, from the boot loader's reads to VMRUN: the processor has no choice, but
every INT 13h read may deliver all, some or none of its sectors, as no result is
looked at. VerifySVM returns 0 at its first line (`utility.c:43`), so main never
halts where SVM is missing. `Video` is the page of the text screen: start.bin's
halt (`start.c:691`), Print (`visor.c:90`) and monitor_clear and monitor_write_at
(`visor.c:209`, `:224`) store in it. What the actions have to get right is what
overlaps: MoveVisor copies 0x50000 bytes and with them GDT, MBR
and page tables to 0x800000; the final GDT lies inside that image; the VMCB copy
takes the E820 map with it; 18K are cleared where the I/O map has 12K; two stores
meant for the visor's variables go to their offsets in low memory, because DS is
open at that point (`visor.c:163`, `visor.c:191`).

Constants from outside the sources: `Globals` = 4 is the page of those variables
by `visor.map`; `MemMap` = 60 is the value of `INT15_MEMORY_MAP`, whose header
`cross.h` is not in the repository, in the preprocessed `_start.c:901`.
`ImagePages` = 5 is the length of the shipped `visor.bin`. The theorems hold for
every value `BootMemoryAssumption` admits: `Globals` may be any page of the image
but the first and the boot sector's, on which the two stores would hit the
interrupt vectors or the sector.

The comparison of `start.c:689` looks at one dword, so an image that is cut off
after its first page is entered: the model calls that "lost" and claims nothing
after it.

### Paging

Memory is the frames that hold tables, each a function from entries to page
numbers; `E` entries make a table, so the twelve-entry instance has the shape of
the 1024-entry tables. SetupPaging (`start.c:367`), SetupGuestPages
(`guest.c:30`) and the move in MoveStuff (`visor.c:173-194`) are one action each;
the tables that stay below 1 MB are in the guest's memory, and GuestWrites may
store in any frame that the guest can reach. `Walk` is the processor's two-level
walk, TranslateGuestPage the visor's: it indexes the tables after CR3 linearly
and never looks at a directory.

The call of SetupPaging is commented out (`start.c:114`) although SetupVMCB turns
nested paging on. Paging includes the call, to say what the tables are once it
runs; BootMemory leaves it out, as the code does.

### GuestStack and GuestHandlers

The state is the guest's CS (selector and base, because the code writes only the
base), RIP, RSP and FLAGS, and the words on its stack by linear address. `frames`
records for each interrupt in service where it came from. An interrupt is made
either by UpdateGuestForSoftwareInterrupt, with its word-wide bases and its
offsets added to the linear address, or by the processor, which pushes the
selector and lets SP wrap after each word; the routine it calls pushes, pops,
jumps and changes flags, and leaves by the emulated IRET.

GuestHandlers adds the control register exits. `GuestRegisters` has the slots of
the world switch (`Saved`, `visor.c:252-274`), `Slot` those the ModRM accessors
use, and `held` records what the guest left in each register. Dwords are pairs of
words, because SMSW stores a word: into the VMCB for EAX, which keeps the upper
half, and as a zero-extended dword for every other register. HandleCR0Write
returns before its body (`guest.c:508`), so all it does is what the dispatcher did
before the call.

`Careful` keeps the guest from two things the hand-made INT breaks: an injected
INT while CS's selector is stale, and a frame that straddles the end of the
segment. ESP is not among the operands (`guest.c:484` stores into RIP). Both are
listed as hazards.

### Screen

The state is the cursor and the cells written; one action writes one string
(`VisorWrites`, which looks up the string that is due in `Write`), and
HostException cuts a string off after any number of characters and starts the
report of host_isr_handler. `trap` is the frame the exception left on the stack;
`ExcCS` and `ExcIP` are what _isr_common takes from it before it looks whether
there is an error code (`isr_wrapper.asm:23-26`): of a #GP or #PF they are EIP and
the error code, and `ReportShown` says so. A double fault is not among the traps:
vector 8 leads to the timer's wrapper (`pmode.c:56`). A HLT ends the visor only
with IF = 0; with IF = 1 the guest goes on (`visor.c:488`). The characters of a literal are its name and a
number; digits are digits, computed by Itoa as the code does and read back in the
properties by place value. `MaxDword` is the largest number there is, of at most
32 bits. `Over` lays cells over others, `Run` is a stretch of text on one row,
`PutAll` a text that may go on at the next. The wrap at column 160 and the
scrolling by half a row are as in `screen.c`; `TypeOK` says that neither is ever
reached.

## Runs

| Run | Question | Bounds |
|---|---|---|
| `visor_loop` | with the VMCB SetupVMCB builds: types, event integrity, refinement of GuestView, every event answered, HLT wakes | `W` = 4, one 64K block, INT 13h/15h/21h, one IRQ, #GP with and without selector and #UD |
| `visor_loop_intercepts` | the same event integrity, its inductive invariant, and that answers stay settled, with the intercepts `start.c` has commented out | two 64K blocks |
| `visor_loop_edd` (violation) | is only AH=08h emulated, as `visor.c:352` says? | |
| `visor_loop_clean` (violation) | does an emulated INT mark CS changed, as `visor.c:360` says? | |
| `guest_io` | what a guest that selects and then accesses each cell once reads | 2 ports, 2 ordinary cells, 2 byte values, 1- and 2-byte accesses |
| `host_interrupts` | ticks counted once, worlds kept, control kept, every interrupt served unless the visor gives up, the guest started | timer and keyboard, each raised twice; only the timer between first VMLOAD and VMRUN |
| `host_interrupts_lost` | to which interrupts control is lost, and that the worlds are kept whatever is raised | IRQs 0, 1, 6, 14 at any time before VMRUN, each once |
| `host_interrupts_key` (violation) | is GS still the visor's, as `visor.c:216` says? | a key between VMLOAD and VMRUN |
| `boot_memory` | the five layout properties | every cut of every read |
| `paging` | nested and host tables map their own memory and stay out of the guest's reach; the translation by hand is the processor's walk | 12 entries a table, one guest table, two host tables, 2 values the guest writes |
| `guest_handlers` | frames kept, IRET undoes INT, registers agree, directory kept | two interrupts in service, one pushed word each, SP from 8 so that it wraps, 2 code addresses, EAX and ESI |
| `screen` | status line, last words and exception report readable | two exits of every kind, numbers of 1 to 8 digits, real mode and protected mode with paging, an exception with or without an error code after any character |

Why the bounds are enough. A word of 4 values has every case of the carry: an INT
may end inside a word, at its end and across it, and with two blocks the
carry leaves the word or is lost. More vectors or handlers only rename. One
pending event is all the VMCB can hold, so no queue is cut off. In GuestIO the
latch holds one byte, two ordinary cells distinguish "this" from "another". In
HostInterrupts an 8259 line latches one request, so raising each line twice
covers a request while one is in service and an edge that is dropped; `MaxRaised` is the only bound on a
counter. IRQs 6 and 14 stand for the master's and the slave's lines that end in
`host_isr_handler`. BootMemory has no bound: pages and steps are the code's.
Paging needs two host tables and a second guest directory entry to show the loops
that run one entry too far. In GuestHandlers two frames show that the inner one
does not touch the outer, and one slot register stands for the others, as `Slot`
and `Saved` differ or agree for each alone. In Screen a line leaves behind at
most what an earlier one wrote, so two exits in either order show each pair.

`CHECK_DEADLOCK FALSE` is set for VisorLoop and Screen: InfiniteLoop
(`visor.c:820`) and host_isr_handler (`visor.c:747`) stop the machine.

### Fairness

`VisorLoop` assumes weak fairness of VMRUN and of the dispatcher, which are
straight-line code without a wait; that the guest goes on executing; and strong
fairness of interrupts, because the timer keeps ticking and a halted guest has
interrupts enabled only between its entries. `HostInterrupts` assumes that the
processor goes on, that the guest does not keep interrupts off for ever and that
it finishes its handlers, again strongly, since exits interrupt it. The other
modules are checked for safety only: nothing in them waits.

### What the violations show

* INT 13h with AH=18h, 48h and so on is answered as AH=08h: the mask at
  `visor.c:353` looks at the low digit only.
* `0xFEFF` is ORed into clean bits that are all ones already: SEG is never marked
  changed (`visor.c:360`).
* The first VMLOAD replaces GS, and the keyboard handler stores through it
  (`visor.c:226`).

Observations without a run, each met while modelling and each excluded by a named
assumption or left visible in a model:

* EXITINTINFO's V bit does not say that an *interrupt* was being delivered
  (`visor.c:470-471`): a #GP raised by an exception's gate loses its own error
  code, and RIP is moved back two bytes. `OnlyIntGatesFault` excludes it.
* The latch of port 71h outlives the selection it belongs to (`guest.c:614`,
  against the comment at `guest.c:622`). `Paired` excludes it.
* SetupPaging is not called (`start.c:114`) but nested paging is on: BootMemory's
  guest starts with a nested table that is what RAM held.
* The loops at `start.c:400` and `visor.c:179` make one directory entry more than
  the guest has tables: beyond 4 MB its accesses go through a page nothing was
  stored in. The last host entry, at `visor.c:182`, is not repaired.
* The translation by hand does not follow the guest's directory
  (`utility.c:229`); HandIsHardware therefore asks for tables laid out as
  SetupGuestPages does.
* INT and IRET by hand leave CS's selector as it was (`guest.c:180`, `:278`).
* The report of an exception with an error code shows EIP where CS
  should stand, and the error code where IP should (`isr_wrapper.asm:23-26`); a
  double fault is taken for a timer interrupt (`pmode.c:56`). HostInterrupts raises
  no exceptions but that of a store through a null GS.
* The digits of an older, longer line stay behind the last number of the status
  line (`visor.c:315`), and a line from column 1 stays before one from column 20.
* monitor_put wraps at 160 columns where the comment at `screen.c:22` says 80, and
  scroll moves the upper half of the screen by half a row (`screen.c:45`); no
  string of the visor gets there. Print stores the low byte of the pointer
  (`utility.c:81`).
* SetupVMCB leaves EVENTINJ to what RAM held (`start.c:442`); VisorLoop takes the
  set of its possible contents as the constant `InitialInj`, and the runs start
  from zero. Every byte after the first of a word or dword OUT is sent as 0
  (`guest.c:655`); ForwardOut does that. The masks of `start.c:657-658` do not
  enable what the comment beside them says; nothing is lost, as all lines are
  unmasked a few lines later.

## Proofs

All theorems hold for every value of the constants that the modules' assumptions
admit. Where a theorem needs more, its statement says so.

* **VisorLoop_proofs.** `TypeCorrect`: `TypeOK` is inductive. `EventInductive`,
  under `VmcbZeroed`, `OnlyIntGatesFault` and `ReinjectedOnly`: `IInv`, which says
  for each exit code and for each pending injection which event the guest is owed
  and where RIP stands relative to it. EventIntegrity alone is not inductive: that
  a #GP is reported at the INT depends on what EXITINTINFO held one exit earlier
  and on where the word-wide skip left RIP. `EventIntegrityHolds` follows.
  `MinusUndoesSkip` is the word arithmetic of `visor.c:475`; `AnswerIsFinal` says
  that a call the dispatcher emulates is never injected as well. The three
  assumptions exclude the violations above.
* **GuestView_proofs.** `VisorImplementsGuestView`: under the same assumptions and
  `RealMode`, every initial state of VisorLoop is one of GuestView, and every step
  is one of its steps or a stutter, for every set of calls, vectors, handlers and
  faults. One lemma per step of GuestView says which steps of the loop it stands
  for; one per action of the loop puts them together. Two invariants carry it: IInv
  gives the event that is owed and where RIP stands, and `AnswerSettled`, proved
  first (`AnswerStaysSettled`), that the INT which is injected is none of those the
  visor serves. `RealMode` is `H` = 1: the guest's code lies in one 64K block, as
  IP does in real mode. Across blocks the word-wide skip is not the
  processor's, so the guest does not go on behind its INT.
* **GuestIO_proofs.** `IOTypeCorrect`; `LatchInvariant`: the latch is armed
  exactly while a size cell waits to be read, and the real CMOS is what the guest
  believes it is; `ReadsOwedHold`, under `Paired`, an action property that follows
  from it: what a read returns depends on the latch before the step.
* **HostInterrupts_proofs.** `HITypeCorrect`, `KeptTicksCounted` (every edge of
  the timer was dropped by the 8259, has been counted once or is still latched),
  `WorldsKept` (needs that GIF is 0 from #VMEXIT to the next STGI, so that no
  handler runs with half of the registers exchanged). `LossExplained`: which
  interrupts the visor loses control to, for any interrupts at any time; `BootInv`
  says for it at which points of the boot interrupts are on, that nothing is in
  service or masked there, and that GS is null only behind the first VMLOAD and
  after a tick.
  `GuestMemoryKept`: no handler stores through the guest's GS if no key is pressed
  between the first VMLOAD and the first VMRUN (`NoKeyInWindow`), whatever
  else is raised and for ever after. `MemoryInv` adds what that needs: a key
  pressed earlier is taken before the VMLOAD, since by then nothing is masked or in
  service, and behind VMRUN no handler of the visor runs.
  `ControlKept`: NeverLost, under `OnlyTimerInWindow`, for the other interrupts
  end in the exception loop.
* **BootMemory_proofs.** `Layout` says for each point of the boot what the pages
  hold that a later step reads: the image at 0x50000 until it is moved and at
  0x800000 afterwards, each GDT, the boot sector in its first and last place, the
  VMCB before and after its move. The properties are not inductive, since they
  speak of the end of the boot. `WriteBlock`, `WritePage`, `WriteCopies` say what
  a table or a copy does to memory; one lemma per structure says that a step which
  spares its pages keeps it; one lemma per action shows which pages it spares.
  The theorems are `BootTypeCorrect`, `TablesReachable`, `ImageSurvives`,
  `GuestGetsMbr`, `GuestStateInPlace` and `BiosKeeps`: of the BIOS's memory only
  the text screen is written, and the interrupt vectors not before VMRUN.
* **Paging_proofs.** The invariant says for each point of the boot what the
  frames hold: the tables as built, then the moved directories with their repaired
  entries, and that no frame the guest can write is among the moved ones. From it
  follow `NestedTablesHold`, `HostTablesHold` and `HandTranslation`, for every
  table size and every placement the module's assumption admits, and
  `PagingTypeCorrect`. The properties alone are not inductive: they speak of walks,
  a step changes frames.
* **GuestHandlers_proofs.** `HandlersTyped` needs no more than the module's
  assumptions. The others assume `Sound`: the guest is `Careful`, its stack and
  code lie below 64K, where the word-wide bases are exact, and SP has room for
  `MaxDepth` frames and does not wrap (the run lets it wrap, so it goes further
  there). FramesKept is not inductive: that a push leaves the outer frames alone
  needs that frames lie one below the other and that SP stands at or below the
  innermost, which the strengthened invariant adds. `FramesHold` is proved one
  action at a time, `IretUndoesInt` from it: the frame IRET reads is the innermost.
  `RegistersHold` needs that below 64K the ModRM byte is fetched from the right
  place; `PagingStaysIdle` that the paging flag is never set, since the only
  handler that would returns early.
* **Screen_proofs.** `ItoaPlaces`: Itoa writes the digits of every number up to
  `MaxDword`, most significant first and no leading zero. The division by 16 ends
  after eight calls at the latest, so its equation is solved by unrolling (`Digits`
  is what `DeepCalls` builds up) and needs no induction. A line is a list of texts,
  each of which ends before the next begins (`Ascending`); `Spared` says that a
  string changes none but its own cells, `Stands` that it can be read there.
  `ScreenInvariant`: the cursor is where the string that is due expects it, and
  what was written of the line so far stands (`StatusDue`, `ReasonDue`, `ToiletDue`,
  `ReportDue`). From it follow `ScreenTypeCorrect`, `StatusAlwaysShown`,
  `LastWordsAlwaysShown` and `ReportAlwaysShown`, for all exit codes, EXITINFOs,
  control registers, traps and numbers of exits. The properties alone are not
  inductive: they speak of the moment a line is complete.

Only model-checked: the liveness properties (EveryEventAnswered, HaltedGuestWakes,
EveryIrqServed, VisorStartsGuest), which need fairness and ENABLED. Every
invariant and every action property of the passing runs is a theorem, each under
the assumptions its statement names.

## Not modelled, and the plan

Modelled: VisorLoop with GuestView, GuestIO, HostInterrupts, BootMemory, Paging,
GuestStack with GuestHandlers, Screen.

Left out, and why: `logging.c`, lbaToCHS, chsToLBA, the bit array, Sleep and Wait
have no caller. GuestInt13Handler's call is commented out (`guest.c:101`), so its
bookkeeping of disk transfers is dead; the hand-made INT it ends with is modelled.
HandleGuestPagingException returns at its first line (`guest.c:807`), and the code
behind `return` in PopCSIPFlagsOffGuestStackReal16 (`guest.c:188`), HandleCR0Write
and the exception case (`visor.c:480`) cannot be reached. ChangeMappingTableEntries
and GuestExceptionHandler have no live caller. The compiler's 16-bit helpers,
`print_string`, texts and colours, and the processor's own descriptor checks, which
appear only as faults the environment may raise, are out of scope.

Next: compose the common steps of BootMemory and HostInterrupts, so that a handler
is shown to find the image, the stack and the tables it runs on at every point of
the move at which interrupts are on.
