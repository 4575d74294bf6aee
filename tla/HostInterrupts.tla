--------------------------- MODULE HostInterrupts ---------------------------
(***************************************************************************)
(* Interrupts while the visor runs, and the switch between the two worlds:  *)
(* the 8259s, the path from EnableProtectedMode to the first VMRUN, which   *)
(* runs with interrupts enabled from MoveStuff's STI on, and the round      *)
(* trips of VisorLoop, which run with GIF = 0.  The visor's gates are       *)
(* interrupt gates, so a handler is one step.                               *)
(***************************************************************************)
EXTENDS Integers

CONSTANTS
  Early,            \* IRQs raised before VisorLoop's first VMLOAD
  Window,           \* IRQs raised between that VMLOAD and the first VMRUN
  Late,             \* IRQs raised after it
  MaxRaised,        \* bound: how often each IRQ is raised
  RegFiles          \* contents of EBX, ECX, EDX, ESI, EDI and EBP

IRQs == 0..15
Timer == 0
Keyboard == 1

ASSUME HostInterruptsAssumption ==
  /\ Early \subseteq IRQs /\ Window \subseteq IRQs /\ Late \subseteq IRQs
  /\ MaxRaised \in Nat
  /\ RegFiles # {}

VARIABLES
  pc,               \* what the processor executes
  entered,          \* auxiliary: the guest has run
  ie, GIF,          \* RFLAGS.IF and the global interrupt flag
  fs, gs,           \* what FS and GS address: "open", "visor", "guest", "null"
  regs,             \* the general registers
  HostRegisters, GuestRegisters,
  hsave, guestIF,   \* the host's and the guest's IF while the other runs
  irr, isr, imr,    \* the 8259s: requests, in service, masked
  ticks, scancode,  \* the visor's variables
  guestTicks,       \* auxiliary: timer interrupts the guest has taken
  guestIsr,         \* auxiliary: interrupts whose handlers the guest is in
  raised,           \* auxiliary: how often each IRQ was raised
  dropped,          \* auxiliary: timer edges the 8259 did not keep
  intact,           \* auxiliary: no handler of the visor wrote guest memory
  left,             \* auxiliary: registers the guest is to find
  hostLeft          \* auxiliary: registers the visor is to find

requests == <<irr, dropped>>
pic == <<requests, isr, imr, raised>>
flags == <<ie, GIF>>
saved == <<hsave, guestIF>>
taken == <<guestTicks, guestIsr>>
segments == <<fs, gs>>
world == <<regs, HostRegisters, GuestRegisters, left, hostLeft>>
handlers == <<ticks, scancode, intact>>
vars == <<pc, entered, taken, flags, saved, pic, segments, world, handlers>>

Booting == {"pmode", "masked", "main", "move", "enter", "vmload"}
Switching == {"load", "vmload2", "vmrun"}
Returning == {"vmsave", "handle"}
Loops == {"lost", "stuck"}      \* of host_isr_handler and of InfiniteLoop
Locations == Booting \cup Switching \cup Returning \cup Loops \cup {"guest"}
-----------------------------------------------------------------------------
(* The 8259s.  A slave request reaches the master as IRQ 2.                 *)

Level(i) == IF i >= 8 THEN 2 ELSE i

Before(i, j) == Level(i) < Level(j) \/ (Level(i) = Level(j) /\ i < j)

INTR(i) ==
  /\ i \in irr \ imr
  /\ \A j \in isr : Level(i) < Level(j)
  /\ \A j \in (irr \ imr) \ {i} : Before(i, j)

Quiet == \A i \in IRQs : ~INTR(i)

Highest == {j \in isr : \A k \in isr \ {j} : Before(j, k)}

Acknowledge(i) == irr' = irr \ {i} /\ isr' = isr \cup {i}

\* An edge on a line whose request is already latched leaves no trace.
RaiseIrq(i) ==
  /\ raised[i] < MaxRaised
  /\ i \in IF entered THEN Late ELSE IF pc \in Switching THEN Window ELSE Early
  /\ irr' = irr \cup {i}
  /\ dropped' = dropped + (IF i = Timer /\ i \in irr THEN 1 ELSE 0)
  /\ raised' = [raised EXCEPT ![i] = @ + 1]
  /\ UNCHANGED <<pc, entered, flags, saved, isr, imr, taken, segments,
                 world, handlers>>
-----------------------------------------------------------------------------
(* The visor's interrupt handlers.                                          *)

\* The visor accepts i.
Accept(i) ==
  /\ pc \notin Loops \cup {"guest"} /\ ie /\ GIF /\ INTR(i)
  /\ UNCHANGED <<imr, raised, dropped, entered, GIF, saved, taken, world>>

\* The handler ends i with OUT 20h.
Serve(i) ==
  /\ Accept(i)
  /\ irr' = irr \ {i}
  /\ UNCHANGED <<isr, ie>>

\* CLI and an endless loop: i is never ended.
HostISR(i) ==
  /\ Accept(i) /\ Acknowledge(i)
  /\ pc' = "lost" /\ ie' = FALSE
  /\ UNCHANGED <<segments, handlers>>

\* Slip: the interrupt is not ended.
TimerNoEoi ==
  /\ Accept(Timer) /\ Acknowledge(Timer)
  /\ ticks' = ticks + 1
  /\ gs' = IF gs = "visor" THEN "visor" ELSE "null"
  /\ UNCHANGED <<pc, ie, fs, scancode, intact>>

\* Slip: the timer's gate leads to the exception handler.
TimerLost == HostISR(Timer)

\* Slip: the request stays pending.
TimerTwice ==
  /\ Accept(Timer)
  /\ ticks' = ticks + 1
  /\ UNCHANGED <<pc, ie, segments, scancode, intact, irr, isr>>

\* POP GS reloads the descriptor of the selector; the guest's was 0.
TimerHandler ==
  /\ Serve(Timer)
  /\ ticks' = ticks + 1
  /\ gs' = IF gs = "visor" THEN "visor" ELSE "null"
  /\ UNCHANGED <<pc, fs, scancode, intact>>

\* Stores through GS without loading it; with a null GS the store faults.
KbdHandler ==
  \/ /\ gs # "null" /\ Serve(Keyboard)
     /\ scancode' = IF gs = "visor" THEN raised[Keyboard] ELSE scancode
     /\ intact' = (intact /\ gs # "guest")
     /\ UNCHANGED <<pc, segments, ticks>>
  \/ gs = "null" /\ HostISR(Keyboard)

\* Every other vector up to 21h ends in host_isr_handler; the slave's, 70h to
\* 77h, are within the limit of the IDT but never set up.
OtherHandler == \E i \in IRQs \ {Timer, Keyboard} : HostISR(i)
-----------------------------------------------------------------------------
(* From EnableProtectedMode to VisorLoop.                                   *)

\* The processor takes a pending interrupt before the next instruction.
Step(from, to) ==
  /\ pc = from /\ pc' = to
  /\ (ie /\ GIF) => Quiet
  /\ UNCHANGED <<saved, taken, raised, handlers>>

InitialMasks == {3, 4, 5, 7} \cup {8, 9, 10, 11, 15}    \* 0B8h and 8Fh

SetupPIC ==         \* ICW1 forgets the requests
  /\ Step("pmode", "masked")
  /\ irr' = {} /\ isr' = {}
  /\ dropped' = dropped + (IF Timer \in irr THEN 1 ELSE 0)
  /\ imr' = InitialMasks
  /\ UNCHANGED <<entered, flags, segments, world>>

\* Slip: the PIC is initialised again.
UnmaskReset ==
  /\ Step("masked", "main")
  /\ imr' = {} /\ irr' = {}
  /\ UNCHANGED <<dropped, entered, flags, isr, segments, world>>

Unmask ==           \* after MoveVisor, both masks are 0
  /\ Step("masked", "main")
  /\ imr' = {}
  /\ UNCHANGED <<entered, flags, requests, isr, segments, world>>

\* Slip: main relies on GS being set already.
MainNoGS ==
  /\ Step("main", "move")
  /\ fs' = "open"
  /\ UNCHANGED <<gs, entered, flags, requests, isr, imr, world>>

Main ==
  /\ Step("main", "move")
  /\ fs' = "open" /\ gs' = "visor"
  /\ UNCHANGED <<entered, flags, requests, isr, imr, world>>

MoveStuff ==        \* LIDT, STI
  /\ Step("move", "enter")
  /\ ie' = TRUE
  /\ UNCHANGED <<entered, GIF, requests, isr, imr, segments, world>>

EnterVisorLoop ==
  /\ Step("enter", "vmload")
  /\ GuestRegisters' \in RegFiles
  /\ left' = GuestRegisters'
  /\ regs' \in RegFiles
  /\ fs' = "open"
  /\ UNCHANGED <<gs, HostRegisters, hostLeft, entered, flags, requests, isr,
                 imr>>
-----------------------------------------------------------------------------
(* The world switch of VisorLoop.                                           *)

VMLOAD(from, to) ==
  /\ Step(from, to)
  /\ fs' = "guest" /\ gs' = "guest"
  /\ UNCHANGED <<entered, flags, requests, isr, imr, world>>

LoadGuest ==
  /\ Step("load", "vmload2")
  /\ HostRegisters' = regs /\ hostLeft' = regs
  /\ regs' = GuestRegisters
  /\ UNCHANGED <<GuestRegisters, left, segments, entered, flags, requests, isr,
                 imr>>

VMRUN ==            \* the guest's IF comes from the VMCB
  /\ pc = "vmrun" /\ pc' = "guest"
  /\ (ie /\ GIF) => Quiet
  /\ hsave' = ie /\ ie' = guestIF
  /\ GIF' = TRUE /\ entered' = TRUE
  /\ UNCHANGED <<guestIF, taken, pic, segments, world, handlers>>

VMEXIT ==
  /\ pc = "guest" /\ pc' = "vmsave"
  /\ ie => Quiet
  /\ ie' = hsave /\ guestIF' = ie /\ GIF' = FALSE
  /\ UNCHANGED <<hsave, entered, taken, pic, segments, world, handlers>>

\* Slip: GS is saved but not reloaded.
SaveGuestKeepsGS ==
  /\ Step("vmsave", "handle")
  /\ GuestRegisters' = regs /\ regs' = HostRegisters
  /\ fs' = "open"
  /\ UNCHANGED <<gs, HostRegisters, left, hostLeft, entered, flags, requests,
                 isr, imr>>

\* Slip: interrupts are let in again (STGI) for the rest of the loop.
SaveGuestSTGI ==
  /\ Step("vmsave", "handle")
  /\ GuestRegisters' = regs /\ regs' = HostRegisters
  /\ fs' = "open" /\ gs' = "visor" /\ GIF' = TRUE
  /\ UNCHANGED <<HostRegisters, left, hostLeft, entered, ie, requests, isr,
                 imr>>

SaveGuest ==
  /\ Step("vmsave", "handle")
  /\ GuestRegisters' = regs /\ regs' = HostRegisters
  /\ fs' = "open" /\ gs' = "visor"
  /\ UNCHANGED <<HostRegisters, left, hostLeft, entered, flags, requests, isr,
                 imr>>

\* CLI and an endless loop, which leaves GIF = 0: #VMEXIT for a shutdown, for
\* a HLT with IF = 0, for an NMI or for a cause the switch does not know.
InfiniteLoop ==
  /\ Step("handle", "stuck")
  /\ ie' = FALSE
  /\ regs' \in RegFiles
  /\ UNCHANGED <<GuestRegisters, left, HostRegisters, hostLeft, segments,
                 entered, GIF, requests, isr, imr>>

Handle ==           \* the switch, which may answer a BIOS call in the registers
  \/ /\ Step("handle", "load")
     /\ \/ UNCHANGED <<GuestRegisters, left>>
        \/ GuestRegisters' \in RegFiles /\ left' = GuestRegisters'
     /\ regs' \in RegFiles
     /\ UNCHANGED <<HostRegisters, hostLeft, segments, entered, flags,
                    requests, isr, imr>>
  \/ InfiniteLoop
-----------------------------------------------------------------------------
(* The guest.  Its handlers may be interrupted by exits before their EOI.   *)

GuestRuns ==
  /\ pc = "guest" /\ (ie => Quiet)
  /\ regs' \in RegFiles /\ left' = regs'
  /\ UNCHANGED <<pc, entered, flags, saved, taken, pic, segments,
                 HostRegisters, GuestRegisters, hostLeft, handlers>>

GuestSets(flag) ==  \* CLI, STI
  /\ pc = "guest" /\ (ie => Quiet) /\ guestIsr = {}
  /\ ie' = flag /\ ie # flag
  /\ UNCHANGED <<pc, entered, GIF, saved, taken, pic, segments, world,
                 handlers>>

GuestTakes(i) ==
  /\ pc = "guest" /\ ie /\ INTR(i)
  /\ Acknowledge(i) /\ ie' = FALSE
  /\ guestTicks' = guestTicks + (IF i = Timer THEN 1 ELSE 0)
  /\ guestIsr' = guestIsr \cup {i}
  /\ UNCHANGED <<pc, entered, GIF, saved, imr, raised, dropped, segments, world,
                 handlers>>

GuestEnds ==        \* EOI and IRET
  /\ pc = "guest" /\ guestIsr # {}
  /\ isr' = isr \ Highest /\ guestIsr' = guestIsr \ Highest
  /\ ie' = TRUE
  /\ UNCHANGED <<pc, entered, GIF, saved, guestTicks, requests, imr, raised,
                 segments, world, handlers>>

Looping == pc \in Loops /\ UNCHANGED vars
-----------------------------------------------------------------------------
Init ==
  /\ pc = "pmode" /\ entered = FALSE
  /\ ie = FALSE /\ GIF = TRUE /\ hsave = FALSE /\ guestIF = FALSE
  /\ fs = "null" /\ gs = "null"
  /\ regs \in RegFiles /\ HostRegisters = regs /\ GuestRegisters = regs
  /\ left = regs /\ hostLeft = regs
  /\ irr = {} /\ isr = {} /\ imr = IRQs
  /\ ticks = 0 /\ scancode = 0 /\ guestTicks = 0 /\ guestIsr = {}
  /\ raised = [i \in IRQs |-> 0] /\ dropped = 0
  /\ intact = TRUE

Visor ==
  \/ SetupPIC \/ Unmask \/ Main \/ MoveStuff \/ EnterVisorLoop
  \/ VMLOAD("vmload", "load") \/ LoadGuest \/ VMLOAD("vmload2", "vmrun")
  \/ VMRUN \/ SaveGuest \/ Handle
  \/ TimerHandler \/ KbdHandler \/ OtherHandler

Guest == GuestRuns \/ VMEXIT \/ \E flag \in BOOLEAN : GuestSets(flag)

Next ==
  \/ Visor \/ Guest
  \/ \E i \in IRQs : RaiseIrq(i) \/ GuestTakes(i)
  \/ GuestEnds
  \/ Looping

Spec == Init /\ [][Next]_vars

\* The processor goes on, and the guest neither runs with IF = 0 for ever nor
\* leaves a handler unfinished.
Fairness ==
  /\ WF_vars(Visor) /\ SF_vars(GuestSets(TRUE)) /\ SF_vars(GuestEnds)
  /\ \A i \in Early \cup Window \cup Late : SF_vars(GuestTakes(i))

FairSpec == Spec /\ Fairness
-----------------------------------------------------------------------------
TypeOK ==
  /\ pc \in Locations
  /\ {entered, ie, GIF, hsave, guestIF, intact} \subseteq BOOLEAN
  /\ {fs, gs} \subseteq {"open", "visor", "guest", "null"}
  /\ {regs, HostRegisters, GuestRegisters, left, hostLeft} \subseteq RegFiles
  /\ irr \subseteq IRQs /\ isr \subseteq IRQs /\ imr \subseteq IRQs
  /\ guestIsr \subseteq isr
  /\ raised \in [IRQs -> 0..MaxRaised]
  /\ {ticks, guestTicks, dropped} \subseteq 0..MaxRaised
  /\ scancode \in 0..MaxRaised

\* Every timer request that the 8259 keeps is counted once, by the visor before
\* the guest starts or by the guest, however it falls between the masks of
\* EnableProtectedMode, the STI of MoveStuff and the exits that arrive inside
\* the guest's handlers.  What the 8259 does not keep - the edges before ICW1,
\* and those on a line that is latched - nobody counts.
TicksCountedOnce ==
  raised[Timer]
    = ticks + guestTicks + dropped + (IF Timer \in irr THEN 1 ELSE 0)

\* Around each VMRUN the guest finds the registers it left or the handler gave
\* it, and FS and GS from its second entry on; the visor finds its own, and
\* the segments the VMCB accessors and the keyboard handler address through.
WorldsKeepTheirRegisters ==
  /\ pc \in {"vmload2", "vmrun"} => regs = left
  /\ pc = "vmrun" /\ entered => fs = "guest" /\ gs = "guest"
  /\ pc = "handle" => regs = hostLeft /\ fs = "open" /\ gs = "visor"

\* No handler of the visor stores through the guest's GS (visor.c:763-771).
GuestMemoryIntact == intact

\* No interrupt finds the visor with a null GS or ends in the exception loop.
NeverLost == pc # "lost"

\* A visor that has lost control lost it to one interrupt, still in service, for
\* which it has no handler, or to a key: pressed behind the first VMLOAD, after
\* a timer interrupt has left GS null (visor.c:226, isr_wrapper.asm:100-118).
LostToStranger ==
  pc = "lost" =>
    \E i \in IRQs \ {Timer} :
      /\ isr = {i} /\ ~ie
      /\ i = Keyboard => fs = "guest" /\ gs = "null" /\ ticks > 0

\* Every request the 8259 keeps, at whatever point of the boot or of the world
\* switch it comes, is taken and ended with an EOI: nothing is left to block
\* the 8259, until an exit makes the visor give the guest up.
EveryIrqServed ==
  \A i \in Early \cup Window \cup Late :
    i \in irr \cup isr ~> (i \notin irr \cup isr \/ pc = "stuck")

\* Interrupts do not keep the visor from starting the guest.
VisorStartsGuest == <>entered

\* GS was "set to 38 earlier" (visor.c:216), the segment of the visor's data:
\* the keyboard handler's store reaches its variable.
KeyReachesVisor == [][KbdHandler => scancode' = raised[Keyboard]]_vars
=============================================================================
