------------------------------ MODULE VisorLoop ------------------------------
(***************************************************************************)
(* The visor's main loop (visor.c, VisorLoop): VMRUN, the #VMEXIT that ends *)
(* it, and the switch that serves the exit, with the event the switch asks  *)
(* the processor to inject at the next VMRUN.  The guest and the processor  *)
(* are the environment.  One guest instruction or one interrupt is a step;  *)
(* the code between a #VMEXIT and the next VMRUN runs with GIF = 0, so it is *)
(* one step too.                                                            *)
(***************************************************************************)
EXTENDS Integers

CONSTANTS
  W,                \* values of a word: 2^16 in the code, smaller for TLC
  H,                \* values of the high word of an address (1: real mode)
  Start,            \* where the boot sector starts (0x7C00)
  Handlers,         \* addresses the guest's vector table points to
  RegFiles,         \* contents of the guest's registers
  IntVectors,       \* n of the INT n instructions the guest executes
  IrqVectors,       \* vectors of the external interrupts that reach the guest
  Exceptions,       \* <<vector, error code>> of faults the guest may raise
  ExcIntercepts,    \* exception vectors SetupVMCB intercepts ({13})
  Intercepts,       \* the other optional intercepts SetupVMCB sets
  FaultingGates,    \* <<type, vector>> of events whose delivery raises #GP
  InitialInj        \* what RAM holds in EVENTINJ before the first VMRUN

Soft == 4           \* EVENTINJ/EXITINTINFO TYPE: INT n
Exc == 3            \* exception
Irq == 0            \* external interrupt
GP == 13            \* #GP

Byte == 0..255
Addr == [hi : 0..(H - 1), lo : 0..(W - 1)]
Regs == [ah : Byte, al : Byte, bx : Nat, cx : Nat, dh : Byte, dl : Byte,
         cf : BOOLEAN]
Event == [v : BOOLEAN, type : {Irq, Exc, Soft}, vec : Byte, err : Int]
Frame == [v : BOOLEAN, vec : Byte, err : Int, ret : Addr]
Cause == [v : BOOLEAN, type : {Irq, Exc, Soft}, vec : Byte, err : Int,
          at : Addr]
Insns == {"plain", "int", "fault", "hlt", "unmapped", "svm", "cr0", "triple"}
Codes == {"none", "swint", "exception", "hlt", "npf", "shutdown", "cr0write",
          "nmi", "other"}

NoErr == -1
NoEvent == [v |-> FALSE, type |-> Irq, vec |-> 0, err |-> NoErr]
SoftInt(n) == [v |-> TRUE, type |-> Soft, vec |-> n, err |-> NoErr]
Interrupt(n) == [v |-> TRUE, type |-> Irq, vec |-> n, err |-> NoErr]
Exception(n, e) == [v |-> TRUE, type |-> Exc, vec |-> n, err |-> e]
NoFrame == [v |-> FALSE, vec |-> 0, err |-> NoErr, ret |-> Start]
NoCause == [v |-> FALSE, type |-> Irq, vec |-> 0, err |-> NoErr, at |-> Start]
NoExit == [code |-> "none", vec |-> 0, info |-> 0, idt |-> NoEvent]

CleanGroups == {"CRx", "SEG"}

ASSUME ConstantsAssumption ==
  /\ W \in Nat /\ W > 2
  /\ H \in Nat /\ H > 0
  /\ Start \in Addr
  /\ Handlers \subseteq Addr
  /\ RegFiles \subseteq Regs
  /\ IntVectors \subseteq Byte
  /\ IrqVectors \subseteq Byte
  /\ Exceptions \subseteq Byte \X Int
  /\ \A x \in Exceptions : x[1] \in {0, 1, 3, 4, 5, 6, 7, 9, 16} => x[2] = NoErr
  /\ GP \in ExcIntercepts
  /\ Intercepts \subseteq {"cr0write", "nmi"}
  /\ FaultingGates \subseteq {Irq, Exc, Soft} \X Byte
  /\ InitialInj \subseteq Event

VARIABLES
  phase,            \* "entry": top of the while; "guest"; "exit"; "stuck"
  rip, nrip,        \* VMCB save-state RIP, control NRIP
  intf,             \* the guest's RFLAGS.IF
  regs,             \* RAX and CF in the VMCB, GuestRegisters for the rest
  exit,             \* EXITCODE, EXITINFO1, EXITINTINFO
  inj,              \* EVENTINJ
  clean,            \* VMCB clean bits, as the set of groups marked clean
  insn,             \* the kind of instruction at rip
  cause,            \* auxiliary: the guest event that is still to be answered
  frame             \* auxiliary: the frame pushed by this step, if any

vars == <<phase, rip, nrip, intf, regs, exit, inj, clean, insn, cause, frame>>
-----------------------------------------------------------------------------
(* Addresses.  The VMCB accessors come in word and dword widths; a word     *)
(* write leaves the high word of RIP alone.                                 *)

Plus(a, n) ==
  IF a.lo + n < W THEN [a EXCEPT !.lo = a.lo + n]
  ELSE [hi |-> IF a.hi + 1 < H THEN a.hi + 1 ELSE 0, lo |-> a.lo + n - W]

SetVMCBW(a, value) == [a EXCEPT !.lo = value.lo]

\* Slip: the borrow out of the word is forgotten.
MinusWordNoBorrow(a, n) == [a EXCEPT !.lo = a.lo - n]

MinusWord(a, n) ==
  [a EXCEPT !.lo = IF a.lo >= n THEN a.lo - n ELSE a.lo + W - n]
-----------------------------------------------------------------------------
(* The guest's BIOS calls the visor answers itself.                         *)

Emulated(n, r) ==
  \/ n = 21 /\ r.ah = 136
  \/ n = 19 /\ r.ah % 16 = 8 /\ r.dl = 128

HandleRealModeSWInterrupt(n, r) ==
  CASE n = 17 -> [regs |-> [r EXCEPT !.ah = 1, !.al = 34], inj |-> NoEvent]
    [] n = 18 -> [regs |-> [r EXCEPT !.ah = 2, !.al = 127], inj |-> NoEvent]
    [] n = 19 /\ (r.ah \div 8) % 2 = 1 ->
         [regs |-> [ah |-> 0, al |-> 0, bx |-> 0, cx |-> 895, dh |-> 15,
                    dl |-> 1, cf |-> FALSE],
          inj |-> NoEvent]
    [] n = 21 /\ r.ah = 136 ->
         [regs |-> [r EXCEPT !.ah = 12, !.al = 0, !.cf = FALSE],
          inj |-> NoEvent]
    [] n = 21 /\ r.ah = 232 /\ r.al \in {1, 2, 32} ->
         [regs |-> [r EXCEPT !.ah = 134, !.cf = TRUE], inj |-> NoEvent]
    [] OTHER -> [regs |-> r, inj |-> SoftInt(n)]
-----------------------------------------------------------------------------
(* The processor.                                                           *)

GPError(e) ==       \* selector error code of a #GP raised delivering event e
  8 * e.vec + 2 + (IF e.type = Irq \/ (e.type = Exc /\ e.vec \notin {3, 4})
                   THEN 1 ELSE 0)

VMEXIT(code, vec, info, idt) ==
  /\ phase' = "exit"
  /\ exit' = [code |-> code, vec |-> vec, info |-> info, idt |-> idt]
  /\ inj' = NoEvent
  /\ frame' = NoFrame
  /\ UNCHANGED <<rip, intf, regs, clean, insn>>

\* Deliver event e through the guest's vector table; the handler returns to rip.
\* When the delivery itself faults, c is what the guest is still owed.
TakeEvent(e, c) ==
  IF <<e.type, e.vec>> \in FaultingGates
  THEN /\ VMEXIT("exception", GP, GPError(e), e)
       /\ cause' = c
       /\ UNCHANGED nrip
  ELSE /\ phase' = "guest"
       /\ frame' = [v |-> TRUE, vec |-> e.vec, err |-> e.err, ret |-> rip]
       /\ rip' \in Handlers
       /\ insn' \in Insns
       /\ intf' = FALSE
       /\ cause' = NoCause
       /\ inj' = NoEvent
       /\ UNCHANGED <<nrip, regs, exit, clean>>

VMRUN ==
  /\ phase = "entry"
  /\ IF inj.v THEN TakeEvent(inj, cause)
     ELSE /\ phase' = "guest"
          /\ frame' = NoFrame
          /\ UNCHANGED <<rip, nrip, intf, regs, exit, inj, clean, insn, cause>>

GuestRuns ==
  /\ phase = "guest" /\ insn = "plain"
  /\ rip' \in Addr
  /\ insn' \in Insns
  /\ intf' \in BOOLEAN
  /\ regs' \in RegFiles
  /\ frame' = NoFrame
  /\ UNCHANGED <<phase, nrip, exit, inj, clean, cause>>

RaisedAt(e, a) ==
  [v |-> TRUE, type |-> e.type, vec |-> e.vec, err |-> e.err, at |-> a]

GuestInt(n) ==
  /\ phase = "guest" /\ insn = "int"
  /\ VMEXIT("swint", n, 0, NoEvent)
  /\ nrip' = Plus(rip, 2)
  /\ cause' = RaisedAt(SoftInt(n), rip)

GuestFaults(x, e) ==
  /\ phase = "guest" /\ insn = "fault"
  /\ IF x \in ExcIntercepts
     THEN /\ VMEXIT("exception", x, e, NoEvent)
          /\ cause' = RaisedAt(Exception(x, e), rip)
          /\ UNCHANGED nrip
     ELSE TakeEvent(Exception(x, e), RaisedAt(Exception(x, e), rip))

ExternalInterrupt(n) ==
  /\ phase = "guest" /\ intf
  /\ TakeEvent(Interrupt(n), RaisedAt(Interrupt(n), rip))

GuestTraps(kind, code, length) ==
  /\ phase = "guest" /\ insn = kind
  /\ VMEXIT(code, 0, 0, NoEvent)
  /\ nrip' = Plus(rip, length)
  /\ UNCHANGED cause

GuestHalts == GuestTraps("hlt", "hlt", 1)
GuestTouchesUnmapped == GuestTraps("unmapped", "npf", 0)
GuestShutsDown == GuestTraps("triple", "shutdown", 0)
GuestUsesSVM == GuestTraps("svm", "other", 0)
GuestWritesCR0 ==
  \/ "cr0write" \in Intercepts /\ GuestTraps("cr0", "cr0write", 2)
  \/ /\ "cr0write" \notin Intercepts /\ phase = "guest" /\ insn = "cr0"
     /\ rip' = Plus(rip, 2)
     /\ insn' \in Insns
     /\ frame' = NoFrame
     /\ UNCHANGED <<phase, nrip, intf, regs, exit, inj, clean, cause>>
NonMaskable ==
  /\ phase = "guest" /\ "nmi" \in Intercepts
  /\ VMEXIT("nmi", 2, 0, NoEvent)
  /\ UNCHANGED <<nrip, cause>>
-----------------------------------------------------------------------------
(* The visor: one action per case of the switch on the exit code.           *)

Serving(code) == phase = "exit" /\ exit.code = code

Resume ==           \* leave the switch; back to the top of the while
  /\ phase' = "entry"
  /\ frame' = NoFrame
  /\ UNCHANGED <<nrip, intf, exit, cause>>

HandleNPF ==        \* HandleGuestPagingException returns at once
  /\ Serving("npf")
  /\ clean' = CleanGroups
  /\ Resume
  /\ UNCHANGED <<rip, regs, inj, insn>>

\* Slip: the emulated call is injected as well.
EmulateAndInject ==
  /\ Serving("swint")
  /\ Emulated(exit.vec, regs)
  /\ regs' = HandleRealModeSWInterrupt(exit.vec, regs).regs
  /\ inj' = SoftInt(exit.vec)
  /\ clean' = CleanGroups
  /\ rip' = SetVMCBW(rip, nrip)
  /\ insn' \in Insns
  /\ Resume

EmulateInt ==
  /\ Serving("swint")
  /\ Emulated(exit.vec, regs)
  /\ LET outcome == HandleRealModeSWInterrupt(exit.vec, regs)
     IN  /\ regs' = outcome.regs
         /\ inj' = outcome.inj
  /\ clean' = CleanGroups \cup {"CRx"}             \* 0xFFFF | 0xFEFF
  /\ rip' = SetVMCBW(rip, nrip)
  /\ insn' \in Insns
  /\ phase' = "entry"
  /\ frame' = NoFrame
  /\ cause' = NoCause
  /\ UNCHANGED <<nrip, intf, exit>>

\* Slip: EVENTINJ is written without its V bit.
InjectIntInvalid ==
  /\ Serving("swint")
  /\ ~Emulated(exit.vec, regs)
  /\ rip' = SetVMCBW(rip, nrip)
  /\ insn' \in Insns
  /\ inj' = NoEvent
  /\ clean' = CleanGroups
  /\ Resume
  /\ UNCHANGED regs

\* Slip: RIP is left at the INT.
InjectIntAtInt ==
  /\ Serving("swint")
  /\ ~Emulated(exit.vec, regs)
  /\ inj' = SoftInt(exit.vec)
  /\ clean' = CleanGroups
  /\ Resume
  /\ UNCHANGED <<rip, regs, insn>>

\* Slip: a call is passed on to the guest whoever serves it.
InjectAnyInt ==
  /\ Serving("swint")
  /\ rip' = SetVMCBW(rip, nrip)
  /\ insn' \in Insns
  /\ inj' = SoftInt(exit.vec)
  /\ clean' = CleanGroups
  /\ Resume
  /\ UNCHANGED regs

InjectInt ==
  /\ Serving("swint")
  /\ ~Emulated(exit.vec, regs)
  /\ rip' = SetVMCBW(rip, nrip)
  /\ insn' \in Insns
  /\ inj' = SoftInt(exit.vec)
  /\ clean' = CleanGroups
  /\ Resume
  /\ UNCHANGED regs

HandleCR0Write ==
  /\ Serving("cr0write")
  /\ clean' = CleanGroups \ {"CRx"}
  /\ rip' = nrip
  /\ insn' \in Insns
  /\ Resume
  /\ UNCHANGED <<regs, inj>>

\* Slip: RIP is not stepped back to the INT whose gate faulted.
ReflectGPBehindInt ==
  /\ Serving("exception") /\ exit.vec = GP
  /\ inj' = Exception(GP, IF exit.idt.v THEN 8 * exit.idt.vec + 2
                          ELSE exit.info)
  /\ clean' = CleanGroups
  /\ Resume
  /\ UNCHANGED <<rip, regs, insn>>

ReflectGP ==
  /\ Serving("exception") /\ exit.vec = GP
  /\ IF exit.idt.v
     THEN /\ inj' = Exception(GP, 8 * exit.idt.vec + 2)
          /\ rip' = MinusWord(rip, 2)
          /\ insn' \in Insns
     ELSE /\ inj' = Exception(GP, exit.info)
          /\ UNCHANGED <<rip, insn>>
  /\ clean' = CleanGroups
  /\ Resume
  /\ UNCHANGED regs

ReflectException == \* #DB goes back as an interrupt, #BP and #UD as exceptions
  /\ Serving("exception") /\ exit.vec # GP
  /\ inj' = CASE exit.vec = 1 -> Interrupt(1)
              [] exit.vec \in {3, 6} -> Exception(exit.vec, NoErr)
              [] OTHER -> NoEvent
  /\ clean' = CleanGroups
  /\ Resume
  /\ UNCHANGED <<rip, regs, insn>>

\* Slip: the visor hangs on any HLT.
HangOnHLT ==
  /\ Serving("hlt") /\ intf
  /\ clean' = CleanGroups
  /\ phase' = "stuck"
  /\ frame' = NoFrame
  /\ UNCHANGED <<rip, nrip, intf, regs, exit, inj, insn, cause>>

HandleHLT ==        \* with interrupts enabled: back to the HLT
  /\ Serving("hlt") /\ intf
  /\ clean' = CleanGroups
  /\ Resume
  /\ UNCHANGED <<rip, regs, inj, insn>>

InfiniteLoop ==
  /\ \/ Serving("hlt") /\ ~intf
     \/ Serving("shutdown")
     \/ Serving("nmi")
     \/ Serving("other")
  /\ clean' = CleanGroups
  /\ phase' = "stuck"
  /\ frame' = NoFrame
  /\ UNCHANGED <<rip, nrip, intf, regs, exit, inj, insn, cause>>
-----------------------------------------------------------------------------
Init ==
  /\ phase = "entry"
  /\ rip = Start
  /\ nrip = Start
  /\ intf = FALSE
  /\ regs \in RegFiles
  /\ exit = NoExit
  /\ inj \in InitialInj
  /\ clean \in SUBSET CleanGroups
  /\ insn \in Insns
  /\ cause = NoCause
  /\ frame = NoFrame

Guest ==
  \/ GuestRuns
  \/ \E n \in IntVectors : GuestInt(n)
  \/ \E x \in Exceptions : GuestFaults(x[1], x[2])
  \/ GuestHalts
  \/ GuestTouchesUnmapped
  \/ GuestShutsDown
  \/ GuestUsesSVM
  \/ GuestWritesCR0
  \/ NonMaskable

Irqs == \E n \in IrqVectors : ExternalInterrupt(n)

Dispatch ==
  \/ HandleNPF
  \/ EmulateInt
  \/ InjectInt
  \/ HandleCR0Write
  \/ ReflectGP
  \/ ReflectException
  \/ HandleHLT
  \/ InfiniteLoop

Next == VMRUN \/ Guest \/ Irqs \/ Dispatch

Spec == Init /\ [][Next]_vars

\* The host executes: VMRUN and the dispatcher are sequential code with no wait.
HostFairness == WF_vars(VMRUN) /\ WF_vars(Dispatch)

\* The timer keeps ticking, and a halted or running guest keeps executing.
GuestFairness == WF_vars(Guest) /\ SF_vars(Irqs)

FairSpec == Spec /\ HostFairness /\ GuestFairness
-----------------------------------------------------------------------------
(* What the loop guarantees.                                                *)

TypeOK ==
  /\ phase \in {"entry", "guest", "exit", "stuck"}
  /\ rip \in Addr /\ nrip \in Addr
  /\ intf \in BOOLEAN
  /\ regs \in Regs
  /\ exit \in [code : Codes, vec : Byte, info : Int, idt : Event]
  /\ inj \in Event
  /\ clean \in SUBSET CleanGroups
  /\ insn \in Insns
  /\ cause \in Cause
  /\ frame \in Frame

\* RAM was zero where SetupVMCB leaves EVENTINJ alone.
VmcbZeroed == InitialInj = {NoEvent}

\* Only the gates of INT n may refuse delivery: the guest's interrupt and
\* exception gates are usable.
OnlyIntGatesFault == \A g \in FaultingGates : g[1] = Soft

\* The dispatcher has an event for every exception it intercepts.
ReinjectedOnly ==
  \A x \in Exceptions : x[1] \in ExcIntercepts => x[1] \in {1, 6, GP}

\* The INT at a and the instruction after it lie in the same 64K.
SameBlock(a) == H = 1 \/ a.lo + 2 < W

\* An event the guest raised is never dropped: the guest runs again only once
\* the INT or fault it raised was served or delivered (visor.c:335-480).
NothingLost == phase = "guest" => ~cause.v

\* The visor never injects an event the guest did not raise, and what it injects
\* for an INT n is that INT (visor.c:363-368, 450-479).
NothingInvented ==
  inj.v => /\ phase = "entry" /\ cause.v
           /\ inj.type = Soft => cause.type = Soft /\ cause.vec = inj.vec

\* The handler of an injected INT n returns to the instruction after the INT
\* (visor.c:366), unless that lies in the next 64K.
ReturnsAfterInt ==
  inj.v /\ inj.type = Soft /\ SameBlock(cause.at) => rip = Plus(cause.at, 2)

\* A #GP the visor injects is reported at the instruction that caused it - for
\* an INT whose gate faulted, the INT, two rounds of RIP changes later - with
\* the error code the processor would have pushed (visor.c:465-479).
FaultReportedAtCause ==
  inj.v /\ inj.type = Exc =>
    /\ rip = cause.at
    /\ inj.err = IF cause.type = Soft THEN GPError(SoftInt(cause.vec))
                 ELSE cause.err

\* The four together: the path of an event from the guest through EXITCODE,
\* EXITINTINFO and EVENTINJ to the guest's handler keeps what the event is.
EventIntegrity ==
  NothingLost /\ NothingInvented /\ ReturnsAfterInt /\ FaultReportedAtCause

\* The inductive strengthening: what each exit code, and each pending injection,
\* says about the event the guest is owed.
ExitMatchesCause ==
  phase = "exit" =>
    CASE exit.code = "swint" ->
           /\ cause = RaisedAt(SoftInt(exit.vec), rip)
           /\ nrip = Plus(rip, 2)
      [] exit.code = "exception" /\ exit.idt.v ->
           /\ exit.vec = GP
           /\ cause.v /\ cause.type = Soft
           /\ exit.idt = SoftInt(cause.vec)
           /\ rip = SetVMCBW(cause.at, Plus(cause.at, 2))
      [] exit.code = "exception" /\ ~exit.idt.v ->
           /\ exit.vec \in {1, 6, GP}
           /\ exit.vec # GP => exit.info = NoErr
           /\ cause = RaisedAt(Exception(exit.vec, exit.info), rip)
      [] OTHER -> ~cause.v

InjectionMatchesCause ==
  phase = "entry" =>
    /\ cause.v <=> inj.v
    /\ inj.v =>
         \/ /\ cause.type = Soft
            /\ inj = SoftInt(cause.vec)
            /\ rip = SetVMCBW(cause.at, Plus(cause.at, 2))
         \/ /\ cause.type = Soft
            /\ inj = Exception(GP, 8 * cause.vec + 2)
            /\ rip = cause.at
         \/ /\ cause.type = Exc
            /\ inj \in {Exception(cause.vec, cause.err), Interrupt(cause.vec)}
            /\ inj.err = cause.err
            /\ rip = cause.at

IInv ==
  /\ phase = "guest" => ~cause.v
  /\ phase # "entry" => ~inj.v
  /\ ExitMatchesCause
  /\ InjectionMatchesCause

\* Whether the visor or the guest's own handler answers an INT is settled by
\* the registers at the INT (visor.c:348-369): a call that went to the guest is
\* still none of the visor's when its gate faults and its #GP is injected, and
\* what the visor left in the registers asks for no second answer.
AnswerSettled ==
  /\ cause.v \/ cause = NoCause
  /\ cause.v /\ cause.type = Soft =>
       /\ cause.vec \in IntVectors
       /\ Serving("swint") \/ ~Emulated(cause.vec, regs)
  /\ regs \in RegFiles \/ \A n \in Byte : ~Emulated(n, regs)
  /\ phase \in {"entry", "exit"} => frame = NoFrame

\* What comments of visor.c and guest.c say of the loop, and it does not do.

\* Only INT 15h/AH=88h and INT 13h/AH=08h on the hard disk are emulated
\* (visor.c:350, 352).
EmulatesListedCalls ==
  [][EmulateInt => \/ exit.vec = 21 /\ regs.ah = 136
                   \/ exit.vec = 19 /\ regs.ah = 8 /\ regs.dl = 128]_vars

\* Emulating an INT marks CS changed, so the SEG group not clean (visor.c:360).
EmulationMarksSEG == [][EmulateInt => "SEG" \notin clean']_vars

\* A guest waiting at HLT with interrupts enabled is not starved by the loop that
\* keeps re-entering it: an interrupt gets in (visor.c:487-495).
HaltedGuestWakes ==
  (insn = "hlt" /\ intf /\ phase = "guest") ~> (insn # "hlt" \/ ~intf)

\* To the guest the visor is invisible but for the calls it serves.
View ==
  INSTANCE GuestView WITH
    Codes <- {x[2] : x \in Exceptions} \cup {NoErr},
    After <- [a \in Addr |-> Plus(a, 2)],
    Served <- {c \in (IntVectors \X RegFiles) : Emulated(c[1], c[2])},
    Answer <- [c \in IntVectors \X RegFiles |->
                 HandleRealModeSWInterrupt(c[1], c[2]).regs],
    NoEv <- NoCause,
    ip <- IF cause.v THEN cause.at ELSE rip,
    ev <- cause,
    running <- phase # "stuck"

RefinesGuestView == View!Spec

\* Every event the guest raises is answered in the end: no exit bounces between
\* the guest and the visor for ever (visor.c:329-516).
EveryEventAnswered == View!EveryEventAnswered
=============================================================================
