-------------------------- MODULE VisorLoop_proofs --------------------------
(***************************************************************************)
(* Type correctness of the visor's main loop, and the integrity of the      *)
(* events it passes through, for every word size and every guest.           *)
(***************************************************************************)
EXTENDS VisorLoop, TLAPS

(* Word arithmetic on RIP stays within the address space.                   *)
LEMMA PlusAddr ==
  ASSUME NEW a \in Addr, NEW n \in 0..2
  PROVE  Plus(a, n) \in Addr
BY ConstantsAssumption DEF Plus, Addr

LEMMA SetVMCBWAddr ==
  ASSUME NEW a \in Addr, NEW b \in Addr
  PROVE  SetVMCBW(a, b) \in Addr
BY DEF SetVMCBW, Addr

LEMMA MinusWordAddr ==
  ASSUME NEW a \in Addr
  PROVE  MinusWord(a, 2) \in Addr
BY ConstantsAssumption DEF MinusWord, Addr

(* An address is its two words.                                             *)
LEMMA AddrEq ==
  ASSUME NEW a \in Addr, NEW b \in Addr, a.hi = b.hi, a.lo = b.lo
  PROVE  a = b
BY DEF Addr

(* Stepping RIP's low word back by two undoes the word-wide skip of an INT. *)
LEMMA MinusUndoesSkip ==
  ASSUME NEW a \in Addr
  PROVE  MinusWord(SetVMCBW(a, Plus(a, 2)), 2) = a
<1> DEFINE b == SetVMCBW(a, Plus(a, 2))
<1>1. b \in Addr
  BY PlusAddr, SetVMCBWAddr
<1>2. b.hi = a.hi /\ b.lo = IF a.lo + 2 < W THEN a.lo + 2 ELSE a.lo + 2 - W
  BY ConstantsAssumption DEF SetVMCBW, Plus, Addr
<1>3. MinusWord(b, 2).hi = a.hi
  BY <1>1, <1>2 DEF MinusWord, Addr
<1>4. MinusWord(b, 2).lo = a.lo
  <2>1. MinusWord(b, 2).lo = IF b.lo >= 2 THEN b.lo - 2 ELSE b.lo + W - 2
    BY <1>1 DEF MinusWord, Addr
  <2>2. a.lo \in 0..(W - 1) /\ W \in Nat /\ W > 2
    BY ConstantsAssumption DEF Addr
  <2>3. QED
    BY <1>2, <2>1, <2>2
<1>5. MinusWord(b, 2) \in Addr
  BY <1>1, MinusWordAddr
<1>6. QED
  BY <1>3, <1>4, <1>5, AddrEq

(* Within one 64K block the word-wide skip is the real one.                 *)
LEMMA SkipWithinBlock ==
  ASSUME NEW a \in Addr, SameBlock(a)
  PROVE  SetVMCBW(a, Plus(a, 2)) = Plus(a, 2)
BY ConstantsAssumption DEF SetVMCBW, Plus, Addr, SameBlock

(* Storing bytes and flags in a register file leaves a register file.       *)
LEMMA RegsUpdate ==
  ASSUME NEW r \in Regs, NEW b \in Byte, NEW c \in Byte, NEW f \in BOOLEAN
  PROVE  /\ [r EXCEPT !.ah = b, !.al = c] \in Regs
         /\ [r EXCEPT !.ah = b, !.al = c, !.cf = f] \in Regs
         /\ [r EXCEPT !.ah = b, !.cf = f] \in Regs
<1>1. [r EXCEPT !.ah = b, !.al = c] \in Regs
  BY DEF Regs
<1>2. [r EXCEPT !.ah = b, !.al = c, !.cf = f] \in Regs
  BY DEF Regs
<1>3. [r EXCEPT !.ah = b, !.cf = f] \in Regs
  BY DEF Regs
<1>4. QED
  BY <1>1, <1>2, <1>3

(* The registers the visor's BIOS answers leave are registers.              *)
LEMMA AnswerRegs ==
  ASSUME NEW n \in Byte, NEW r \in Regs
  PROVE  /\ HandleRealModeSWInterrupt(n, r).regs \in Regs
         /\ HandleRealModeSWInterrupt(n, r).inj \in Event
<1> DEFINE answer == HandleRealModeSWInterrupt(n, r)
<1>1. NoEvent \in Event /\ SoftInt(n) \in Event
  BY DEF Event, NoEvent, SoftInt, NoErr, Irq, Soft, Exc, Byte
<1>2. /\ answer.inj \in {NoEvent, SoftInt(n)}
      /\ \/ answer.regs = [r EXCEPT !.ah = 1, !.al = 34]
         \/ answer.regs = [r EXCEPT !.ah = 2, !.al = 127]
         \/ answer.regs = [ah |-> 0, al |-> 0, bx |-> 0, cx |-> 895,
                           dh |-> 15, dl |-> 1, cf |-> FALSE]
         \/ answer.regs = [r EXCEPT !.ah = 12, !.al = 0, !.cf = FALSE]
         \/ answer.regs = [r EXCEPT !.ah = 134, !.cf = TRUE]
         \/ answer.regs = r
  BY DEF HandleRealModeSWInterrupt
<1>3. /\ {0, 1, 2, 12, 15, 34, 127, 134} \subseteq Byte
      /\ 0 \in Nat /\ 895 \in Nat
  BY DEF Byte
<1>4. /\ [r EXCEPT !.ah = 1, !.al = 34] \in Regs
      /\ [r EXCEPT !.ah = 2, !.al = 127] \in Regs
  BY <1>3, RegsUpdate
<1>5. /\ [r EXCEPT !.ah = 12, !.al = 0, !.cf = FALSE] \in Regs
      /\ [r EXCEPT !.ah = 134, !.cf = TRUE] \in Regs
  BY <1>3, RegsUpdate
<1>6. [ah |-> 0, al |-> 0, bx |-> 0, cx |-> 895, dh |-> 15, dl |-> 1,
       cf |-> FALSE] \in Regs
  BY <1>3 DEF Regs
<1>7. answer.regs \in Regs /\ answer.inj \in Event
  <2> HIDE DEF answer
  <2>1. QED
    BY <1>1, <1>2, <1>4, <1>5, <1>6
<1>8. QED
  BY <1>7

(* An emulated call is never also injected.                                 *)
LEMMA AnswerIsFinal ==
  ASSUME NEW n \in Byte, NEW r \in Regs, Emulated(n, r)
  PROVE  HandleRealModeSWInterrupt(n, r).inj = NoEvent
<1>1. CASE n = 21 /\ r.ah = 136
  BY <1>1 DEF HandleRealModeSWInterrupt
<1>2. CASE n = 19 /\ r.ah % 16 = 8
  <2>1. (r.ah \div 8) % 2 = 1
    BY <1>2 DEF Regs, Byte
  <2>2. QED
    BY <1>2, <2>1 DEF HandleRealModeSWInterrupt
<1>3. QED
  BY <1>1, <1>2 DEF Emulated

(* Events and causes built from their parts are well formed.                *)
LEMMA EventTypes ==
  /\ NoEvent \in Event
  /\ \A n \in Byte : SoftInt(n) \in Event /\ Interrupt(n) \in Event
  /\ \A n \in Byte, e \in Int : Exception(n, e) \in Event
  /\ \A e \in Event, a \in Addr : RaisedAt(e, a) \in Cause
  /\ NoCause \in Cause /\ NoFrame \in Frame
  /\ \A e \in Event : GPError(e) \in Int
BY ConstantsAssumption
   DEF NoEvent, SoftInt, Interrupt, Exception, RaisedAt, NoCause, NoFrame,
       GPError, Event, Cause, Frame, Byte, NoErr, Irq, Exc, Soft

(* A #VMEXIT and a delivery through the vector table keep the types.        *)
LEMMA VMEXITType ==
  ASSUME TypeOK, NEW code \in Codes, NEW vec \in Byte, NEW info \in Int,
         NEW idt \in Event, VMEXIT(code, vec, info, idt),
         cause' \in Cause, nrip' \in Addr
  PROVE  TypeOK'
BY EventTypes DEF TypeOK, VMEXIT

LEMMA TakeEventType ==
  ASSUME TypeOK, NEW e \in Event, NEW c \in Cause, TakeEvent(e, c)
  PROVE  TypeOK'
<1>1. CASE <<e.type, e.vec>> \in FaultingGates
  <2>1. GPError(e) \in Int /\ "exception" \in Codes /\ GP \in Byte
    BY EventTypes DEF Codes, GP, Byte
  <2>2. /\ VMEXIT("exception", GP, GPError(e), e)
        /\ cause' = c
        /\ nrip' = nrip
    BY <1>1 DEF TakeEvent
  <2>3. QED
    BY <2>1, <2>2, VMEXITType DEF TypeOK
<1>2. CASE <<e.type, e.vec>> \notin FaultingGates
  <2>1. [v |-> TRUE, vec |-> e.vec, err |-> e.err, ret |-> rip] \in Frame
    BY DEF TypeOK, Frame, Event
  <2>2. rip' \in Addr
    BY <1>2, ConstantsAssumption DEF TakeEvent
  <2>3. /\ phase' = "guest" /\ intf' = FALSE /\ insn' \in Insns
        /\ frame' = [v |-> TRUE, vec |-> e.vec, err |-> e.err, ret |-> rip]
        /\ cause' = NoCause /\ inj' = NoEvent
        /\ UNCHANGED <<nrip, regs, exit, clean>>
    BY <1>2 DEF TakeEvent
  <2>4. QED
    BY <2>1, <2>2, <2>3, EventTypes DEF TypeOK
<1>3. QED
  BY <1>1, <1>2
-----------------------------------------------------------------------------
(* Every state of the loop is well typed: RIP and NRIP stay addresses under *)
(* the word and dword writes of the handlers, EVENTINJ holds an event, the  *)
(* registers stay registers (visor.c:196-518).                              *)
THEOREM TypeCorrect == Spec => []TypeOK
<1>1. Init => TypeOK
  <2>1. NoExit \in [code : Codes, vec : Byte, info : Int, idt : Event]
    BY EventTypes DEF NoExit, Codes, Byte
  <2>2. QED
    BY <2>1, EventTypes, ConstantsAssumption DEF Init, TypeOK
<1>2. TypeOK /\ [Next]_vars => TypeOK'
  <2> SUFFICES ASSUME TypeOK, [Next]_vars PROVE TypeOK'
    OBVIOUS
  <2>1. CASE VMRUN
    <3>1. CASE inj.v
      BY <2>1, <3>1, TakeEventType DEF VMRUN, TypeOK
    <3>2. CASE ~inj.v
      BY <2>1, <3>2, EventTypes DEF VMRUN, TypeOK
    <3>3. QED
      BY <3>1, <3>2
  <2>2. CASE GuestRuns
    BY <2>2, EventTypes, ConstantsAssumption DEF GuestRuns, TypeOK
  <2>3. ASSUME NEW n \in IntVectors, GuestInt(n) PROVE TypeOK'
    <3>1. n \in Byte /\ 0 \in Int /\ "swint" \in Codes
      BY ConstantsAssumption DEF Codes
    <3>2. cause' \in Cause /\ nrip' \in Addr
      BY <2>3, <3>1, EventTypes, PlusAddr DEF GuestInt, TypeOK
    <3>3. VMEXIT("swint", n, 0, NoEvent)
      BY <2>3 DEF GuestInt
    <3>4. QED
      BY <3>1, <3>2, <3>3, EventTypes, VMEXITType
  <2>4. ASSUME NEW x \in Exceptions, GuestFaults(x[1], x[2]) PROVE TypeOK'
    <3>1. x[1] \in Byte /\ x[2] \in Int /\ "exception" \in Codes
      BY ConstantsAssumption DEF Codes
    <3>2. /\ Exception(x[1], x[2]) \in Event
          /\ RaisedAt(Exception(x[1], x[2]), rip) \in Cause
      BY <3>1, EventTypes DEF TypeOK
    <3>3. CASE x[1] \in ExcIntercepts
      BY <2>4, <3>1, <3>2, <3>3, EventTypes, VMEXITType
         DEF GuestFaults, TypeOK
    <3>4. CASE x[1] \notin ExcIntercepts
      BY <2>4, <3>2, <3>4, TakeEventType DEF GuestFaults
    <3>5. QED
      BY <3>3, <3>4
  <2>5. ASSUME NEW n \in IrqVectors, ExternalInterrupt(n) PROVE TypeOK'
    <3>1. /\ Interrupt(n) \in Event
          /\ RaisedAt(Interrupt(n), rip) \in Cause
      BY EventTypes, ConstantsAssumption DEF TypeOK
    <3>2. QED
      BY <2>5, <3>1, TakeEventType DEF ExternalInterrupt
  <2>6. ASSUME NEW kind \in Insns, NEW code \in Codes, NEW length \in 0..2,
               GuestTraps(kind, code, length)
        PROVE  TypeOK'
    <3>1. VMEXIT(code, 0, 0, NoEvent) /\ nrip' \in Addr /\ cause' \in Cause
      BY <2>6, PlusAddr DEF GuestTraps, TypeOK
    <3>2. QED
      BY <3>1, EventTypes, VMEXITType DEF Byte
  <2>7. CASE GuestHalts \/ GuestTouchesUnmapped \/ GuestShutsDown \/ GuestUsesSVM
    BY <2>6, <2>7 DEF GuestHalts, GuestTouchesUnmapped, GuestShutsDown,
                      GuestUsesSVM, Insns, Codes
  <2>8. CASE GuestWritesCR0
    <3>1. CASE GuestTraps("cr0", "cr0write", 2)
      BY <2>6, <3>1 DEF Insns, Codes
    <3>2. CASE ~GuestTraps("cr0", "cr0write", 2)
      BY <2>8, <3>2, EventTypes, PlusAddr DEF GuestWritesCR0, TypeOK
    <3>3. QED
      BY <3>1, <3>2
  <2>9. CASE NonMaskable
    <3>1. VMEXIT("nmi", 2, 0, NoEvent) /\ cause' \in Cause /\ nrip' \in Addr
      BY <2>9 DEF NonMaskable, TypeOK
    <3>2. "nmi" \in Codes /\ 2 \in Byte
      BY DEF Codes, Byte
    <3>3. QED
      BY <3>1, <3>2, EventTypes, VMEXITType
  <2>10. CASE EmulateInt
    <3>1. exit.vec \in Byte
      BY DEF TypeOK
    <3>2. regs' \in Regs /\ inj' \in Event
      BY <2>10, <3>1, AnswerRegs DEF EmulateInt, TypeOK
    <3>3. rip' \in Addr
      BY <2>10, SetVMCBWAddr DEF EmulateInt, TypeOK
    <3>4. clean' \in SUBSET CleanGroups
      BY <2>10 DEF EmulateInt, CleanGroups
    <3>5. QED
      BY <2>10, <3>2, <3>3, <3>4, EventTypes DEF EmulateInt, TypeOK
  <2>11. CASE InjectInt
    <3>1. rip' \in Addr /\ inj' \in Event
      BY <2>11, SetVMCBWAddr, EventTypes DEF InjectInt, TypeOK
    <3>2. QED
      BY <2>11, <3>1, EventTypes DEF InjectInt, Resume, TypeOK
  <2>12. CASE HandleCR0Write
    <3>1. clean' \in SUBSET CleanGroups /\ rip' \in Addr
      BY <2>12 DEF HandleCR0Write, TypeOK
    <3>2. QED
      BY <2>12, <3>1, EventTypes DEF HandleCR0Write, Resume, TypeOK
  <2>13. CASE ReflectGP
    <3>1. GP \in Byte /\ 8 * exit.idt.vec + 2 \in Int /\ exit.info \in Int
      BY DEF TypeOK, GP, Byte, Event
    <3>2. inj' \in Event /\ rip' \in Addr /\ insn' \in Insns
      BY <2>13, <3>1, EventTypes, MinusWordAddr DEF ReflectGP, TypeOK
    <3>3. QED
      BY <2>13, <3>2, EventTypes DEF ReflectGP, Resume, TypeOK
  <2>14. CASE ReflectException
    <3>1. exit.vec \in Byte /\ 1 \in Byte /\ NoErr \in Int
      BY DEF TypeOK, NoErr, Byte
    <3>2. inj' \in Event
      BY <2>14, <3>1, EventTypes DEF ReflectException
    <3>3. QED
      BY <2>14, <3>2, EventTypes DEF ReflectException, Resume, TypeOK
  <2>15. CASE HandleNPF \/ HandleHLT
    BY <2>15, EventTypes DEF HandleNPF, HandleHLT, Resume, TypeOK
  <2>16. CASE InfiniteLoop
    BY <2>16, EventTypes DEF InfiniteLoop, TypeOK
  <2>17. CASE UNCHANGED vars
    BY <2>17 DEF vars, TypeOK
  <2>18. QED
    BY <2>1, <2>2, <2>3, <2>4, <2>5, <2>7, <2>8, <2>9, <2>10, <2>11, <2>12,
       <2>13, <2>14, <2>15, <2>16, <2>17
       DEF Next, Guest, Irqs, Dispatch
<1>3. QED
  BY <1>1, <1>2, PTL DEF Spec
-----------------------------------------------------------------------------
(* What each step does to the event the guest is owed, in the invariant's   *)
(* terms: the two branches of a delivery, and the #VMEXITs without event.   *)
LEMMA TakeEventInv ==
  ASSUME OnlyIntGatesFault, TypeOK, NEW e \in Event, NEW c \in Cause,
         TakeEvent(e, c),
         e.type = Soft =>
           /\ e = SoftInt(c.vec) /\ c.v /\ c.type = Soft
           /\ rip = SetVMCBW(c.at, Plus(c.at, 2))
  PROVE  IInv'
<1>1. CASE <<e.type, e.vec>> \in FaultingGates
  <2>1. e.type = Soft
    BY <1>1 DEF OnlyIntGatesFault
  <2>2. /\ phase' = "exit" /\ inj' = NoEvent /\ cause' = c /\ rip' = rip
        /\ exit' = [code |-> "exception", vec |-> GP, info |-> GPError(e),
                    idt |-> e]
    BY <1>1 DEF TakeEvent, VMEXIT
  <2>3. ExitMatchesCause'
    BY <2>1, <2>2 DEF ExitMatchesCause, SoftInt
  <2>4. QED
    BY <2>2, <2>3 DEF IInv, InjectionMatchesCause, NoEvent
<1>2. CASE <<e.type, e.vec>> \notin FaultingGates
  BY <1>2 DEF TakeEvent, IInv, ExitMatchesCause, InjectionMatchesCause,
              NoEvent, NoCause
<1>3. QED
  BY <1>1, <1>2

LEMMA QuietExitInv ==
  ASSUME NEW code \in Codes \ {"swint", "exception"},
         VMEXIT(code, 0, 0, NoEvent) \/ VMEXIT(code, 2, 0, NoEvent),
         ~cause'.v
  PROVE  IInv'
BY DEF VMEXIT, IInv, ExitMatchesCause, InjectionMatchesCause, NoEvent

LEMMA QuietExit ==
  ASSUME IInv, phase = "exit", exit.code \notin {"swint", "exception"}
  PROVE  ~cause.v /\ ~inj.v
BY DEF IInv, ExitMatchesCause

(* What a pending injection says about the event the guest is owed.         *)
LEMMA PendingInjection ==
  ASSUME InjectionMatchesCause, phase = "entry", inj.v
  PROVE  /\ cause.v
         /\ inj.type = Soft =>
              /\ inj = SoftInt(cause.vec) /\ cause.type = Soft
              /\ rip = SetVMCBW(cause.at, Plus(cause.at, 2))
         /\ inj.type = Exc =>
              /\ rip = cause.at
              /\ cause.type = Soft => inj.err = 8 * cause.vec + 2
              /\ cause.type # Soft => inj.err = cause.err
<1>1. cause.v
  BY DEF InjectionMatchesCause
<1>2. CASE /\ cause.type = Soft
           /\ inj = SoftInt(cause.vec)
           /\ rip = SetVMCBW(cause.at, Plus(cause.at, 2))
  BY <1>1, <1>2 DEF SoftInt, Soft, Exc
<1>3. CASE /\ cause.type = Soft
           /\ inj = Exception(GP, 8 * cause.vec + 2)
           /\ rip = cause.at
  BY <1>1, <1>3 DEF Exception, Soft, Exc
<1>4. CASE /\ cause.type = Exc
           /\ inj = Exception(cause.vec, cause.err)
           /\ rip = cause.at
  BY <1>1, <1>4 DEF Exception, Soft, Exc
<1>5. CASE /\ cause.type = Exc
           /\ inj = Interrupt(cause.vec)
           /\ rip = cause.at
  BY <1>1, <1>5 DEF Interrupt, Irq, Soft, Exc
<1>6. QED
  BY <1>2, <1>3, <1>4, <1>5 DEF InjectionMatchesCause

(* The event a guest raised is carried unharmed through the exit, the       *)
(* dispatcher and the injection, whatever the guest does - if the VMCB was  *)
(* zeroed, only INT gates fault and every intercepted exception has a case. *)
THEOREM EventInductive ==
  ASSUME VmcbZeroed, OnlyIntGatesFault, ReinjectedOnly
  PROVE  Spec => []IInv
<1>1. Init => IInv
  <2> SUFFICES ASSUME Init PROVE IInv
    OBVIOUS
  <2>1. inj = NoEvent /\ cause = NoCause /\ phase = "entry"
    BY DEF Init, VmcbZeroed
  <2>2. ~inj.v /\ ~cause.v
    BY <2>1 DEF NoEvent, NoCause
  <2>3. QED
    BY <2>1, <2>2 DEF IInv, ExitMatchesCause, InjectionMatchesCause
<1>2. TypeOK /\ TypeOK' /\ IInv /\ [Next]_vars => IInv'
  <2> SUFFICES ASSUME TypeOK, TypeOK', IInv, [Next]_vars PROVE IInv'
    OBVIOUS
  <2>1. CASE VMRUN
    <3>1. CASE inj.v
      <4>1. TakeEvent(inj, cause) /\ phase = "entry"
        BY <2>1, <3>1 DEF VMRUN
      <4>2. inj.type = Soft =>
              /\ inj = SoftInt(cause.vec) /\ cause.v /\ cause.type = Soft
              /\ rip = SetVMCBW(cause.at, Plus(cause.at, 2))
        BY <3>1, <4>1, PendingInjection DEF IInv
      <4>3. QED
        BY <4>1, <4>2, TakeEventInv DEF TypeOK
    <3>2. CASE ~inj.v
      BY <2>1, <3>2 DEF VMRUN, IInv, ExitMatchesCause, InjectionMatchesCause
    <3>3. QED
      BY <3>1, <3>2
  <2>2. CASE GuestRuns
    BY <2>2 DEF GuestRuns, IInv, ExitMatchesCause, InjectionMatchesCause
  <2>3. ASSUME NEW n \in IntVectors, GuestInt(n) PROVE IInv'
    BY <2>3 DEF GuestInt, VMEXIT, IInv, ExitMatchesCause,
                InjectionMatchesCause, NoEvent
  <2>4. ASSUME NEW x \in Exceptions, GuestFaults(x[1], x[2]) PROVE IInv'
    <3>1. x[1] \in Byte /\ x[2] \in Int
      BY ConstantsAssumption
    <3>2. CASE x[1] \in ExcIntercepts
      <4>1. x[1] \in {1, 6, GP} /\ (x[1] # GP => x[2] = NoErr)
        BY <3>2, ConstantsAssumption DEF ReinjectedOnly, GP
      <4>2. /\ phase' = "exit" /\ inj' = NoEvent /\ rip' = rip
            /\ exit' = [code |-> "exception", vec |-> x[1], info |-> x[2],
                        idt |-> NoEvent]
            /\ cause' = RaisedAt(Exception(x[1], x[2]), rip)
        BY <2>4, <3>2 DEF GuestFaults, VMEXIT
      <4>3. ExitMatchesCause'
        BY <4>1, <4>2 DEF ExitMatchesCause, NoEvent
      <4>4. QED
        BY <4>2, <4>3 DEF IInv, InjectionMatchesCause, NoEvent
    <3>3. CASE x[1] \notin ExcIntercepts
      <4>1. /\ Exception(x[1], x[2]) \in Event
            /\ RaisedAt(Exception(x[1], x[2]), rip) \in Cause
            /\ Exception(x[1], x[2]).type # Soft
        BY <3>1, EventTypes DEF TypeOK, Exception, Exc, Soft
      <4>2. QED
        BY <2>4, <3>3, <4>1, TakeEventInv DEF GuestFaults
    <3>4. QED
      BY <3>2, <3>3
  <2>5. ASSUME NEW n \in IrqVectors, ExternalInterrupt(n) PROVE IInv'
    <3>1. /\ Interrupt(n) \in Event
          /\ RaisedAt(Interrupt(n), rip) \in Cause
          /\ Interrupt(n).type # Soft
      BY EventTypes, ConstantsAssumption DEF TypeOK, Interrupt, Irq, Soft
    <3>2. QED
      BY <2>5, <3>1, TakeEventInv DEF ExternalInterrupt
  <2>6. ASSUME NEW kind, NEW code \in Codes \ {"swint", "exception"},
               NEW length, GuestTraps(kind, code, length)
        PROVE  IInv'
    BY <2>6, QuietExitInv DEF GuestTraps, IInv
  <2>7. CASE GuestHalts \/ GuestTouchesUnmapped \/ GuestShutsDown \/ GuestUsesSVM
    BY <2>6, <2>7 DEF GuestHalts, GuestTouchesUnmapped, GuestShutsDown,
                      GuestUsesSVM, Codes
  <2>8. CASE GuestWritesCR0
    <3>1. CASE GuestTraps("cr0", "cr0write", 2)
      BY <2>6, <3>1 DEF Codes
    <3>2. CASE ~GuestTraps("cr0", "cr0write", 2)
      BY <2>8, <3>2 DEF GuestWritesCR0, IInv, ExitMatchesCause,
                        InjectionMatchesCause
    <3>3. QED
      BY <3>1, <3>2
  <2>9. CASE NonMaskable
    BY <2>9, QuietExitInv DEF NonMaskable, IInv, Codes
  <2>10. CASE EmulateInt
    <3>1. inj' = NoEvent
      BY <2>10, AnswerIsFinal DEF EmulateInt, TypeOK
    <3>2. QED
      BY <2>10, <3>1 DEF EmulateInt, IInv, ExitMatchesCause,
                         InjectionMatchesCause, NoEvent, NoCause
  <2>11. CASE InjectInt
    <3>1. cause = RaisedAt(SoftInt(exit.vec), rip) /\ nrip = Plus(rip, 2)
      BY <2>11 DEF InjectInt, Serving, IInv, ExitMatchesCause
    <3>2. /\ phase' = "entry" /\ cause' = cause
          /\ inj' = SoftInt(cause.vec) /\ inj'.v
          /\ rip' = SetVMCBW(cause.at, Plus(cause.at, 2))
          /\ cause.v /\ cause.type = Soft
      BY <2>11, <3>1 DEF InjectInt, Resume, RaisedAt, SoftInt
    <3>3. QED
      BY <3>2 DEF IInv, ExitMatchesCause, InjectionMatchesCause
  <2>12. CASE HandleCR0Write
    <3>1. ~cause.v /\ ~inj.v
      BY <2>12, QuietExit DEF HandleCR0Write, Serving
    <3>2. QED
      BY <2>12, <3>1 DEF HandleCR0Write, Resume, IInv, ExitMatchesCause,
                         InjectionMatchesCause
  <2>13. CASE ReflectGP
    <3>1. phase' = "entry" /\ cause' = cause
      BY <2>13 DEF ReflectGP, Resume
    <3>2. CASE exit.idt.v
      <4>1. /\ cause.v /\ cause.type = Soft
            /\ exit.idt.vec = cause.vec
            /\ rip = SetVMCBW(cause.at, Plus(cause.at, 2))
        BY <2>13, <3>2 DEF ReflectGP, Serving, IInv, ExitMatchesCause, SoftInt
      <4>2. rip' = cause.at
        BY <2>13, <3>2, <4>1, MinusUndoesSkip DEF ReflectGP, TypeOK, Cause
      <4>3. inj' = Exception(GP, 8 * cause.vec + 2)
        BY <2>13, <3>2, <4>1 DEF ReflectGP
      <4>4. inj'.v
        BY <4>3 DEF Exception
      <4>5. QED
        BY <3>1, <4>1, <4>2, <4>3, <4>4
           DEF IInv, ExitMatchesCause, InjectionMatchesCause
    <3>3. CASE ~exit.idt.v
      <4>1. cause = RaisedAt(Exception(GP, exit.info), rip)
        BY <2>13, <3>3 DEF ReflectGP, Serving, IInv, ExitMatchesCause
      <4>2. cause.v /\ cause.type = Exc /\ cause.vec = GP
            /\ cause.err = exit.info /\ cause.at = rip
        BY <4>1 DEF RaisedAt, Exception
      <4>3. inj' = Exception(cause.vec, cause.err) /\ rip' = cause.at
        BY <2>13, <3>3, <4>2 DEF ReflectGP
      <4>4. inj'.v /\ inj'.err = cause.err
        BY <4>3 DEF Exception
      <4>5. QED
        BY <3>1, <4>2, <4>3, <4>4
           DEF IInv, ExitMatchesCause, InjectionMatchesCause
    <3>4. QED
      BY <3>2, <3>3
  <2>14. CASE ReflectException
    <3>1. /\ phase = "exit" /\ exit.code = "exception" /\ exit.vec # GP
          /\ phase' = "entry" /\ cause' = cause /\ rip' = rip
      BY <2>14 DEF ReflectException, Resume, Serving
    <3>2. /\ exit.vec \in {1, 6} /\ exit.info = NoErr
          /\ cause = RaisedAt(Exception(exit.vec, exit.info), rip)
      BY <3>1 DEF IInv, ExitMatchesCause
    <3>3. /\ cause.v /\ cause.type = Exc /\ cause.vec = exit.vec
          /\ cause.err = NoErr /\ cause.at = rip
      BY <3>2 DEF RaisedAt, Exception
    <3>4. inj' \in {Exception(cause.vec, cause.err), Interrupt(cause.vec)}
      BY <2>14, <3>2, <3>3 DEF ReflectException
    <3>5. inj'.v /\ inj'.err = cause.err
      BY <3>3, <3>4 DEF Exception, Interrupt
    <3>6. QED
      BY <3>1, <3>3, <3>4, <3>5
         DEF IInv, ExitMatchesCause, InjectionMatchesCause
  <2>15. CASE HandleNPF \/ HandleHLT
    <3>1. ~cause.v /\ ~inj.v
      BY <2>15, QuietExit DEF HandleNPF, HandleHLT, Serving
    <3>2. QED
      BY <2>15, <3>1 DEF HandleNPF, HandleHLT, Resume, IInv,
                         ExitMatchesCause, InjectionMatchesCause
  <2>16. CASE InfiniteLoop
    <3>1. ~inj.v
      BY <2>16 DEF InfiniteLoop, Serving, IInv
    <3>2. QED
      BY <2>16, <3>1 DEF InfiniteLoop, IInv, ExitMatchesCause,
                         InjectionMatchesCause
  <2>17. CASE UNCHANGED vars
    BY <2>17 DEF vars, IInv, ExitMatchesCause, InjectionMatchesCause
  <2>18. QED
    BY <2>1, <2>2, <2>3, <2>4, <2>5, <2>7, <2>8, <2>9, <2>10, <2>11, <2>12,
       <2>13, <2>14, <2>15, <2>16, <2>17
       DEF Next, Guest, Irqs, Dispatch
<1>3. QED
  BY <1>1, <1>2, TypeCorrect, PTL DEF Spec

(* No event is lost, none is invented, an INT returns behind itself and a   *)
(* #GP is reported at its cause, with the right error code.                 *)
THEOREM EventIntegrityHolds ==
  ASSUME VmcbZeroed, OnlyIntGatesFault, ReinjectedOnly
  PROVE  Spec => []EventIntegrity
<1>1. TypeOK /\ IInv => EventIntegrity
  <2> SUFFICES ASSUME TypeOK, IInv PROVE EventIntegrity
    OBVIOUS
  <2>1. NothingLost
    BY DEF IInv, NothingLost
  <2>2. ASSUME inj.v PROVE phase = "entry" /\ cause.v
    BY <2>2 DEF IInv, InjectionMatchesCause
  <2>3. ASSUME inj.v, inj.type = Soft
        PROVE  /\ cause.type = Soft /\ cause.vec = inj.vec
               /\ rip = SetVMCBW(cause.at, Plus(cause.at, 2))
    BY <2>2, <2>3, PendingInjection DEF IInv, SoftInt
  <2>4. ASSUME inj.v, inj.type = Exc
        PROVE  /\ rip = cause.at
               /\ inj.err = IF cause.type = Soft
                            THEN GPError(SoftInt(cause.vec)) ELSE cause.err
    <3>1. /\ rip = cause.at
          /\ cause.type = Soft => inj.err = 8 * cause.vec + 2
          /\ cause.type # Soft => inj.err = cause.err
      BY <2>2, <2>4, PendingInjection DEF IInv
    <3>2. GPError(SoftInt(cause.vec)) = 8 * cause.vec + 2
      BY DEF GPError, SoftInt, Soft, Irq, Exc, TypeOK, Cause, Byte
    <3>3. QED
      BY <3>1, <3>2
  <2>5. ReturnsAfterInt
    BY <2>3, SkipWithinBlock DEF ReturnsAfterInt, TypeOK, Cause
  <2>6. QED
    BY <2>1, <2>2, <2>3, <2>4, <2>5
       DEF EventIntegrity, NothingInvented, FaultReportedAtCause
<1>2. QED
  BY <1>1, EventInductive, TypeCorrect, PTL
=============================================================================
