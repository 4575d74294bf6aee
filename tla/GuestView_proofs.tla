-------------------------- MODULE GuestView_proofs --------------------------
(***************************************************************************)
(* VisorLoop implements GuestView for a real-mode guest: a step of the loop *)
(* is a step of what the guest sees, or one the guest does not notice.      *)
(***************************************************************************)
EXTENDS VisorLoop_proofs

-----------------------------------------------------------------------------
(* Who answers an INT.                                                      *)

(* What the visor answers a call with asks for no other call it serves.     *)
LEMMA AnswerUnserved ==
  ASSUME NEW n \in Byte, NEW r \in Regs, Emulated(n, r), NEW m \in Byte
  PROVE  ~Emulated(m, HandleRealModeSWInterrupt(n, r).regs)
<1> DEFINE answer == HandleRealModeSWInterrupt(n, r).regs
<1>1. CASE n = 21 /\ r.ah = 136
  <2>1. answer = [r EXCEPT !.ah = 12, !.al = 0, !.cf = FALSE]
    BY <1>1 DEF HandleRealModeSWInterrupt
  <2>2. answer.ah = 12
    BY <2>1 DEF Regs
  <2>3. QED
    BY <2>2 DEF Emulated
<1>2. CASE n = 19 /\ r.ah % 16 = 8
  <2>1. (r.ah \div 8) % 2 = 1
    BY <1>2 DEF Regs, Byte
  <2>2. answer.ah = 0
    BY <1>2, <2>1 DEF HandleRealModeSWInterrupt
  <2>3. QED
    BY <2>2 DEF Emulated
<1>3. QED
  BY <1>1, <1>2 DEF Emulated

(* Delivering an event through a usable gate, or not at all, settles no     *)
(* answer: the registers stay, and so does the INT that is owed.            *)
LEMMA TakeEventSettled ==
  ASSUME AnswerSettled, NEW e, NEW c, TakeEvent(e, c),
         c.v \/ c = NoCause,
         c.v /\ c.type = Soft =>
           c.vec \in IntVectors /\ ~Emulated(c.vec, regs)
  PROVE  AnswerSettled'
<1>1. CASE <<e.type, e.vec>> \in FaultingGates
  <2>1. frame' = NoFrame /\ regs' = regs /\ cause' = c
    BY <1>1 DEF TakeEvent, VMEXIT
  <2>2. QED
    BY <2>1 DEF AnswerSettled
<1>2. CASE <<e.type, e.vec>> \notin FaultingGates
  <2>1. phase' = "guest" /\ regs' = regs /\ cause' = NoCause
    BY <1>2 DEF TakeEvent
  <2>2. ~cause'.v
    BY <2>1 DEF NoCause
  <2>3. QED
    BY <2>1, <2>2 DEF AnswerSettled
<1>3. QED
  BY <1>1, <1>2

(* Steps that raise no INT, and leave the registers or compute new ones.    *)
LEMMA OtherwiseSettled ==
  ASSUME AnswerSettled, cause' = cause \/ cause'.v, ~cause'.v \/ cause'.type # Soft,
         regs' = regs \/ regs' \in RegFiles,
         phase' \in {"entry", "exit"} => frame' = NoFrame
  PROVE  AnswerSettled'
BY DEF AnswerSettled

(* Steps of the switch that leave the INT that is owed and the registers.   *)
LEMMA ResumeSettled ==
  ASSUME AnswerSettled, Resume, regs' = regs,
         cause.v /\ cause.type = Soft => ~Emulated(cause.vec, regs)
  PROVE  AnswerSettled'
BY DEF AnswerSettled, Resume

(* Who answers an INT does not change between the INT and the answer.       *)
THEOREM AnswerStaysSettled ==
  ASSUME VmcbZeroed, OnlyIntGatesFault, ReinjectedOnly
  PROVE  Spec => []AnswerSettled
<1>1. Init => AnswerSettled
  BY DEF Init, AnswerSettled, NoCause
<1>2. TypeOK /\ IInv /\ AnswerSettled /\ [Next]_vars => AnswerSettled'
  <2> SUFFICES ASSUME TypeOK, IInv, AnswerSettled, [Next]_vars
               PROVE  AnswerSettled'
    OBVIOUS
  <2>1. CASE VMRUN
    <3>1. CASE inj.v
      <4>1. TakeEvent(inj, cause) /\ phase = "entry"
        BY <2>1, <3>1 DEF VMRUN
      <4>2. QED
        BY <4>1, TakeEventSettled DEF AnswerSettled, Serving
    <3>2. CASE ~inj.v
      <4>1. phase = "entry" /\ ~cause.v /\ cause' = cause /\ regs' = regs
        BY <2>1, <3>2 DEF VMRUN, IInv, InjectionMatchesCause
      <4>2. QED
        BY <2>1, <3>2, <4>1, OtherwiseSettled DEF VMRUN
    <3>3. QED
      BY <3>1, <3>2
  <2>2. CASE GuestRuns
    BY <2>2, OtherwiseSettled DEF GuestRuns, IInv
  <2>3. ASSUME NEW n \in IntVectors, GuestInt(n) PROVE AnswerSettled'
    <3>1. /\ Serving("swint")' /\ frame' = NoFrame /\ regs' = regs
          /\ cause' = RaisedAt(SoftInt(n), rip)
      BY <2>3 DEF GuestInt, VMEXIT, Serving
    <3>2. cause'.v /\ cause'.vec = n
      BY <3>1 DEF RaisedAt, SoftInt
    <3>3. QED
      BY <3>1, <3>2 DEF AnswerSettled
  <2>4. ASSUME NEW x \in Exceptions, GuestFaults(x[1], x[2])
        PROVE  AnswerSettled'
    <3>1. /\ RaisedAt(Exception(x[1], x[2]), rip).v
          /\ RaisedAt(Exception(x[1], x[2]), rip).type # Soft
      BY DEF RaisedAt, Exception, Exc, Soft
    <3>2. CASE x[1] \in ExcIntercepts
      BY <2>4, <3>1, <3>2, OtherwiseSettled DEF GuestFaults, VMEXIT
    <3>3. CASE x[1] \notin ExcIntercepts
      BY <2>4, <3>1, <3>3, TakeEventSettled DEF GuestFaults
    <3>4. QED
      BY <3>2, <3>3
  <2>5. ASSUME NEW n \in IrqVectors, ExternalInterrupt(n)
        PROVE  AnswerSettled'
    <3>1. /\ RaisedAt(Interrupt(n), rip).v
          /\ RaisedAt(Interrupt(n), rip).type # Soft
      BY DEF RaisedAt, Interrupt, Irq, Soft
    <3>2. QED
      BY <2>5, <3>1, TakeEventSettled DEF ExternalInterrupt
  <2>6. ASSUME NEW kind, NEW code, NEW length, GuestTraps(kind, code, length)
        PROVE  AnswerSettled'
    BY <2>6, OtherwiseSettled DEF GuestTraps, VMEXIT, IInv
  <2>7. CASE GuestHalts \/ GuestTouchesUnmapped \/ GuestShutsDown \/ GuestUsesSVM
    BY <2>6, <2>7 DEF GuestHalts, GuestTouchesUnmapped, GuestShutsDown,
                      GuestUsesSVM
  <2>8. CASE GuestWritesCR0
    <3>1. CASE GuestTraps("cr0", "cr0write", 2)
      BY <2>6, <3>1
    <3>2. CASE ~GuestTraps("cr0", "cr0write", 2)
      BY <2>8, <3>2, OtherwiseSettled DEF GuestWritesCR0, IInv
    <3>3. QED
      BY <3>1, <3>2
  <2>9. CASE NonMaskable
    BY <2>9, OtherwiseSettled DEF NonMaskable, VMEXIT, IInv
  <2>10. CASE EmulateInt
    <3>1. exit.vec \in Byte /\ regs \in Regs /\ Emulated(exit.vec, regs)
      BY <2>10 DEF EmulateInt, TypeOK
    <3>2. \A m \in Byte : ~Emulated(m, regs')
      BY <2>10, <3>1, AnswerUnserved DEF EmulateInt
    <3>3. cause' = NoCause /\ ~cause'.v /\ frame' = NoFrame
      BY <2>10 DEF EmulateInt, NoCause
    <3>4. QED
      BY <3>2, <3>3 DEF AnswerSettled
  <2>11. CASE InjectInt
    <3>1. cause = RaisedAt(SoftInt(exit.vec), rip)
      BY <2>11 DEF InjectInt, Serving, IInv, ExitMatchesCause
    <3>2. cause.vec = exit.vec
      BY <3>1 DEF RaisedAt, SoftInt
    <3>3. QED
      BY <2>11, <3>2, ResumeSettled DEF InjectInt
  <2>12. CASE HandleCR0Write
    BY <2>12, QuietExit, ResumeSettled DEF HandleCR0Write, Serving
  <2>13. CASE ReflectGP
    BY <2>13, ResumeSettled DEF ReflectGP, AnswerSettled, Serving
  <2>14. CASE ReflectException
    BY <2>14, ResumeSettled DEF ReflectException, AnswerSettled, Serving
  <2>15. CASE HandleNPF \/ HandleHLT
    BY <2>15, QuietExit, ResumeSettled DEF HandleNPF, HandleHLT, Serving
  <2>16. CASE InfiniteLoop
    <3>1. ~cause.v
      BY <2>16, QuietExit DEF InfiniteLoop, Serving
    <3>2. QED
      BY <2>16, <3>1, OtherwiseSettled DEF InfiniteLoop
  <2>17. CASE UNCHANGED vars
    BY <2>17 DEF vars, AnswerSettled, Serving
  <2>18. QED
    BY <2>1, <2>2, <2>3, <2>4, <2>5, <2>7, <2>8, <2>9, <2>10, <2>11, <2>12,
       <2>13, <2>14, <2>15, <2>16, <2>17
       DEF Next, Guest, Irqs, Dispatch
<1>3. QED
  BY <1>1, <1>2, TypeCorrect, EventInductive, PTL DEF Spec
-----------------------------------------------------------------------------
(* The steps of GuestView that steps of the loop map to.                    *)

RealMode == H = 1

(* In real mode the word-wide skip of an INT is the processor's.            *)
LEMMA RealModeSkip ==
  ASSUME RealMode, NEW a \in Addr
  PROVE  SetVMCBW(a, Plus(a, 2)) = Plus(a, 2)
BY SkipWithinBlock DEF RealMode, SameBlock

(* The guest computes, or executes an instruction that owes it nothing.     *)
LEMMA ComputeStep ==
  ASSUME ~cause.v, cause' = cause, phase # "stuck", phase' # "stuck",
         frame' = NoFrame, rip' \in Addr, regs' \in RegFiles \cup {regs}
  PROVE  View!Compute
<1>1. UNCHANGED <<cause, phase # "stuck">>
  OBVIOUS
<1>2. (IF cause.v THEN cause.at ELSE rip)' \in Addr
  OBVIOUS
<1>3. QED
  BY <1>1, <1>2 DEF View!Compute

(* The guest notices nothing.                                               *)
LEMMA StutterStep ==
  ASSUME cause' = cause, regs' = regs, frame' = frame, cause.v \/ rip' = rip,
         phase # "stuck" <=> phase' # "stuck"
  PROVE  UNCHANGED View!gvars
BY DEF View!gvars

(* An instruction asks for an event; the visor has it before the guest.     *)
LEMMA AskStep ==
  ASSUME ~cause.v, phase # "stuck", phase' # "stuck", frame' = NoFrame,
         regs' = regs, NEW e \in Event,
         e.err \in {x[2] : x \in Exceptions} \cup {NoErr},
         cause' = RaisedAt(e, rip)
  PROVE  View!Ask
<1>1. cause'.v /\ cause'.at = rip
  BY DEF RaisedAt
<1>2. /\ e.type \in {0, 3, 4} /\ e.vec \in 0..255
      /\ cause' = [v |-> TRUE, type |-> e.type, vec |-> e.vec, err |-> e.err,
                   at |-> rip]
  BY DEF RaisedAt, Event, Byte, Irq, Exc, Soft
<1>3. QED
  BY <1>1, <1>2 DEF View!Ask, View!Exc, View!Soft

(* The processor delivers an event the guest has raised, or an interrupt.   *)
LEMMA DirectStep ==
  ASSUME ~cause.v, phase # "stuck", NEW e \in Event, NEW c,
         e.err \in {x[2] : x \in Exceptions} \cup {NoErr},
         <<e.type, e.vec>> \notin FaultingGates, TakeEvent(e, c),
         cause = NoCause
  PROVE  View!DeliverDirectly
<1>1. /\ phase' = "guest" /\ rip' \in Handlers /\ cause' = cause
      /\ regs' = regs
      /\ frame' = [v |-> TRUE, vec |-> e.vec, err |-> e.err, ret |-> rip]
  BY DEF TakeEvent
<1>2. e.vec \in 0..255
  BY DEF Event, Byte
<1>3. QED
  BY <1>1, <1>2 DEF View!DeliverDirectly, View!Enter, View!Pushed

(* The event the guest is owed reaches the guest's own handler: the frame   *)
(* that is pushed is the one GuestView asks for.                            *)
LEMMA DeliverOwed ==
  ASSUME RealMode, TypeOK, InjectionMatchesCause, AnswerSettled,
         phase = "entry", inj.v, TakeEvent(inj, cause),
         <<inj.type, inj.vec>> \notin FaultingGates
  PROVE  View!DeliverInt \/ View!ReflectInt \/ View!DeliverFault
<1>1. /\ phase' = "guest" /\ rip' \in Handlers /\ cause' = NoCause
      /\ regs' = regs /\ ~cause'.v
      /\ frame' = [v |-> TRUE, vec |-> inj.vec, err |-> inj.err, ret |-> rip]
  BY DEF TakeEvent, NoCause
<1>2. cause.v /\ cause.at \in Addr
  BY DEF InjectionMatchesCause, TypeOK, Cause
<1>3. /\ UNCHANGED <<regs, phase # "stuck">>
      /\ (IF cause.v THEN cause.at ELSE rip)' \in Handlers
  BY <1>1
<1>4. ASSUME cause.type = Soft
      PROVE  <<cause.vec, regs>> \notin
               {c \in (IntVectors \X RegFiles) : Emulated(c[1], c[2])}
  BY <1>2, <1>4 DEF AnswerSettled, Serving
<1>5. CASE /\ cause.type = Soft
           /\ inj = SoftInt(cause.vec)
           /\ rip = SetVMCBW(cause.at, Plus(cause.at, 2))
  <2>1. inj.vec = cause.vec /\ inj.err = -1
    BY <1>5 DEF SoftInt, NoErr
  <2>2. rip = [a \in Addr |-> Plus(a, 2)][cause.at]
    BY <1>2, <1>5, RealModeSkip
  <2>3. View!DeliverInt
    BY <1>1, <1>2, <1>3, <1>4, <1>5, <2>1, <2>2
       DEF View!DeliverInt, View!Enter, View!Pushed, View!Soft, Soft
  <2>4. QED
    BY <2>3
<1>6. CASE /\ cause.type = Soft
           /\ inj = Exception(GP, 8 * cause.vec + 2)
           /\ rip = cause.at
  <2>1. inj.vec = 13 /\ inj.err = 8 * cause.vec + 2
    BY <1>6 DEF Exception, GP
  <2>2. View!ReflectInt
    BY <1>1, <1>2, <1>3, <1>4, <1>6, <2>1
       DEF View!ReflectInt, View!Enter, View!Pushed, View!Soft, View!GP, Soft
  <2>3. QED
    BY <2>2
<1>7. CASE /\ cause.type = Exc
           /\ inj \in {Exception(cause.vec, cause.err), Interrupt(cause.vec)}
           /\ inj.err = cause.err
           /\ rip = cause.at
  <2>1. inj.vec = cause.vec
    BY <1>7 DEF Exception, Interrupt
  <2>2. View!DeliverFault
    BY <1>1, <1>2, <1>3, <1>7, <2>1
       DEF View!DeliverFault, View!Enter, View!Pushed, View!Exc, Exc
  <2>3. QED
    BY <2>2
<1>8. QED
  BY <1>5, <1>6, <1>7 DEF InjectionMatchesCause

(* A call the visor serves is answered in one step, with the registers      *)
(* GuestView names, and the guest goes on behind the INT.                   *)
LEMMA ServeStep ==
  ASSUME RealMode, TypeOK, IInv, AnswerSettled, EmulateInt
  PROVE  View!Serve
<1>1. /\ cause = RaisedAt(SoftInt(exit.vec), rip) /\ nrip = Plus(rip, 2)
      /\ phase = "exit" /\ Emulated(exit.vec, regs)
  BY DEF EmulateInt, Serving, IInv, ExitMatchesCause
<1>2. /\ cause.v /\ cause.type = Soft /\ cause.vec = exit.vec
      /\ cause.at = rip
  BY <1>1 DEF RaisedAt, SoftInt
<1>3. /\ <<cause.vec, regs>> \in IntVectors \X RegFiles
      /\ Emulated(cause.vec, regs)
  BY <1>1, <1>2, ConstantsAssumption DEF AnswerSettled
<1>4. regs' = HandleRealModeSWInterrupt(cause.vec, regs).regs
  BY <1>2 DEF EmulateInt
<1>5. rip' = Plus(cause.at, 2) /\ cause.at \in Addr
  BY <1>1, <1>2, RealModeSkip DEF EmulateInt, TypeOK
<1>6. /\ cause' = NoCause /\ ~cause'.v /\ frame' = NoFrame
      /\ phase' # "stuck" /\ phase # "stuck"
  BY <1>1 DEF EmulateInt, NoCause
<1>7. /\ <<cause.vec, regs>> \in
            {c \in (IntVectors \X RegFiles) : Emulated(c[1], c[2])}
      /\ regs' = [c \in IntVectors \X RegFiles |->
                    HandleRealModeSWInterrupt(c[1], c[2]).regs][<<cause.vec, regs>>]
  BY <1>3, <1>4
<1>8. (IF cause.v THEN cause.at ELSE rip)' = [a \in Addr |-> Plus(a, 2)][cause.at]
  BY <1>5, <1>6
<1>9. QED
  BY <1>2, <1>6, <1>7, <1>8 DEF View!Serve, View!Soft, Soft

LEMMA ViewInit == Init => View!Init
<1> SUFFICES ASSUME Init PROVE View!Init
  OBVIOUS
<1>1. cause = NoCause /\ ~cause.v /\ phase # "stuck"
  BY DEF Init, NoCause
<1>2. (IF cause.v THEN cause.at ELSE rip) = Start
  BY <1>1 DEF Init
<1>3. QED
  BY <1>1, <1>2 DEF Init, View!Init

(* One step of the loop.                                                    *)
ViewInv == TypeOK /\ IInv /\ AnswerSettled

LEMMA VMRUNView ==
  ASSUME RealMode, OnlyIntGatesFault, ViewInv, VMRUN
  PROVE  [View!Next]_(View!gvars)
<1> USE DEF ViewInv
<1>1. phase = "entry" /\ InjectionMatchesCause /\ frame = NoFrame
  BY DEF VMRUN, IInv, AnswerSettled
<1>2. CASE inj.v /\ <<inj.type, inj.vec>> \notin FaultingGates
  <2>1. TakeEvent(inj, cause)
    BY <1>2 DEF VMRUN
  <2>2. QED
    BY <1>1, <1>2, <2>1, DeliverOwed DEF View!Next
<1>3. CASE inj.v /\ <<inj.type, inj.vec>> \in FaultingGates
  <2>1. /\ phase' = "exit" /\ cause' = cause /\ regs' = regs
        /\ rip' = rip /\ frame' = NoFrame
    BY <1>3 DEF VMRUN, TakeEvent, VMEXIT
  <2>2. QED
    BY <1>1, <2>1, StutterStep
<1>4. CASE ~inj.v
  <2>1. phase' = "guest" /\ frame' = NoFrame
    BY <1>4 DEF VMRUN
  <2>2. UNCHANGED <<cause, regs, rip>>
    BY <1>4 DEF VMRUN
  <2>3. QED
    BY <1>1, <2>1, <2>2, StutterStep
<1>5. QED
  BY <1>2, <1>3, <1>4

LEMMA GuestStepView ==
  ASSUME OnlyIntGatesFault, ViewInv, Guest \/ Irqs
  PROVE  [View!Next]_(View!gvars)
<1> USE DEF ViewInv
<1>1. ASSUME phase = "guest"
      PROVE  ~cause.v /\ cause = NoCause /\ phase # "stuck" /\ rip \in Addr
  BY <1>1 DEF IInv, AnswerSettled, TypeOK
<1>2. CASE GuestRuns
  <2>1. View!Compute
    BY <1>1, <1>2, ComputeStep DEF GuestRuns
  <2>2. QED
    BY <2>1 DEF View!Next
<1>3. ASSUME NEW n \in IntVectors, GuestInt(n) PROVE View!Next
  <2>1. SoftInt(n) \in Event /\ SoftInt(n).err = NoErr
    BY ConstantsAssumption, EventTypes DEF SoftInt
  <2>2. /\ phase = "guest" /\ phase' = "exit" /\ frame' = NoFrame
        /\ regs' = regs /\ cause' = RaisedAt(SoftInt(n), rip)
    BY <1>3 DEF GuestInt, VMEXIT
  <2>3. View!Ask
    BY <1>1, <2>1, <2>2, AskStep
  <2>4. QED
    BY <2>3 DEF View!Next
<1>4. ASSUME NEW x \in Exceptions, GuestFaults(x[1], x[2]) PROVE View!Next
  <2> DEFINE e == Exception(x[1], x[2])
  <2>1. /\ e \in Event /\ e.type = Exc
        /\ e.err \in {y[2] : y \in Exceptions} \cup {NoErr}
    BY ConstantsAssumption, EventTypes DEF Exception
  <2>2. CASE x[1] \in ExcIntercepts
    <3>1. /\ phase = "guest" /\ phase' = "exit" /\ frame' = NoFrame
          /\ regs' = regs /\ cause' = RaisedAt(e, rip)
      BY <1>4, <2>2 DEF GuestFaults, VMEXIT
    <3>2. View!Ask
      BY <1>1, <2>1, <3>1, AskStep
    <3>3. QED
      BY <3>2 DEF View!Next
  <2>3. CASE x[1] \notin ExcIntercepts
    <3>1. phase = "guest" /\ TakeEvent(e, RaisedAt(e, rip))
      BY <1>4, <2>3 DEF GuestFaults
    <3>2. <<e.type, e.vec>> \notin FaultingGates
      BY <2>1 DEF OnlyIntGatesFault, Exc, Soft
    <3> HIDE DEF e
    <3>3. View!DeliverDirectly
      BY <1>1, <2>1, <3>1, <3>2, DirectStep
    <3>4. QED
      BY <3>3 DEF View!Next
  <2>4. QED
    BY <2>2, <2>3
<1>5. ASSUME NEW n \in IrqVectors, ExternalInterrupt(n) PROVE View!Next
  <2> DEFINE e == Interrupt(n)
  <2>1. e \in Event /\ e.type = Irq /\ e.err = NoErr
    BY ConstantsAssumption, EventTypes DEF Interrupt
  <2>2. phase = "guest" /\ TakeEvent(e, RaisedAt(e, rip))
    BY <1>5 DEF ExternalInterrupt
  <2>3. <<e.type, e.vec>> \notin FaultingGates
    BY <2>1 DEF OnlyIntGatesFault, Irq, Soft
  <2> HIDE DEF e
  <2>4. View!DeliverDirectly
    BY <1>1, <2>1, <2>2, <2>3, DirectStep
  <2>5. QED
    BY <2>4 DEF View!Next
<1>6. ASSUME NEW kind, NEW code, NEW length, GuestTraps(kind, code, length)
      PROVE  View!Next
  <2>1. /\ phase = "guest" /\ phase' = "exit" /\ frame' = NoFrame
        /\ UNCHANGED <<rip, regs, cause>>
    BY <1>6 DEF GuestTraps, VMEXIT
  <2>2. View!Compute
    BY <1>1, <2>1, ComputeStep
  <2>3. QED
    BY <2>2 DEF View!Next
<1>7. CASE GuestHalts \/ GuestTouchesUnmapped \/ GuestShutsDown \/ GuestUsesSVM
  BY <1>6, <1>7 DEF GuestHalts, GuestTouchesUnmapped, GuestShutsDown,
                    GuestUsesSVM
<1>8. CASE GuestWritesCR0
  <2>1. CASE GuestTraps("cr0", "cr0write", 2)
    BY <1>6, <2>1
  <2>2. CASE ~GuestTraps("cr0", "cr0write", 2)
    <3>1. /\ phase = "guest" /\ phase' = "guest" /\ frame' = NoFrame
          /\ UNCHANGED <<regs, cause>> /\ rip' = Plus(rip, 2)
      BY <1>8, <2>2 DEF GuestWritesCR0
    <3>2. rip' \in Addr
      BY <1>1, <3>1, PlusAddr
    <3>3. View!Compute
      BY <1>1, <3>1, <3>2, ComputeStep
    <3>4. QED
      BY <3>3 DEF View!Next
  <2>3. QED
    BY <2>1, <2>2
<1>9. CASE NonMaskable
  <2>1. /\ phase = "guest" /\ phase' = "exit" /\ frame' = NoFrame
        /\ UNCHANGED <<rip, regs, cause>>
    BY <1>9 DEF NonMaskable, VMEXIT
  <2>2. View!Compute
    BY <1>1, <2>1, ComputeStep
  <2>3. QED
    BY <2>2 DEF View!Next
<1>10. QED
  BY <1>2, <1>3, <1>4, <1>5, <1>7, <1>8, <1>9 DEF Guest, Irqs

LEMMA DispatchView ==
  ASSUME RealMode, ViewInv, Dispatch
  PROVE  [View!Next]_(View!gvars)
<1> USE DEF ViewInv
<1>1. phase = "exit" /\ frame = NoFrame
  BY DEF Dispatch, HandleNPF, EmulateInt, InjectInt, HandleCR0Write,
         ReflectGP, ReflectException, HandleHLT, InfiniteLoop, Serving,
         AnswerSettled
<1>2. ASSUME Resume, regs' = regs, cause.v \/ rip' = rip
      PROVE  UNCHANGED View!gvars
  <2>1. phase' = "entry" /\ frame' = NoFrame /\ cause' = cause
    BY <1>2 DEF Resume
  <2>2. QED
    BY <1>1, <1>2, <2>1, StutterStep
<1>3. CASE EmulateInt
  BY <1>3, ServeStep DEF View!Next
<1>4. CASE InjectInt
  <2>1. cause = RaisedAt(SoftInt(exit.vec), rip)
    BY <1>4 DEF InjectInt, Serving, IInv, ExitMatchesCause
  <2>2. cause.v
    BY <2>1 DEF RaisedAt
  <2>3. QED
    BY <1>2, <1>4, <2>2 DEF InjectInt
<1>5. CASE HandleCR0Write
  <2>1. /\ ~cause.v /\ cause' = cause /\ phase' = "entry"
        /\ frame' = NoFrame /\ rip' \in Addr /\ regs' = regs
    BY <1>5, QuietExit DEF HandleCR0Write, Serving, Resume, TypeOK
  <2>2. View!Compute
    BY <1>1, <2>1, ComputeStep
  <2>3. QED
    BY <2>2 DEF View!Next
<1>6. CASE ReflectGP \/ ReflectException
  <2>1. /\ exit.code = "exception" /\ Resume /\ regs' = regs
        /\ rip' = rip \/ exit.idt.v
    BY <1>6 DEF ReflectGP, ReflectException, Serving
  <2>2. cause.v \/ rip' = rip
    BY <1>1, <2>1 DEF IInv, ExitMatchesCause
  <2>3. QED
    BY <1>2, <2>1, <2>2
<1>7. CASE HandleNPF \/ HandleHLT
  BY <1>2, <1>7 DEF HandleNPF, HandleHLT
<1>8. CASE InfiniteLoop
  <2>1. /\ ~cause.v /\ phase' = "stuck" /\ frame' = NoFrame
        /\ UNCHANGED <<rip, regs, cause>>
    BY <1>8, QuietExit DEF InfiniteLoop, Serving
  <2>2. (phase # "stuck")' = FALSE
    BY <2>1
  <2>3. View!Stop
    BY <2>1, <2>2 DEF View!Stop
  <2>4. QED
    BY <2>3 DEF View!Next
<1>9. QED
  BY <1>3, <1>4, <1>5, <1>6, <1>7, <1>8 DEF Dispatch

(* To a real-mode guest the visor is invisible but for the calls it serves: *)
(* the loop of visor.c, with its exits, its RIP changes and its injections, *)
(* answers each INT exactly once and interrupts the guest with nothing else. *)
THEOREM VisorImplementsGuestView ==
  ASSUME RealMode, VmcbZeroed, OnlyIntGatesFault, ReinjectedOnly
  PROVE  Spec => RefinesGuestView
<1>1. ViewInv /\ [Next]_vars => [View!Next]_(View!gvars)
  <2> SUFFICES ASSUME ViewInv, [Next]_vars PROVE [View!Next]_(View!gvars)
    OBVIOUS
  <2>1. CASE VMRUN
    BY <2>1, VMRUNView
  <2>2. CASE Guest \/ Irqs
    BY <2>2, GuestStepView
  <2>3. CASE Dispatch
    BY <2>3, DispatchView
  <2>4. CASE UNCHANGED vars
    BY <2>4, StutterStep DEF vars
  <2>5. QED
    BY <2>1, <2>2, <2>3, <2>4 DEF Next
<1>2. Spec => []ViewInv
  BY TypeCorrect, EventInductive, AnswerStaysSettled, PTL DEF ViewInv
<1>3. QED
  BY <1>1, <1>2, ViewInit, PTL DEF Spec, RefinesGuestView, View!Spec
=============================================================================
