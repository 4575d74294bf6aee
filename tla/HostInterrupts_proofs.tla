------------------------ MODULE HostInterrupts_proofs ------------------------
(***************************************************************************)
(* Every timer request the 8259 keeps is counted once, each world keeps its *)
(* registers, a visor that loses control loses it to an interrupt it has no *)
(* handler for, and a boot during which no key is pressed in the unguarded  *)
(* window keeps control, for every set of interrupts and register contents. *)
(***************************************************************************)
EXTENDS HostInterrupts, TLAPS

(* Between SetupPIC and the guest, a step of the boot raises nothing.       *)
LEMMA StepEffect ==
  ASSUME NEW from, NEW to, Step(from, to)
  PROVE  /\ pc = from /\ pc' = to
         /\ UNCHANGED <<saved, taken, raised, ticks, scancode, intact>>
BY DEF Step, handlers

(* What a handler of the visor does, whatever interrupt it serves.          *)
LEMMA AcceptEffect ==
  ASSUME NEW i \in IRQs, Accept(i)
  PROVE  /\ pc \notin {"guest", "lost", "stuck"} /\ ie /\ GIF /\ i \in irr
         /\ UNCHANGED <<imr, raised, dropped, entered, GIF, saved, taken,
                        world>>
BY DEF Accept, INTR, Loops

LEMMA ServeEffect ==
  ASSUME NEW i \in IRQs, Serve(i)
  PROVE  /\ Accept(i) /\ i \in irr
         /\ irr' = irr \ {i}
         /\ UNCHANGED <<isr, ie, imr, raised, dropped, entered, GIF, saved,
                        taken, world>>
BY AcceptEffect DEF Serve

LEMMA HostISREffect ==
  ASSUME NEW i \in IRQs, HostISR(i)
  PROVE  /\ Accept(i) /\ i \in irr
         /\ irr' = irr \ {i} /\ isr' = isr \cup {i}
         /\ pc' = "lost" /\ ie' = FALSE
         /\ UNCHANGED <<imr, raised, dropped, entered, GIF, saved, taken,
                        world, segments, handlers>>
BY AcceptEffect DEF HostISR, Acknowledge

-----------------------------------------------------------------------------
(* Types, and the count of the timer.                                       *)
TickInv ==
  /\ TypeOK
  /\ TicksCountedOnce
  /\ pc = "pmode" => guestIsr = {}

LEMMA TickInit == Init => TickInv
<1> SUFFICES ASSUME Init PROVE TickInv
  OBVIOUS
<1>1. raised \in [IRQs -> 0..MaxRaised] /\ 0 \in 0..MaxRaised
  BY HostInterruptsAssumption DEF Init
<1>2. TicksCountedOnce
  BY DEF Init, TicksCountedOnce, IRQs, Timer
<1>3. TypeOK
  BY <1>1 DEF Init, TypeOK, Locations, Booting
<1>4. QED
  BY <1>2, <1>3 DEF Init, TickInv

(* Steps that leave the counters, the requests and the interrupts alone.    *)
LEMMA TickSteps ==
  ASSUME TickInv,
         \/ Unmask \/ Main \/ MoveStuff \/ EnterVisorLoop
         \/ VMLOAD("vmload", "load") \/ LoadGuest
         \/ VMLOAD("vmload2", "vmrun") \/ SaveGuest \/ Handle
  PROVE  TickInv'
<1> USE StepEffect DEF TickInv, TypeOK, TicksCountedOnce, Locations, Booting,
                       Switching, Returning, Loops, world, segments, flags,
                       saved, taken, requests
<1>1. CASE Unmask
  BY <1>1 DEF Unmask
<1>2. CASE Main
  BY <1>2 DEF Main
<1>3. CASE MoveStuff
  BY <1>3 DEF MoveStuff
<1>4. CASE EnterVisorLoop
  BY <1>4 DEF EnterVisorLoop
<1>5. CASE VMLOAD("vmload", "load")
  BY <1>5 DEF VMLOAD
<1>6. CASE LoadGuest
  BY <1>6 DEF LoadGuest
<1>7. CASE VMLOAD("vmload2", "vmrun")
  BY <1>7 DEF VMLOAD
<1>8. CASE SaveGuest
  BY <1>8 DEF SaveGuest
<1>9. CASE Handle
  <2>1. {regs', HostRegisters', GuestRegisters', left', hostLeft'} \subseteq RegFiles
    BY <1>9 DEF Handle, InfiniteLoop
  <2>2. /\ pc' \in {"load", "stuck"} /\ {ie', GIF'} \subseteq BOOLEAN
        /\ UNCHANGED <<saved, taken, raised, ticks, scancode, intact, entered,
                       segments, irr, dropped, isr, imr>>
    BY <1>9 DEF Handle, InfiniteLoop
  <2>3. QED
    BY <2>1, <2>2
<1>10. QED
  BY <1>1, <1>2, <1>3, <1>4, <1>5, <1>6, <1>7, <1>8, <1>9

LEMMA TickHandlers ==
  ASSUME TickInv, TimerHandler \/ KbdHandler \/ OtherHandler
  PROVE  TickInv'
<1>1. Timer \in IRQs /\ Keyboard \in IRQs /\ Timer # Keyboard
  BY DEF Timer, Keyboard, IRQs
<1>2. raised[Timer] \in 0..MaxRaised /\ raised[Keyboard] \in 0..MaxRaised
  BY <1>1 DEF TickInv, TypeOK
<1>3. CASE TimerHandler
  <2>1. ticks' + guestTicks <= raised[Timer] /\ ticks' \in Nat
    BY <1>1, <1>2, <1>3, ServeEffect
       DEF TimerHandler, TickInv, TypeOK, TicksCountedOnce
  <2>2. ticks' \in 0..MaxRaised
    BY <1>2, <2>1, HostInterruptsAssumption DEF TickInv, TypeOK
  <2>3. TicksCountedOnce'
    BY <1>1, <1>2, <1>3, ServeEffect
       DEF taken, TimerHandler, TickInv, TypeOK, TicksCountedOnce
  <2>4. TypeOK'
    BY <1>1, <1>3, <2>2, ServeEffect
       DEF taken, TimerHandler, TickInv, TypeOK, flags, saved, world
  <2>5. QED
    BY <1>1, <1>3, <2>3, <2>4, ServeEffect DEF TimerHandler, TickInv, taken
<1>4. ASSUME NEW i \in IRQs \ {Timer}, HostISR(i) PROVE TickInv'
  <2>1. /\ irr' = irr \ {i} /\ isr' = isr \cup {i} /\ pc' = "lost" /\ ie' = FALSE
        /\ UNCHANGED <<imr, raised, dropped, entered, GIF, hsave, guestIF,
                       guestTicks, guestIsr, regs, HostRegisters,
                       GuestRegisters, left, hostLeft, fs, gs, ticks, scancode,
                       intact>>
    BY <1>4, HostISREffect DEF taken, saved, world, segments, handlers
  <2>2. TypeOK'
    BY <2>1 DEF TickInv, TypeOK, Locations, Loops
  <2>3. TicksCountedOnce'
    BY <2>1 DEF TickInv, TicksCountedOnce
  <2>4. QED
    BY <2>1, <2>2, <2>3 DEF TickInv
<1>5. CASE /\ Serve(Keyboard)
           /\ scancode' \in {scancode, raised[Keyboard]}
           /\ intact' \in BOOLEAN
           /\ UNCHANGED <<pc, segments, ticks>>
  <2>1. /\ irr' = irr \ {Keyboard} /\ scancode' \in 0..MaxRaised
        /\ UNCHANGED <<isr, ie, imr, raised, dropped, entered, GIF, hsave,
                       guestIF, guestTicks, guestIsr, regs, HostRegisters,
                       GuestRegisters, left, hostLeft, fs, gs, pc, ticks>>
    BY <1>1, <1>2, <1>5, ServeEffect
       DEF TickInv, TypeOK, taken, saved, world, segments
  <2>2. TypeOK'
    BY <1>5, <2>1 DEF TickInv, TypeOK
  <2>3. QED
    BY <1>1, <2>1, <2>2 DEF TickInv, TicksCountedOnce
<1>6. CASE OtherHandler
  BY <1>4, <1>6 DEF OtherHandler
<1>7. CASE KbdHandler
  BY <1>1, <1>4, <1>5, <1>7 DEF KbdHandler, TickInv, TypeOK
<1>8. QED
  BY <1>3, <1>6, <1>7

LEMMA TickOthers ==
  ASSUME TickInv,
         \/ SetupPIC \/ VMRUN \/ Guest \/ GuestEnds
         \/ \E i \in IRQs : RaiseIrq(i) \/ GuestTakes(i)
  PROVE  TickInv'
<1>1. Timer \in IRQs
  BY DEF Timer, IRQs
<1>2. CASE SetupPIC
  <2>1. imr' \subseteq IRQs
    BY <1>2 DEF SetupPIC, InitialMasks, IRQs
  <2>2. /\ irr' = {} /\ isr' = {} /\ pc' = "masked" /\ guestIsr = {}
        /\ dropped' = dropped + (IF Timer \in irr THEN 1 ELSE 0)
        /\ UNCHANGED <<ticks, guestTicks, guestIsr, raised>>
    BY <1>2, StepEffect DEF SetupPIC, TickInv, taken
  <2>3. TicksCountedOnce'
    BY <2>2 DEF TickInv, TypeOK, TicksCountedOnce
  <2>4. dropped' \in 0..MaxRaised
    BY <1>1, <2>2, HostInterruptsAssumption
       DEF TickInv, TypeOK, TicksCountedOnce
  <2>5. TypeOK'
    BY <1>2, <2>1, <2>2, <2>4, StepEffect
       DEF SetupPIC, TickInv, TypeOK, Locations, Booting, flags, saved,
           world, segments
  <2>6. QED
    BY <2>2, <2>3, <2>5 DEF TickInv
<1>3. CASE VMRUN
  BY <1>3 DEF taken, VMRUN, TickInv, TypeOK, TicksCountedOnce, Locations, pic,
              requests, segments, world, handlers
<1>4. CASE GuestRuns
  BY <1>4 DEF taken, GuestRuns, TickInv, TypeOK, TicksCountedOnce, flags,
              saved, pic, requests, segments, handlers
<1>5. CASE VMEXIT
  BY <1>5 DEF taken, VMEXIT, TickInv, TypeOK, TicksCountedOnce, Locations,
              Returning, pic, requests, segments, world, handlers
<1>6. ASSUME NEW flag \in BOOLEAN, GuestSets(flag) PROVE TickInv'
  BY <1>6 DEF taken, GuestSets, TickInv, TypeOK, TicksCountedOnce, saved, pic,
              requests, segments, world, handlers
<1>7. CASE GuestEnds
  BY <1>7 DEF taken, GuestEnds, TickInv, TypeOK, TicksCountedOnce, saved,
              Highest, requests, segments, world, handlers
<1>8. ASSUME NEW i \in IRQs, RaiseIrq(i) PROVE TickInv'
  <2>1. raised'[i] \in 0..MaxRaised /\ raised' \in [IRQs -> 0..MaxRaised]
    BY <1>8, HostInterruptsAssumption DEF RaiseIrq, TickInv, TypeOK
  <2>2. TicksCountedOnce' /\ dropped' \in Nat
    BY <1>1, <1>8 DEF RaiseIrq, taken, TickInv, TypeOK, TicksCountedOnce,
                      handlers
  <2>3. raised'[Timer] \in 0..MaxRaised /\ dropped' <= raised'[Timer]
    BY <1>1, <1>8, <2>1, <2>2
       DEF RaiseIrq, taken, handlers, TickInv, TypeOK, TicksCountedOnce
  <2>4. dropped' \in 0..MaxRaised
    BY <2>2, <2>3, HostInterruptsAssumption
  <2>5. QED
    BY <1>8, <2>1, <2>2, <2>4
       DEF RaiseIrq, taken, TickInv, TypeOK, flags, saved, segments, world,
           handlers
<1>9. ASSUME NEW i \in IRQs, GuestTakes(i) PROVE TickInv'
  <2>1. i \in irr /\ irr' = irr \ {i}
    BY <1>9 DEF GuestTakes, INTR, Acknowledge
  <2>2. TicksCountedOnce' /\ guestTicks' \in Nat
    BY <1>1, <1>9, <2>1
       DEF GuestTakes, TickInv, TypeOK, TicksCountedOnce, handlers
  <2>3. guestTicks' \in 0..MaxRaised
    BY <1>1, <1>9, <2>2, HostInterruptsAssumption
       DEF GuestTakes, TickInv, TypeOK, TicksCountedOnce, handlers
  <2>4. QED
    BY <1>9, <2>1, <2>2, <2>3
       DEF GuestTakes, Acknowledge, TickInv, TypeOK, saved, segments, world,
           handlers
<1>10. QED
  BY <1>2, <1>3, <1>4, <1>5, <1>6, <1>7, <1>8, <1>9 DEF Guest

LEMMA TickStep == TickInv /\ [Next]_vars => TickInv'
<1> SUFFICES ASSUME TickInv, [Next]_vars PROVE TickInv'
  OBVIOUS
<1>1. CASE UNCHANGED vars
  BY <1>1 DEF vars, taken, flags, saved, pic, requests, segments, world,
              handlers, TickInv, TypeOK, TicksCountedOnce
<1>2. CASE Next
  BY <1>1, <1>2, TickSteps, TickHandlers, TickOthers DEF Next, Visor, Looping
<1>3. QED
  BY <1>1, <1>2

(* The state of the 8259s, the segments and the registers is well typed.    *)
THEOREM HITypeCorrect == Spec => []TypeOK
<1>1. TickInv => TypeOK
  BY DEF TickInv
<1>2. QED
  BY <1>1, TickInit, TickStep, PTL DEF Spec

(* Of the timer's edges the 8259s drop those before ICW1 and those on a     *)
(* latched line; each of the others is pending or has been counted, exactly *)
(* once, by the visor or by the guest.                                      *)
THEOREM KeptTicksCounted == Spec => []TicksCountedOnce
<1>1. TickInv => TicksCountedOnce
  BY DEF TickInv
<1>2. QED
  BY <1>1, TickInit, TickStep, PTL DEF Spec
-----------------------------------------------------------------------------
(* The two worlds.  GIF stays 0 while the visor handles an exit, so nothing *)
(* changes GS between VMLOAD and VMRUN.                                     *)
SwitchInv ==
  /\ pc \in {"vmload", "load", "handle"} => GuestRegisters = left
  /\ pc \in {"vmload2", "vmrun", "guest", "vmsave"} => regs = left
  /\ pc \in {"vmload2", "vmrun", "guest", "vmsave"} => HostRegisters = hostLeft
  /\ entered => GIF = (pc = "guest")
  /\ pc \in {"guest", "vmsave", "handle"} => entered
  /\ pc \in Booting \cup {"lost"} => ~entered
  /\ pc = "vmrun" /\ entered => fs = "guest" /\ gs = "guest"
  /\ pc = "handle" => regs = hostLeft /\ fs = "open" /\ gs = "visor"

LEMMA SwitchInit == Init => SwitchInv
BY DEF Init, SwitchInv, Booting

LEMMA SwitchStep == TypeOK /\ SwitchInv /\ [Next]_vars => SwitchInv'
<1> SUFFICES ASSUME TypeOK, SwitchInv, [Next]_vars PROVE SwitchInv'
  OBVIOUS
<1> USE DEF SwitchInv, Booting
<1>1. CASE SetupPIC
  BY <1>1, StepEffect DEF SetupPIC, flags, world, segments
<1>2. CASE Unmask
  BY <1>2, StepEffect DEF Unmask, flags, world, segments
<1>3. CASE Main
  BY <1>3, StepEffect DEF Main, flags, world
<1>4. CASE MoveStuff
  BY <1>4, StepEffect DEF MoveStuff, world, segments
<1>5. CASE EnterVisorLoop
  BY <1>5, StepEffect DEF EnterVisorLoop, flags
<1>6. CASE VMLOAD("vmload", "load")
  BY <1>6, StepEffect DEF VMLOAD, flags, world
<1>7. CASE LoadGuest
  BY <1>7, StepEffect DEF LoadGuest, flags, segments
<1>8. CASE VMLOAD("vmload2", "vmrun")
  BY <1>8, StepEffect DEF VMLOAD, flags, world
<1>9. CASE VMRUN
  BY <1>9 DEF VMRUN, segments, world
<1>10. CASE SaveGuest
  BY <1>10, StepEffect DEF SaveGuest, flags
<1>11. CASE Handle
  BY <1>11, StepEffect DEF Handle, InfiniteLoop, flags, segments
<1>12. ASSUME NEW i \in IRQs, Accept(i) PROVE ~entered
  BY <1>12, AcceptEffect
<1>13. CASE TimerHandler
  <2>1. Timer \in IRQs
    BY DEF Timer, IRQs
  <2>2. QED
    BY <1>12, <1>13, <2>1, ServeEffect DEF TimerHandler, flags, world
<1>14. ASSUME NEW i \in IRQs, HostISR(i) PROVE SwitchInv'
  BY <1>12, <1>14, HostISREffect DEF world, segments
<1>15. CASE KbdHandler
  <2>1. Keyboard \in IRQs
    BY DEF Keyboard, IRQs
  <2>2. QED
    BY <1>12, <1>14, <1>15, <2>1, ServeEffect DEF KbdHandler, world, segments
<1>16. CASE GuestRuns
  BY <1>16 DEF GuestRuns, flags, segments
<1>17. CASE VMEXIT
  BY <1>17 DEF VMEXIT, segments, world
<1>18. ASSUME NEW flag \in BOOLEAN, GuestSets(flag) PROVE SwitchInv'
  BY <1>18 DEF GuestSets, segments, world
<1>19. ASSUME NEW i \in IRQs, RaiseIrq(i) \/ GuestTakes(i) PROVE SwitchInv'
  BY <1>19 DEF RaiseIrq, GuestTakes, flags, segments, world
<1>20. CASE GuestEnds
  BY <1>20 DEF GuestEnds, segments, world
<1>21. CASE OtherHandler
  BY <1>14, <1>21 DEF OtherHandler
<1>22. CASE UNCHANGED vars
  BY <1>22 DEF vars, flags, segments, world
<1>23. QED
  BY <1>1, <1>2, <1>3, <1>4, <1>5, <1>6, <1>7, <1>8, <1>9, <1>10, <1>11, <1>13,
     <1>15, <1>16, <1>17, <1>18, <1>19, <1>20, <1>21, <1>22
     DEF Next, Visor, Guest, Looping

(* Around each VMRUN, guest and visor find what is theirs.                  *)
THEOREM WorldsKept == Spec => []WorldsKeepTheirRegisters
<1>1. SwitchInv => WorldsKeepTheirRegisters
  BY DEF SwitchInv, WorldsKeepTheirRegisters
<1>2. QED
  BY <1>1, HITypeCorrect, SwitchInit, SwitchStep, PTL DEF Spec
-----------------------------------------------------------------------------
(* The boot.  The STI finds GS loaded and nothing masked or in service; GS   *)
(* is the visor's up to the first VMLOAD, the guest's behind it, and null    *)
(* from the first timer interrupt there.                                     *)
BootInv ==
  /\ ~entered => GIF
  /\ ~entered /\ pc # "lost" => isr = {}
  /\ ~entered /\ pc \notin {"pmode", "masked"} => imr = {}
  /\ ~entered /\ pc # "lost" => (ie <=> pc \in {"enter", "vmload"} \cup Switching)
  /\ ~entered /\ pc \in {"move", "enter", "vmload"} => gs = "visor"
  /\ ~entered /\ pc \in Switching
       => fs = "guest" /\ gs \in {"guest", "null"} /\ (gs = "null" => ticks > 0)
  /\ LostToStranger

LEMMA BootInit == Init => BootInv
BY DEF Init, BootInv, LostToStranger, Switching

(* Where an interrupt can break into the visor.                             *)
LEMMA AcceptPlace ==
  ASSUME SwitchInv, BootInv, NEW i \in IRQs, Accept(i)
  PROVE  /\ ~entered /\ i \in irr /\ isr = {}
         /\ pc \in {"enter", "vmload"} \cup Switching
BY AcceptEffect DEF SwitchInv, BootInv

LEMMA BootHandlers ==
  ASSUME TypeOK, SwitchInv, BootInv,
         TimerHandler \/ KbdHandler \/ OtherHandler
  PROVE  BootInv'
<1>1. Timer \in IRQs /\ Keyboard \in IRQs /\ Timer # Keyboard
  BY DEF Timer, Keyboard, IRQs
<1>2. CASE TimerHandler
  <2>1. /\ ~entered /\ pc \in {"enter", "vmload"} \cup Switching
        /\ pc' = pc /\ fs' = fs /\ ticks' = ticks + 1
        /\ gs' = IF gs = "visor" THEN "visor" ELSE "null"
        /\ UNCHANGED <<isr, imr, ie, GIF, entered>>
    BY <1>1, <1>2, ServeEffect, AcceptPlace DEF TimerHandler
  <2>2. ticks + 1 > 0
    BY HostInterruptsAssumption DEF TypeOK
  <2>3. QED
    BY <2>1, <2>2 DEF BootInv, LostToStranger, Switching
<1>3. ASSUME NEW i \in IRQs \ {Timer}, HostISR(i),
             i = Keyboard => gs = "null"
      PROVE  BootInv'
  <2>1. /\ ~entered /\ pc \in {"enter", "vmload"} \cup Switching
        /\ pc' = "lost" /\ ~ie' /\ isr' = {i}
        /\ UNCHANGED <<imr, GIF, entered, fs, gs, ticks>>
    BY <1>3, HostISREffect, AcceptPlace DEF segments, handlers
  <2>2. i = Keyboard => fs = "guest" /\ gs = "null" /\ ticks > 0
    BY <1>3, <2>1 DEF BootInv
  <2>3. LostToStranger'
    BY <2>1, <2>2 DEF LostToStranger
  <2>4. QED
    BY <2>1, <2>3 DEF BootInv, Switching
<1>4. CASE Serve(Keyboard) /\ UNCHANGED <<pc, segments, ticks>>
  BY <1>1, <1>4, ServeEffect, AcceptPlace
     DEF BootInv, LostToStranger, segments, Switching
<1>5. CASE KbdHandler
  BY <1>1, <1>3, <1>4, <1>5 DEF KbdHandler
<1>6. CASE OtherHandler
  BY <1>1, <1>3, <1>6 DEF OtherHandler
<1>7. QED
  BY <1>2, <1>5, <1>6

LEMMA BootStep ==
  ASSUME TypeOK, SwitchInv, BootInv, [Next]_vars
  PROVE  BootInv'
<1> USE DEF LostToStranger
<1>1. CASE SetupPIC
  <2>1. /\ pc = "pmode" /\ pc' = "masked" /\ isr' = {}
        /\ UNCHANGED <<entered, ie, GIF, gs>>
    BY <1>1, StepEffect DEF SetupPIC, flags, segments
  <2>2. QED
    BY <2>1 DEF BootInv, SwitchInv, Booting, Switching
<1>2. CASE Unmask
  <2>1. /\ pc = "masked" /\ pc' = "main" /\ imr' = {}
        /\ UNCHANGED <<entered, ie, GIF, gs, isr>>
    BY <1>2, StepEffect DEF Unmask, flags, segments
  <2>2. QED
    BY <2>1 DEF BootInv, SwitchInv, Booting, Switching
<1>3. CASE Main
  <2>1. /\ pc = "main" /\ pc' = "move" /\ gs' = "visor"
        /\ UNCHANGED <<entered, ie, GIF, isr, imr>>
    BY <1>3, StepEffect DEF Main, flags
  <2>2. QED
    BY <2>1 DEF BootInv, SwitchInv, Booting, Switching
<1>4. CASE MoveStuff
  <2>1. /\ pc = "move" /\ pc' = "enter" /\ ie' = TRUE
        /\ UNCHANGED <<entered, GIF, gs, isr, imr>>
    BY <1>4, StepEffect DEF MoveStuff, segments
  <2>2. QED
    BY <2>1 DEF BootInv, SwitchInv, Booting, Switching
<1>5. CASE EnterVisorLoop
  <2>1. /\ pc = "enter" /\ pc' = "vmload"
        /\ UNCHANGED <<entered, ie, GIF, gs, isr, imr>>
    BY <1>5, StepEffect DEF EnterVisorLoop, flags
  <2>2. QED
    BY <2>1 DEF BootInv, SwitchInv, Booting, Switching
<1>6. CASE VMLOAD("vmload", "load") \/ VMLOAD("vmload2", "vmrun")
  <2>1. /\ pc \in {"vmload", "vmload2"} /\ pc' \in Switching
        /\ fs' = "guest" /\ gs' = "guest"
        /\ UNCHANGED <<entered, ie, GIF, isr, imr, ticks>>
    BY <1>6, StepEffect DEF VMLOAD, flags, Switching
  <2>2. QED
    BY <2>1 DEF BootInv, Switching
<1>7. CASE LoadGuest
  <2>1. /\ pc \in Switching /\ pc' \in Switching
        /\ UNCHANGED <<entered, ie, GIF, isr, imr, fs, gs, ticks>>
    BY <1>7, StepEffect DEF LoadGuest, flags, segments, Switching
  <2>2. QED
    BY <2>1 DEF BootInv, Switching
<1>8. CASE VMRUN
  BY <1>8 DEF VMRUN, BootInv
<1>9. CASE SaveGuest \/ Handle
  <2>1. entered' /\ pc' # "lost"
    BY <1>9, StepEffect DEF SaveGuest, Handle, InfiniteLoop, SwitchInv
  <2>2. QED
    BY <2>1 DEF BootInv
<1>10. CASE TimerHandler \/ KbdHandler \/ OtherHandler
  BY <1>10, BootHandlers
<1>11. CASE Guest
  BY <1>11 DEF Guest, GuestRuns, VMEXIT, GuestSets, SwitchInv, BootInv
<1>12. ASSUME NEW i \in IRQs, GuestTakes(i) PROVE BootInv'
  BY <1>12 DEF GuestTakes, SwitchInv, BootInv
<1>13. CASE GuestEnds
  <2>1. entered' /\ pc' # "lost"
    BY <1>13 DEF GuestEnds, SwitchInv, BootInv
  <2>2. QED
    BY <2>1 DEF BootInv
<1>14. ASSUME NEW i \in IRQs, RaiseIrq(i) PROVE BootInv'
  BY <1>14 DEF RaiseIrq, BootInv, flags, segments, handlers
<1>15. CASE UNCHANGED vars
  BY <1>15 DEF vars, flags, pic, segments, handlers, BootInv
<1>16. QED
  BY <1>1, <1>2, <1>3, <1>4, <1>5, <1>6, <1>7, <1>8, <1>9, <1>10, <1>11, <1>12,
     <1>13, <1>14, <1>15
     DEF Next, Visor, Looping

(* The visor loses control only to an interrupt it has no handler for, or   *)
(* to a key pressed behind the first VMLOAD and after a timer interrupt -   *)
(* for any interrupts at any time.                                          *)
THEOREM LossExplained == Spec => []LostToStranger
<1>1. TypeOK /\ SwitchInv /\ BootInv /\ [Next]_vars => BootInv'
  BY BootStep
<1>2. BootInv => LostToStranger
  BY DEF BootInv
<1>3. QED
  BY <1>1, <1>2, HITypeCorrect, SwitchInit, SwitchStep, BootInit, PTL DEF Spec
-----------------------------------------------------------------------------
(* A pending key is taken before the first VMLOAD, the last step that finds *)
(* the visor's GS: what is pending behind it was pressed behind it.         *)
MemoryInv ==
  /\ intact
  /\ ~entered /\ pc \in Switching => Keyboard \notin irr

NoKeyInWindow == Keyboard \notin Window

LEMMA MemoryInit == Init => MemoryInv
BY DEF Init, MemoryInv, Switching

(* When nothing is deliverable and nothing masked, no key is pending: only  *)
(* the timer comes before the keyboard.                                     *)
LEMMA QuietKeyboard ==
  ASSUME irr \subseteq IRQs, isr = {}, imr = {}, Quiet
  PROVE  Keyboard \notin irr
<1>1. Timer \in IRQs /\ Keyboard \in IRQs
  BY DEF Timer, Keyboard, IRQs
<1>2. \A i \in IRQs \ {Timer} : Before(Timer, i)
  BY DEF Before, Level, Timer, IRQs
<1>3. \A i \in IRQs \ {Timer, Keyboard} : Before(Keyboard, i)
  BY DEF Before, Level, Timer, Keyboard, IRQs
<1>4. CASE Timer \in irr
  <2>1. INTR(Timer)
    BY <1>2, <1>4 DEF INTR
  <2>2. QED
    BY <1>1, <2>1 DEF Quiet
<1>5. CASE Timer \notin irr /\ Keyboard \in irr
  <2>1. INTR(Keyboard)
    BY <1>3, <1>5 DEF INTR
  <2>2. QED
    BY <1>1, <2>1 DEF Quiet
<1>6. QED
  BY <1>4, <1>5

LEMMA MemoryHandlers ==
  ASSUME SwitchInv, BootInv, MemoryInv,
         TimerHandler \/ KbdHandler \/ OtherHandler
  PROVE  MemoryInv'
<1>1. Timer \in IRQs /\ Keyboard \in IRQs
  BY DEF Timer, Keyboard, IRQs
<1>2. CASE TimerHandler
  BY <1>1, <1>2, ServeEffect DEF TimerHandler, MemoryInv
<1>3. ASSUME NEW i \in IRQs, HostISR(i) PROVE MemoryInv'
  BY <1>3, HostISREffect DEF MemoryInv, Switching, handlers
<1>4. CASE KbdHandler
  <2>1. gs = "visor" \/ HostISR(Keyboard)
    BY <1>1, <1>4, ServeEffect, AcceptPlace
       DEF KbdHandler, BootInv, MemoryInv
  <2>2. QED
    BY <1>1, <1>3, <1>4, <2>1, ServeEffect DEF KbdHandler, MemoryInv
<1>5. CASE OtherHandler
  BY <1>3, <1>5 DEF OtherHandler
<1>6. QED
  BY <1>2, <1>4, <1>5

LEMMA MemoryStep ==
  ASSUME NoKeyInWindow, TypeOK, SwitchInv, BootInv, MemoryInv, [Next]_vars
  PROVE  MemoryInv'
<1>1. CASE SetupPIC \/ Unmask \/ Main \/ MoveStuff \/ EnterVisorLoop
  <2>1. pc' \notin Switching /\ intact' = intact
    BY <1>1, StepEffect
       DEF SetupPIC, Unmask, Main, MoveStuff, EnterVisorLoop, Switching
  <2>2. QED
    BY <2>1 DEF MemoryInv
<1>2. CASE VMLOAD("vmload", "load")
  <2>1. ~entered /\ pc = "vmload" /\ ie /\ GIF
    <3>1. pc = "vmload"
      BY <1>2, StepEffect DEF VMLOAD
    <3>2. ~entered
      BY <3>1 DEF SwitchInv, Booting
    <3>3. QED
      BY <3>1, <3>2 DEF BootInv
  <2>2. Quiet /\ imr = {} /\ isr = {}
    BY <1>2, <2>1 DEF VMLOAD, Step, BootInv
  <2>3. Keyboard \notin irr
    BY <2>2, QuietKeyboard DEF TypeOK
  <2>4. irr' = irr /\ intact' = intact
    BY <1>2, StepEffect DEF VMLOAD, requests
  <2>5. QED
    BY <2>3, <2>4 DEF MemoryInv
<1>3. CASE LoadGuest \/ VMLOAD("vmload2", "vmrun")
  <2>1. pc \in Switching /\ UNCHANGED <<entered, intact, irr>>
    BY <1>3, StepEffect DEF LoadGuest, VMLOAD, requests, Switching
  <2>2. QED
    BY <2>1 DEF MemoryInv
<1>4. CASE VMRUN
  BY <1>4 DEF VMRUN, MemoryInv, handlers
<1>5. CASE SaveGuest \/ Handle
  <2>1. entered' /\ intact' = intact
    BY <1>5, StepEffect DEF SaveGuest, Handle, InfiniteLoop, SwitchInv
  <2>2. QED
    BY <2>1 DEF MemoryInv
<1>6. CASE TimerHandler \/ KbdHandler \/ OtherHandler
  BY <1>6, MemoryHandlers
<1>7. CASE Guest
  BY <1>7 DEF Guest, GuestRuns, VMEXIT, GuestSets, SwitchInv, MemoryInv,
              handlers
<1>8. ASSUME NEW i \in IRQs, GuestTakes(i) PROVE MemoryInv'
  BY <1>8 DEF GuestTakes, SwitchInv, MemoryInv, handlers
<1>9. CASE GuestEnds
  BY <1>9 DEF GuestEnds, SwitchInv, MemoryInv, handlers
<1>10. ASSUME NEW i \in IRQs, RaiseIrq(i) PROVE MemoryInv'
  <2>1. ~entered /\ pc \in Switching => i # Keyboard
    BY <1>10 DEF RaiseIrq, NoKeyInWindow
  <2>2. QED
    BY <1>10, <2>1 DEF RaiseIrq, MemoryInv, handlers
<1>11. CASE UNCHANGED vars
  BY <1>11 DEF vars, pic, requests, handlers, MemoryInv
<1>12. QED
  BY <1>1, <1>2, <1>3, <1>4, <1>5, <1>6, <1>7, <1>8, <1>9, <1>10, <1>11
     DEF Next, Visor, Looping

(* Unless a key is pressed between the first VMLOAD and the first VMRUN, no *)
(* handler of the visor stores through the guest's GS - whatever else is    *)
(* raised, at whatever point, and for ever after the guest has started.     *)
THEOREM GuestMemoryKept ==
  ASSUME NoKeyInWindow
  PROVE  Spec => []GuestMemoryIntact
<1>1. TypeOK /\ SwitchInv /\ BootInv /\ [Next]_vars => BootInv'
  BY BootStep
<1>2. TypeOK /\ SwitchInv /\ BootInv /\ MemoryInv /\ [Next]_vars => MemoryInv'
  BY MemoryStep
<1>3. MemoryInv => GuestMemoryIntact
  BY DEF MemoryInv, GuestMemoryIntact
<1>4. QED
  BY <1>1, <1>2, <1>3, HITypeCorrect, SwitchInit, SwitchStep, BootInit,
     MemoryInit, PTL DEF Spec
-----------------------------------------------------------------------------
(* Control.  Only the timer and the keyboard have a handler that returns,   *)
(* and the keyboard's needs a GS: none but these may be raised before the   *)
(* guest runs, and in the window only the timer.                            *)
ControlInv ==
  /\ pc # "lost"
  /\ ~entered => irr \subseteq {Timer, Keyboard}

OnlyTimerInWindow == Early \subseteq {Timer, Keyboard} /\ Window \subseteq {Timer}

LEMMA ControlStep ==
  ASSUME OnlyTimerInWindow, SwitchInv, BootInv, MemoryInv, ControlInv,
         [Next]_vars
  PROVE  ControlInv'
<1> USE DEF ControlInv
<1>1. CASE \/ SetupPIC \/ Unmask \/ Main \/ MoveStuff \/ EnterVisorLoop
           \/ VMLOAD("vmload", "load") \/ LoadGuest
           \/ VMLOAD("vmload2", "vmrun") \/ SaveGuest \/ Handle
  <2>1. pc' # "lost" /\ irr' \subseteq irr /\ entered' = entered
    BY <1>1, StepEffect
       DEF SetupPIC, Unmask, Main, MoveStuff, EnterVisorLoop, VMLOAD,
           LoadGuest, SaveGuest, Handle, InfiniteLoop, requests
  <2>2. QED
    BY <2>1
<1>2. CASE VMRUN
  BY <1>2 DEF VMRUN
<1>3. CASE TimerHandler
  <2>1. Timer \in IRQs
    BY DEF Timer, IRQs
  <2>2. QED
    BY <1>3, <2>1, ServeEffect DEF TimerHandler
<1>4. CASE KbdHandler
  <2>1. Keyboard \in IRQs
    BY DEF Keyboard, IRQs
  <2>2. Accept(Keyboard)
    BY <1>4, <2>1, ServeEffect, HostISREffect DEF KbdHandler
  <2>3. gs = "visor"
    BY <2>1, <2>2, AcceptPlace DEF BootInv, MemoryInv
  <2>4. QED
    BY <1>4, <2>1, <2>3, ServeEffect DEF KbdHandler
<1>5. CASE OtherHandler
  <2>1. PICK i \in IRQs \ {Timer, Keyboard} : HostISR(i)
    BY <1>5 DEF OtherHandler
  <2>2. FALSE
    BY <2>1, HostISREffect, AcceptPlace
  <2>3. QED
    BY <2>2
<1>6. CASE GuestRuns \/ VMEXIT \/ \E flag \in BOOLEAN : GuestSets(flag)
  BY <1>6 DEF GuestRuns, VMEXIT, GuestSets, pic, requests
<1>7. ASSUME NEW i \in IRQs, GuestTakes(i) PROVE ControlInv'
  BY <1>7 DEF GuestTakes, INTR, Acknowledge
<1>8. CASE GuestEnds
  BY <1>8 DEF GuestEnds, requests
<1>9. ASSUME NEW i \in IRQs, RaiseIrq(i) PROVE ControlInv'
  <2>1. ~entered => i \in {Timer, Keyboard}
    BY <1>9 DEF RaiseIrq, OnlyTimerInWindow
  <2>2. QED
    BY <1>9, <2>1 DEF RaiseIrq
<1>10. CASE UNCHANGED vars
  BY <1>10 DEF vars, pic, requests
<1>11. QED
  BY <1>1, <1>2, <1>3, <1>4, <1>5, <1>6, <1>7, <1>8, <1>9, <1>10
     DEF Next, Visor, Guest, Looping

(* With the timer alone in the window, the visor keeps control: no          *)
(* interrupt ends in the exception loop.                                    *)
THEOREM ControlKept ==
  ASSUME OnlyTimerInWindow
  PROVE  Spec => []NeverLost
<1>1. NoKeyInWindow
  BY DEF OnlyTimerInWindow, NoKeyInWindow, Timer, Keyboard
<1>2. Init => ControlInv
  BY DEF Init, ControlInv
<1>3. TypeOK /\ SwitchInv /\ BootInv /\ [Next]_vars => BootInv'
  BY BootStep
<1>4. TypeOK /\ SwitchInv /\ BootInv /\ MemoryInv /\ [Next]_vars => MemoryInv'
  BY <1>1, MemoryStep
<1>5. /\ SwitchInv /\ BootInv /\ MemoryInv /\ ControlInv /\ [Next]_vars
      => ControlInv'
  BY ControlStep
<1>6. ControlInv => NeverLost
  BY DEF ControlInv, NeverLost
<1>7. QED
  BY <1>2, <1>3, <1>4, <1>5, <1>6, HITypeCorrect, SwitchInit, SwitchStep,
     BootInit, MemoryInit, PTL DEF Spec
=============================================================================
