------------------------------ MODULE GuestView ------------------------------
(***************************************************************************)
(* What the visor promises the guest about events: every INT n the guest    *)
(* executes is answered exactly once - served by the visor, or delivered     *)
(* through the guest's own vector table, or reported back as a #GP at the    *)
(* INT - and nothing else ever interrupts the guest.  VisorLoop implements   *)
(* this specification; RIP, EVENTINJ and the exits are hidden here.          *)
(***************************************************************************)
EXTENDS Integers

CONSTANTS
  Addr, RegFiles, Handlers, Start,
  After,            \* After[a]: the address that follows an INT n at a
  Codes,            \* error codes of the guest's own faults, -1 for none
  Served,           \* <<n, regs>> of the calls the visor answers itself
  Answer,           \* Answer[<<n, regs>>]: the registers it returns
  NoFrame, NoEv

Soft == 4
Exc == 3
GP == 13

VARIABLES ip, regs, ev, frame, running

gvars == <<ip, regs, ev, frame, running>>

Pushed(n, e, a) == [v |-> TRUE, vec |-> n, err |-> e, ret |-> a]

\* The guest computes; nothing is owed to it.
Compute ==
  /\ running /\ ~ev.v
  /\ ip' \in Addr
  /\ regs' \in RegFiles \cup {regs}
  /\ frame' = NoFrame
  /\ UNCHANGED <<ev, running>>

\* An instruction at ip asks for an event, and the guest is stopped until it
\* is answered.
Ask ==
  /\ running /\ ~ev.v
  /\ \E t \in {0, Exc, Soft}, n \in 0..255, e \in Codes :
       ev' = [v |-> TRUE, type |-> t, vec |-> n, err |-> e, at |-> ip]
  /\ frame' = NoFrame
  /\ UNCHANGED <<ip, regs, running>>

\* The visor answers a BIOS call and the guest goes on after the INT.
Serve ==
  /\ ev.v /\ ev.type = Soft
  /\ <<ev.vec, regs>> \in Served
  /\ regs' = Answer[<<ev.vec, regs>>]
  /\ ip' = After[ev.at]
  /\ ev' = NoEv
  /\ frame' = NoFrame
  /\ UNCHANGED running

Enter(f) ==
  /\ frame' = f
  /\ ip' \in Handlers
  /\ UNCHANGED <<regs, running>>

\* INT n that the visor does not serve reaches the guest's own handler, which
\* returns behind the INT.
DeliverInt ==
  /\ ev.v /\ ev.type = Soft /\ <<ev.vec, regs>> \notin Served
  /\ Enter(Pushed(ev.vec, -1, After[ev.at]))
  /\ ev' = NoEv

\* INT n whose gate faults is reported as a #GP at the INT, whose error code
\* names the gate.
ReflectInt ==
  /\ ev.v /\ ev.type = Soft /\ <<ev.vec, regs>> \notin Served
  /\ Enter(Pushed(GP, 8 * ev.vec + 2, ev.at))
  /\ ev' = NoEv

\* A fault of the guest's own is delivered where it happened.
DeliverFault ==
  /\ ev.v /\ ev.type = Exc
  /\ Enter(Pushed(ev.vec, ev.err, ev.at))
  /\ ev' = NoEv

\* Interrupts and faults the processor delivers without the visor.
DeliverDirectly ==
  /\ running /\ ~ev.v
  /\ \E n \in 0..255, e \in Codes : Enter(Pushed(n, e, ip))
  /\ UNCHANGED ev

Stop ==
  /\ ~ev.v
  /\ running' = FALSE
  /\ frame' = NoFrame
  /\ UNCHANGED <<ip, regs, ev>>

Init ==
  /\ ip = Start
  /\ regs \in RegFiles
  /\ ev = NoEv
  /\ frame = NoFrame
  /\ running = TRUE

Next ==
  \/ Compute \/ Ask \/ Serve \/ DeliverInt \/ ReflectInt \/ DeliverFault
  \/ DeliverDirectly \/ Stop

Spec == Init /\ [][Next]_gvars

\* What the guest asks for it gets in the end.
EveryEventAnswered == ev.v ~> ~ev.v
=============================================================================
