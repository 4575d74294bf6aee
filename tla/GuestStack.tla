----------------------------- MODULE GuestStack -----------------------------
(***************************************************************************)
(* INT and IRET done by hand on the guest's real-mode stack (guest.c,       *)
(* UpdateGuestForSoftwareInterrupt and HandleInterrutpReturn), beside what  *)
(* the processor itself does for an INT it is given to inject.  A code      *)
(* segment is the selector and the base the VMCB holds for CS.  Memory is   *)
(* the words the stack has held, by linear address; the interrupt vectors   *)
(* are fixed.  Upper halves of RIP, RSP and RFLAGS are zero in real mode.   *)
(***************************************************************************)
EXTENDS Integers, Sequences

CONSTANTS
  StackSeg,         \* base of the guest's SS
  Top,              \* its SP before the first interrupt
  Code,             \* where its code runs: records of a selector and an IP
  Gates,            \* its interrupt vector table
  FlagWords,        \* values it gives FLAGS
  Pushed,           \* words it pushes
  MaxDepth,         \* bound on interrupts in service
  MaxWords,         \* bound on words pushed by one routine
  Span,             \* bound on how far it runs from where it jumped to
  Careful           \* the guest keeps away from what the hand-made INT breaks

W == 65536          \* values of a word
Para == 16          \* bytes from one segment value to the next
IF_ == 512          \* flag bits 200h and 100h
TF == 256
Word == 0..(W - 1)
Vectors == DOMAIN Gates

ASSUME GuestStackAssumption ==
  /\ StackSeg \in Nat /\ Top \in Word
  /\ Code \subseteq [sel : Word, ip : Word] /\ Code # {}
  /\ Gates \in [Vectors -> [sel : Word, ip : Word]]
  /\ FlagWords \subseteq Word /\ Pushed \subseteq Word
  /\ MaxDepth \in Nat /\ MaxWords \in Nat /\ Span \in Nat
  /\ Careful \in BOOLEAN

VARIABLES
  cs, rip, rsp, flags,  \* in the VMCB
  mem,                  \* the words stored on the stack so far
  frames                \* auxiliary: where each interrupt in service came from

vmcb == <<cs, rip, rsp, flags>>
stackvars == <<vmcb, mem, frames>>
-----------------------------------------------------------------------------
Has(f, bit) == (f \div bit) % 2 = 1
With(f, bit) == IF Has(f, bit) THEN f ELSE f + bit
Without(f, bit) == IF Has(f, bit) THEN f - bit ELSE f

Load(a) == IF a \in DOMAIN mem THEN mem[a] ELSE 0

Store(m, a, v) == [x \in DOMAIN m \cup {a} |-> IF x = a THEN v ELSE m[x]]

\* A word is nobody's once SP has passed it.
Forget(A) == [x \in DOMAIN mem \ A |-> mem[x]]

\* Three words of an interrupt frame, at the addresses a, b and c.
StoreFrame(a, ip, b, seg, c, f) == Store(Store(Store(mem, c, f), b, seg), a, ip)

\* The base of SS is read as a word; offsets into the frame are added to the
\* linear address, so they do not wrap with SP.
StackAddress(sp) == (StackSeg % W) + sp

Segment(s) == [sel |-> s, base |-> s * Para]

Starts == {c.ip : c \in Code} \cup {Gates[v].ip : v \in Vectors}
Near == \E s \in Starts : (rip - s) % W <= Span

\* The frame of the routine that runs now begins here.
FrameSp(f) == (f.sp - 6) % W
Bottom == IF frames = <<>> THEN Top ELSE FrameSp(frames[Len(frames)])
-----------------------------------------------------------------------------
(* By hand.                                                                 *)

ReturnIP(ip) == (ip + 2) % W     \* "all SW ints are 2 bytes in length"

\* Slip: CS is pushed as the base, not as the segment.
PushedBase(base) == base % W

PushedCS(base) == (base % W) \div Para

UpdateGuestForSoftwareInterrupt(v) ==
  LET sp == (rsp - 6) % W
      a == StackAddress(sp)
  IN  /\ Len(frames) < MaxDepth /\ Near
      /\ mem' = StoreFrame(a, ReturnIP(rip), a + 2, PushedCS(cs.base), a + 4, flags)
      /\ rsp' = sp
      /\ flags' = Without(Without(flags, IF_), TF)
      /\ cs' = [cs EXCEPT !.base = Gates[v].sel * Para]
      /\ rip' = Gates[v].ip
      /\ frames' = Append(frames, [base |-> cs.base, ip |-> (rip + 2) % W,
                                   flags |-> flags, sp |-> rsp])

\* Slip: the three words stay on the stack.
ReleaseNothing(sp) == sp
ReleaseWide(sp) == sp + 6      \* slip: SP leaves its segment

Release(sp) == (sp + 6) % W

PopCSIPFlagsOffGuestStackReal16 ==
  LET a == StackAddress(rsp)
  IN  /\ flags' = Without(With(Load(a + 4), IF_), TF)
      /\ cs' = [cs EXCEPT !.base = Load(a + 2) * Para]
      /\ rip' = Load(a)
      /\ rsp' = Release(rsp)
      /\ mem' = Forget({a, a + 2, a + 4})

HandleInterrutpReturn ==
  /\ frames # <<>> /\ rsp = Bottom
  /\ PopCSIPFlagsOffGuestStackReal16
  /\ frames' = SubSeq(frames, 1, Len(frames) - 1)
-----------------------------------------------------------------------------
(* The processor and the guest.                                             *)

\* The selector agrees with the base, and a frame fits below SP.
InStep == cs.base = cs.sel * Para /\ rsp >= 6

\* Delivered as an event, it pushes the selector, and SP wraps for each word.
InjectedInterrupt(v) ==
  LET At(k) == StackSeg + ((rsp - k) % W)
  IN  /\ Len(frames) < MaxDepth /\ Near
      /\ Careful => InStep
      /\ mem' = StoreFrame(At(6), ReturnIP(rip), At(4), cs.sel, At(2), flags)
      /\ rsp' = (rsp - 6) % W
      /\ flags' = Without(Without(flags, IF_), TF)
      /\ cs' = Segment(Gates[v].sel)
      /\ rip' = Gates[v].ip
      /\ frames' = Append(frames, [base |-> cs.base, ip |-> (rip + 2) % W,
                                   flags |-> flags, sp |-> rsp])

GuestPushes ==
  /\ (Bottom - rsp) % W < 2 * MaxWords
  /\ rsp' = (rsp - 2) % W
  /\ \E v \in Pushed : mem' = Store(mem, StackSeg + ((rsp - 2) % W), v)
  /\ UNCHANGED <<cs, rip, flags, frames>>

GuestPops ==        \* never what it has not pushed
  /\ rsp # Bottom
  /\ rsp' = (rsp + 2) % W
  /\ mem' = Forget({StackSeg + rsp})
  /\ UNCHANGED <<cs, rip, flags, frames>>

GuestJumps ==
  /\ \E c \in Code : cs' = Segment(c.sel) /\ rip' = c.ip
  /\ UNCHANGED <<rsp, flags, mem, frames>>

GuestSetsFlags ==
  /\ flags' \in FlagWords
  /\ UNCHANGED <<cs, rip, rsp, mem, frames>>

StackInit ==
  /\ \E c \in Code : cs = Segment(c.sel) /\ rip = c.ip
  /\ rsp = Top
  /\ flags \in FlagWords
  /\ mem = [a \in {} |-> 0]
  /\ frames = <<>>

StackNext ==
  \/ \E v \in Vectors :
       UpdateGuestForSoftwareInterrupt(v) \/ InjectedInterrupt(v)
  \/ HandleInterrutpReturn
  \/ GuestPushes \/ GuestPops \/ GuestJumps \/ GuestSetsFlags

-----------------------------------------------------------------------------
StackTypeOK ==
  /\ cs \in [sel : Word, base : Nat]
  /\ rip \in Word /\ rsp \in Word /\ flags \in Word
  /\ DOMAIN mem \subseteq Nat /\ \A a \in DOMAIN mem : mem[a] \in Word
  /\ frames \in Seq([base : Nat, ip : Word, flags : Word, sp : Word])

\* However interrupts nest, and whatever their handlers push above it, the frame
\* of each stays on the stack as the code it interrupted is owed it.
FrameKept(f) ==
  LET a == StackAddress(FrameSp(f))
  IN  Load(a) = f.ip /\ Load(a + 2) * Para = f.base /\ Load(a + 4) = f.flags

FramesKept == \A i \in 1..Len(frames) : FrameKept(frames[i])

\* IRET goes back to the instruction after the INT, with the stack it had and
\* with its flags but for IF and TF.
Unmasked(f) == Without(Without(f, IF_), TF)

ReturnsTo(f) ==
  /\ cs'.base = f.base /\ rip' = f.ip /\ rsp' = f.sp
  /\ Unmasked(flags') = Unmasked(f.flags)

InterruptsReturn ==
  [][Len(frames') < Len(frames) => ReturnsTo(frames[Len(frames)])]_stackvars
=============================================================================
