------------------------ MODULE GuestHandlers_proofs ------------------------
(***************************************************************************)
(* INT and IRET by hand undo each other, and the control register exits     *)
(* keep registers apart, for every stack, code and vector table within what *)
(* Sound says.                                                              *)
(***************************************************************************)
EXTENDS GuestHandlers, SequenceTheorems, TLAPS

\* What the source relies on without a check.
F == 6 + 2 * MaxWords            \* the most one interrupt takes of the stack
Segments == {s \in Word : s * Para < W}

Sound ==
  /\ Careful
  /\ StackSeg < W                \* the base of SS is read as a word
  /\ \A c \in Code : c.sel \in Segments      \* and so is that of CS
  /\ \A v \in Vectors : Gates[v].sel \in Segments
  /\ MaxDepth * F + 2 * MaxWords =< Top      \* SP does not wrap
-----------------------------------------------------------------------------
(* Words and flags.                                                         *)

LEMMA WordRange ==
  /\ \A n \in Int : n \in Word <=> n >= 0 /\ n < 65536
  /\ Word \subseteq Int /\ Word \subseteq Nat
<1>1. W \in Int /\ W = 65536
  BY DEF W
<1>2. Word \subseteq Int
  BY <1>1 DEF Word
<1>3. ASSUME NEW n \in Int
      PROVE  n \in Word <=> n >= 0 /\ n =< W - 1
  BY <1>1 DEF Word
<1>4. ASSUME NEW n \in Int
      PROVE  n =< W - 1 <=> n < 65536
  BY <1>1
<1>5. Word \subseteq Nat
  BY <1>1 DEF Word
<1>6. QED
  BY <1>2, <1>3, <1>4, <1>5

LEMMA WordOf ==
  ASSUME NEW n \in Word
  PROVE  n \in Int /\ n \in Nat /\ n >= 0 /\ n < 65536
<1>1. n \in Nat /\ n \in Int
  BY WordRange
<1>2. QED
  BY <1>1, WordRange

LEMMA IFBit ==
  ASSUME NEW f \in Int, f >= 0, f < 65536
  PROVE  /\ (f \div 512) % 2 = 1 => f >= 512 /\ ((f - 512) \div 512) % 2 # 1
         /\ (f \div 512) % 2 # 1 => f + 512 < 65536 /\ ((f + 512) \div 512) % 2 = 1
         /\ ((f + 512) \div 256) % 2 = (f \div 256) % 2
         /\ ((f - 512) \div 256) % 2 = (f \div 256) % 2
<1>1. ASSUME (f \div 512) % 2 = 1
      PROVE  f >= 512 /\ ((f - 512) \div 512) % 2 # 1
  BY <1>1
<1>2. ASSUME (f \div 512) % 2 # 1
      PROVE  f + 512 < 65536 /\ ((f + 512) \div 512) % 2 = 1
  BY <1>2
<1>3. /\ ((f + 512) \div 256) % 2 = (f \div 256) % 2
      /\ ((f - 512) \div 256) % 2 = (f \div 256) % 2
  OBVIOUS
<1>4. QED
  BY <1>1, <1>2, <1>3

LEMMA TFBit ==
  ASSUME NEW f \in Int, f >= 0, f < 65536, (f \div 256) % 2 = 1
  PROVE  /\ f >= 256 /\ ((f - 256) \div 256) % 2 # 1
         /\ (f - 256) \div 512 = f \div 512
OBVIOUS

LEMMA WithoutIF ==
  ASSUME NEW f \in Int, f >= 0, f < 65536
  PROVE  Without(f, 512) \in Int /\ Without(f, 512) >= 0 /\ Without(f, 512) < 65536
BY IFBit DEF Without, Has

LEMMA WithoutTF ==
  ASSUME NEW f \in Int, f >= 0, f < 65536
  PROVE  Without(f, 256) \in Int /\ Without(f, 256) >= 0 /\ Without(f, 256) < 65536
BY TFBit DEF Without, Has

LEMMA WithIF ==
  ASSUME NEW f \in Int, f >= 0, f < 65536
  PROVE  With(f, 512) \in Int /\ With(f, 512) >= 0 /\ With(f, 512) < 65536
BY IFBit DEF With, Has

LEMMA OtherBits ==
  ASSUME NEW f \in Int, f >= 0, f < 65536
  PROVE  Without(Without(Without(With(f, 512), 256), 512), 256)
           = Without(Without(f, 512), 256)
<1>1. CASE (f \div 512) % 2 = 1 /\ (f \div 256) % 2 = 1
  BY <1>1, IFBit, TFBit DEF Without, With, Has
<1>2. CASE (f \div 512) % 2 # 1 /\ (f \div 256) % 2 = 1
  BY <1>2, IFBit, TFBit DEF Without, With, Has
<1>3. CASE (f \div 512) % 2 = 1 /\ (f \div 256) % 2 # 1
  BY <1>3, IFBit, TFBit DEF Without, With, Has
<1>4. CASE (f \div 512) % 2 # 1 /\ (f \div 256) % 2 # 1
  BY <1>4, IFBit, TFBit DEF Without, With, Has
<1>5. QED
  BY <1>1, <1>2, <1>3, <1>4

LEMMA UnmaskedWord ==
  ASSUME NEW f \in Word
  PROVE  /\ Without(Without(f, IF_), TF) \in Word
         /\ Without(With(f, IF_), TF) \in Word
<1>1. IF_ = 512 /\ TF = 256
  BY DEF IF_, TF
<1>2. f \in Int /\ f >= 0 /\ f < 65536
  BY WordRange
<1>3. QED
  BY <1>1, <1>2, WordRange, WithIF, WithoutIF, WithoutTF

\* IRET leaves the other flags as they were.
LEMMA OtherFlags ==
  ASSUME NEW f \in Word
  PROVE  Unmasked(Without(With(f, IF_), TF)) = Unmasked(f)
<1>1. IF_ = 512 /\ TF = 256
  BY DEF IF_, TF
<1>2. f \in Int /\ f >= 0 /\ f < 65536
  BY WordRange
<1>3. QED
  BY <1>1, <1>2, OtherBits DEF Unmasked

LEMMA IntMod ==
  ASSUME NEW n \in Int
  PROVE  /\ n % 65536 \in Int /\ n % 65536 >= 0 /\ n % 65536 < 65536
         /\ n >= 0 /\ n < 65536 => n % 65536 = n
OBVIOUS

LEMMA WordMod ==
  ASSUME NEW n \in Int
  PROVE  n % W \in Word /\ (n \in Word => n % W = n)
<1>1. W = 65536
  BY DEF W
<1>2. QED
  BY <1>1, IntMod, WordRange

LEMMA IntSegment ==
  ASSUME NEW s \in Int, s >= 0, s * 16 < 65536
  PROVE  ((s * 16) % 65536) \div 16 = s /\ s < 65536
OBVIOUS

LEMMA IntPushed ==
  ASSUME NEW b \in Int, b >= 0
  PROVE  /\ (b % 65536) \div 16 \in Int
         /\ (b % 65536) \div 16 >= 0 /\ (b % 65536) \div 16 < 65536
OBVIOUS

\* A segment's base gives the segment back.
LEMMA SegmentOfBase ==
  ASSUME NEW s \in Segments
  PROVE  /\ s * Para \in Nat /\ s * Para < W
         /\ PushedCS(s * Para) = s /\ s \in Word
<1>1. W = 65536 /\ Para = 16
  BY DEF W, Para
<1>2. s \in Int /\ s >= 0 /\ s * 16 < 65536 /\ s \in Word
  BY <1>1, WordRange DEF Segments
<1>3. QED
  BY <1>1, <1>2, IntSegment DEF PushedCS

LEMMA BasesAreNat ==
  ASSUME NEW s \in Word
  PROVE  s * Para \in Nat
<1>1. Para = 16 /\ s \in Int /\ s >= 0
  BY WordRange DEF Para
<1>2. QED
  BY <1>1

LEMMA PushedIsWord ==
  ASSUME NEW b \in Nat
  PROVE  PushedCS(b) \in Word
<1>1. W = 65536 /\ Para = 16
  BY DEF W, Para
<1>2. QED
  BY <1>1, IntPushed, WordRange DEF PushedCS
-----------------------------------------------------------------------------
(* Memory.                                                                  *)

MemOK(m) == DOMAIN m \subseteq Nat /\ \A a \in DOMAIN m : m[a] \in Word

\* What m holds at a.
At(m, a) == IF a \in DOMAIN m THEN m[a] ELSE 0

LEMMA StoreOK ==
  ASSUME NEW m, MemOK(m), NEW a \in Nat, NEW v \in Word
  PROVE  /\ MemOK(Store(m, a, v))
         /\ At(Store(m, a, v), a) = v
         /\ \A b : b # a => At(Store(m, a, v), b) = At(m, b)
BY DEF MemOK, Store, At

LEMMA ForgetOK ==
  ASSUME MemOK(mem), NEW A
  PROVE  /\ MemOK(Forget(A))
         /\ \A b : b \notin A => At(Forget(A), b) = At(mem, b)
BY DEF MemOK, Forget, At

LEMMA LoadWord ==
  ASSUME MemOK(mem), NEW a
  PROVE  At(mem, a) \in Word /\ Load(a) = At(mem, a)
<1>1. 0 \in Word
  BY WordRange
<1>2. QED
  BY <1>1 DEF MemOK, Load, At

LEMMA StoreFrameOK ==
  ASSUME MemOK(mem), NEW a \in Nat, NEW b \in Nat, NEW c \in Nat,
         NEW ip \in Word, NEW seg \in Word, NEW f \in Word
  PROVE  /\ MemOK(StoreFrame(a, ip, b, seg, c, f))
         /\ a # b /\ a # c /\ b # c =>
              /\ At(StoreFrame(a, ip, b, seg, c, f), a) = ip
              /\ At(StoreFrame(a, ip, b, seg, c, f), b) = seg
              /\ At(StoreFrame(a, ip, b, seg, c, f), c) = f
         /\ \A d : d \notin {a, b, c} =>
              At(StoreFrame(a, ip, b, seg, c, f), d) = At(mem, d)
<1> DEFINE m1 == Store(mem, c, f)
           m2 == Store(m1, b, seg)
           m3 == Store(m2, a, ip)
<1>1. MemOK(m1) /\ At(m1, c) = f /\ \A d : d # c => At(m1, d) = At(mem, d)
  BY StoreOK
<1> HIDE DEF m1
<1>2. MemOK(m2) /\ At(m2, b) = seg /\ \A d : d # b => At(m2, d) = At(m1, d)
  BY <1>1, StoreOK
<1> HIDE DEF m2
<1>3. MemOK(m3) /\ At(m3, a) = ip /\ \A d : d # a => At(m3, d) = At(m2, d)
  BY <1>2, StoreOK
<1>4. m3 = StoreFrame(a, ip, b, seg, c, f)
  BY DEF StoreFrame, m1, m2
<1> HIDE DEF m3
<1>5. QED
  BY <1>1, <1>2, <1>3, <1>4
-----------------------------------------------------------------------------
(* Type correctness.                                                        *)

FrameType == [base : Nat, ip : Word, flags : Word, sp : Word]

LEMMA Addresses ==
  ASSUME StackTypeOK, NEW n \in Int
  PROVE  StackAddress(n % W) \in Nat /\ StackSeg + (n % W) \in Nat
<1>1. StackSeg \in Nat
  BY GuestStackAssumption
<1>2. ASSUME NEW i \in Int
      PROVE  i % W \in Nat
  <2> DEFINE r == i % W
  <2>1. r \in Word
    BY WordMod
  <2> HIDE DEF r
  <2>2. r \in Nat
    BY <2>1, WordOf
  <2>3. QED
    BY <2>2 DEF r
<1>3. StackSeg % W \in Nat /\ n % W \in Nat
  BY <1>1, <1>2
<1>4. QED
  BY <1>1, <1>3 DEF StackAddress

LEMMA HandIntType ==
  ASSUME StackTypeOK, NEW v \in Vectors, UpdateGuestForSoftwareInterrupt(v)
  PROVE  StackTypeOK'
<1> DEFINE sp == (rsp - 6) % W
           a == StackAddress(sp)
           f == [base |-> cs.base, ip |-> (rip + 2) % W, flags |-> flags, sp |-> rsp]
<1>1. MemOK(mem) /\ rsp \in Int /\ rip \in Int /\ flags \in Word
  BY WordRange DEF StackTypeOK, MemOK
<1>2. a \in Nat /\ sp \in Word
  BY <1>1, Addresses, WordMod
<1>3. ReturnIP(rip) \in Word /\ (rip + 2) % W \in Word /\ PushedCS(cs.base) \in Word
  BY <1>1, WordMod, PushedIsWord DEF ReturnIP, StackTypeOK
<1>4. MemOK(mem')
  <2>1. mem' = StoreFrame(a, ReturnIP(rip), a + 2, PushedCS(cs.base), a + 4, flags)
    BY DEF UpdateGuestForSoftwareInterrupt
  <2> HIDE DEF a
  <2>2. a + 2 \in Nat /\ a + 4 \in Nat
    BY <1>2
  <2>3. QED
    BY <1>1, <1>2, <1>3, <2>1, <2>2, StoreFrameOK
<1>5. flags' \in Word
  BY <1>1, UnmaskedWord DEF UpdateGuestForSoftwareInterrupt
<1>6. cs' \in [sel : Word, base : Nat] /\ rip' \in Word
  <2>1. Gates[v] \in [sel : Word, ip : Word]
    BY GuestStackAssumption
  <2>2. Gates[v].sel * Para \in Nat
    BY <2>1, BasesAreNat
  <2>3. QED
    BY <2>1, <2>2 DEF UpdateGuestForSoftwareInterrupt, StackTypeOK
<1>7. frames' \in Seq(FrameType)
  <2>1. f \in FrameType
    BY <1>1, <1>3 DEF StackTypeOK, FrameType
  <2>2. frames' = Append(frames, f) /\ frames \in Seq(FrameType)
    BY DEF UpdateGuestForSoftwareInterrupt, StackTypeOK, FrameType
  <2> HIDE DEF f
  <2>3. QED
    BY <2>1, <2>2
<1>8. rsp' \in Word
  BY <1>2 DEF UpdateGuestForSoftwareInterrupt
<1>9. QED
  BY <1>4, <1>5, <1>6, <1>7, <1>8 DEF StackTypeOK, MemOK, FrameType

LEMMA InjectedType ==
  ASSUME StackTypeOK, NEW v \in Vectors, InjectedInterrupt(v)
  PROVE  StackTypeOK'
<1> DEFINE a6 == StackSeg + ((rsp - 6) % W)
           a4 == StackSeg + ((rsp - 4) % W)
           a2 == StackSeg + ((rsp - 2) % W)
           f == [base |-> cs.base, ip |-> (rip + 2) % W, flags |-> flags, sp |-> rsp]
<1>1. MemOK(mem) /\ rsp \in Int /\ rip \in Int /\ flags \in Word /\ cs.sel \in Word
  BY WordRange DEF StackTypeOK, MemOK
<1>2. a6 \in Nat /\ a4 \in Nat /\ a2 \in Nat /\ (rsp - 6) % W \in Word
  BY <1>1, Addresses, WordMod
<1>3. ReturnIP(rip) \in Word /\ (rip + 2) % W \in Word
  BY <1>1, WordMod DEF ReturnIP
<1>4. MemOK(mem')
  <2>1. mem' = StoreFrame(a6, ReturnIP(rip), a4, cs.sel, a2, flags)
    BY DEF InjectedInterrupt
  <2> HIDE DEF a6, a4, a2
  <2>2. QED
    BY <1>1, <1>2, <1>3, <2>1, StoreFrameOK
<1>5. flags' \in Word
  BY <1>1, UnmaskedWord DEF InjectedInterrupt
<1>6. cs' \in [sel : Word, base : Nat] /\ rip' \in Word
  <2>1. Gates[v] \in [sel : Word, ip : Word]
    BY GuestStackAssumption
  <2>2. Gates[v].sel * Para \in Nat
    BY <2>1, BasesAreNat
  <2>3. QED
    BY <2>1, <2>2 DEF InjectedInterrupt, Segment
<1>7. frames' \in Seq(FrameType)
  <2>1. f \in FrameType
    BY <1>1, <1>3 DEF StackTypeOK, FrameType
  <2>2. frames' = Append(frames, f) /\ frames \in Seq(FrameType)
    BY DEF InjectedInterrupt, StackTypeOK, FrameType
  <2> HIDE DEF f
  <2>3. QED
    BY <2>1, <2>2
<1>8. rsp' \in Word
  BY <1>2 DEF InjectedInterrupt
<1>9. QED
  BY <1>4, <1>5, <1>6, <1>7, <1>8 DEF StackTypeOK, MemOK, FrameType

LEMMA ReturnType ==
  ASSUME StackTypeOK, HandleInterrutpReturn
  PROVE  StackTypeOK'
<1> DEFINE a == StackAddress(rsp)
<1>1. MemOK(mem) /\ rsp \in Int
  BY WordRange DEF StackTypeOK, MemOK
<1>2. Load(a) \in Word /\ Load(a + 2) \in Word /\ Load(a + 4) \in Word
  BY <1>1, LoadWord
<1>3. flags' \in Word
  BY <1>2, UnmaskedWord DEF HandleInterrutpReturn, PopCSIPFlagsOffGuestStackReal16
<1>4. cs' \in [sel : Word, base : Nat] /\ rip' \in Word
  BY <1>2, BasesAreNat
     DEF HandleInterrutpReturn, PopCSIPFlagsOffGuestStackReal16, StackTypeOK
<1>5. rsp' \in Word
  BY <1>1, WordMod DEF HandleInterrutpReturn, PopCSIPFlagsOffGuestStackReal16, Release
<1>6. MemOK(mem')
  BY <1>1, ForgetOK DEF HandleInterrutpReturn, PopCSIPFlagsOffGuestStackReal16
<1>7. frames' \in Seq(FrameType)
  <2>1. frames \in Seq(FrameType) /\ frames # <<>> /\ Len(frames) \in Nat \ {0}
    BY DEF StackTypeOK, FrameType, HandleInterrutpReturn
  <2>2. SubSeq(frames, 1, Len(frames) - 1) \in Seq(FrameType)
    BY <2>1, SubSeqProperties
  <2>3. QED
    BY <2>2 DEF HandleInterrutpReturn
<1>8. QED
  BY <1>3, <1>4, <1>5, <1>6, <1>7 DEF StackTypeOK, MemOK, FrameType

LEMMA StackStepType ==
  ASSUME StackTypeOK, StackNext
  PROVE  StackTypeOK'
<1>0. MemOK(mem) /\ rsp \in Int
  BY WordRange DEF StackTypeOK, MemOK
<1>1. CASE \E v \in Vectors : UpdateGuestForSoftwareInterrupt(v)
  BY <1>1, HandIntType
<1>2. CASE \E v \in Vectors : InjectedInterrupt(v)
  BY <1>2, InjectedType
<1>3. CASE HandleInterrutpReturn
  BY <1>3, ReturnType
<1>4. CASE GuestPushes
  <2>1. PICK v \in Pushed : mem' = Store(mem, StackSeg + ((rsp - 2) % W), v)
    BY <1>4 DEF GuestPushes
  <2>2. StackSeg + ((rsp - 2) % W) \in Nat /\ v \in Word /\ (rsp - 2) % W \in Word
    BY <1>0, Addresses, WordMod, GuestStackAssumption
  <2>3. MemOK(mem')
    BY <1>0, <2>1, <2>2, StoreOK
  <2>4. QED
    BY <1>4, <2>2, <2>3 DEF GuestPushes, StackTypeOK, MemOK
<1>5. CASE GuestPops
  <2>1. MemOK(mem') /\ rsp' \in Word
    BY <1>0, <1>5, ForgetOK, WordMod DEF GuestPops
  <2>2. QED
    BY <1>5, <2>1 DEF GuestPops, StackTypeOK, MemOK
<1>6. CASE GuestJumps
  BY <1>6, GuestStackAssumption, BasesAreNat DEF GuestJumps, StackTypeOK, Segment
<1>7. CASE GuestSetsFlags
  BY <1>7, GuestStackAssumption DEF GuestSetsFlags, StackTypeOK
<1>8. QED
  BY <1>1, <1>2, <1>3, <1>4, <1>5, <1>6, <1>7 DEF StackNext
-----------------------------------------------------------------------------
(* The stack: each frame lies below the one it interrupted, and no word      *)
(* stored later touches it.                                                 *)

Bases == {s * Para : s \in Segments}

\* SP where the routine that interrupt i started began; the guest's for 0.
SpAt(i) == IF i = 0 THEN Top ELSE frames[i].sp - 6

Held(m, i) ==
  /\ At(m, StackSeg + SpAt(i)) = frames[i].ip
  /\ At(m, StackSeg + SpAt(i) + 2) * Para = frames[i].base
  /\ At(m, StackSeg + SpAt(i) + 4) = frames[i].flags

StackInvIs(n) ==
  /\ n =< MaxDepth
  /\ \A i \in 1..n : \E k \in 0..MaxWords : frames[i].sp = SpAt(i - 1) - 2 * k
  /\ \E k \in 0..MaxWords : rsp = SpAt(n) - 2 * k
  /\ \A i \in 0..n : SpAt(i) + i * F >= Top
  /\ \A j \in 1..n : \A i \in 0..(j - 1) : frames[j].sp =< SpAt(i)
  /\ cs.base \in Bases
  /\ \A i \in 1..n : frames[i].base \in Bases
  /\ \A i \in 1..n : Held(mem, i)

StackInv == StackInvIs(Len(frames))

LEMMA Constants ==
  ASSUME Sound
  PROVE  /\ Top \in Nat /\ Top < W /\ W \in Nat /\ MaxDepth \in Nat /\ MaxWords \in Nat
         /\ F \in Nat /\ F = 6 + 2 * MaxWords /\ StackSeg \in Nat /\ StackSeg < W
<1>1. W = 65536
  BY DEF W
<1>2. QED
  BY <1>1, GuestStackAssumption, WordRange DEF Sound, F

\* What i interrupts take, and what is left for the others.
LEMMA Taken ==
  ASSUME NEW d \in Nat, NEW i \in 0..d, NEW f \in Nat
  PROVE  /\ i * f \in Nat /\ d * f \in Nat /\ i * f =< d * f
         /\ i < d => (i + 1) * f = i * f + f /\ i * f + f =< d * f
<1>1. d - i \in Nat /\ (d - i) * f \in Nat /\ d * f = i * f + (d - i) * f
  OBVIOUS
<1>2. ASSUME i < d
      PROVE  (d - i - 1) * f \in Nat /\ d * f = i * f + f + (d - i - 1) * f
  BY <1>2
<1>3. QED
  BY <1>1, <1>2

LEMMA FrameTyped ==
  ASSUME StackTypeOK
  PROVE  /\ Len(frames) \in Nat /\ rsp \in Int /\ rsp >= 0 /\ rsp < 65536
         /\ \A i \in 1..Len(frames) :
              /\ frames[i] \in FrameType
              /\ frames[i].sp \in Int /\ frames[i].sp >= 0 /\ frames[i].sp < 65536
              /\ SpAt(i) \in Int /\ SpAt(i) = frames[i].sp - 6
<1>1. frames \in Seq(FrameType)
  BY DEF StackTypeOK, FrameType
<1>2. Len(frames) \in Nat /\ \A i \in 1..Len(frames) : frames[i] \in FrameType
  BY <1>1
<1>3. \A i \in 1..Len(frames) : frames[i].sp \in Word
  BY <1>2 DEF FrameType
<1>4. \A i \in 1..Len(frames) : SpAt(i) = frames[i].sp - 6
  BY <1>2 DEF SpAt
<1>5. rsp \in Int /\ rsp >= 0 /\ rsp < 65536
  BY WordRange DEF StackTypeOK
<1>6. ASSUME NEW i \in 1..Len(frames)
      PROVE  /\ frames[i].sp \in Int /\ frames[i].sp >= 0 /\ frames[i].sp < 65536
             /\ SpAt(i) \in Int
  <2>1. frames[i].sp \in Int /\ frames[i].sp >= 0 /\ frames[i].sp < 65536
    <3> DEFINE s == frames[i].sp
    <3>1. s \in Word
      BY <1>3
    <3> HIDE DEF s
    <3>2. s \in Int /\ s >= 0 /\ s < 65536
      BY <3>1, WordOf
    <3>3. QED
      BY <3>2 DEF s
  <2>2. QED
    BY <1>4, <2>1
<1>7. QED
  BY <1>2, <1>4, <1>5, <1>6

LEMMA Bounds ==
  ASSUME Sound, StackTypeOK, StackInv, NEW i \in 0..Len(frames)
  PROVE  /\ SpAt(i) \in Int /\ SpAt(i) =< Top /\ SpAt(i) >= 2 * MaxWords
         /\ i < MaxDepth => SpAt(i) >= F + 2 * MaxWords
         /\ SpAt(i) % W = SpAt(i)
         /\ rsp =< SpAt(i)
<1>0. /\ Top \in Int /\ Top < 65536 /\ MaxDepth \in Nat /\ MaxWords \in Nat /\ F \in Nat
      /\ MaxDepth * F + 2 * MaxWords =< Top
  BY Constants DEF Sound, W
<1>1. SpAt(i) \in Int
  BY <1>0, FrameTyped DEF SpAt
<1>2. SpAt(i) + i * F >= Top /\ i \in 0..MaxDepth
  BY <1>0, FrameTyped DEF StackInv, StackInvIs
<1>3. /\ i * F \in Nat /\ MaxDepth * F \in Nat /\ i * F =< MaxDepth * F
      /\ i < MaxDepth => i * F + F =< MaxDepth * F
  BY <1>0, <1>2, Taken
<1>4. SpAt(i) >= 2 * MaxWords /\ (i < MaxDepth => SpAt(i) >= F + 2 * MaxWords)
  BY <1>0, <1>1, <1>2, <1>3
<1>5. SpAt(i) =< Top
  <2>1. CASE i = 0
    BY <2>1, <1>0 DEF SpAt
  <2>2. CASE i # 0
    <3>1. i \in 1..Len(frames) /\ 0 \in 0..(i - 1)
      BY <2>2, FrameTyped
    <3>2. frames[i].sp =< SpAt(0) /\ SpAt(0) = Top
      BY <3>1 DEF StackInv, StackInvIs, SpAt
    <3>3. QED
      BY <1>0, <3>1, <3>2, FrameTyped
  <2>3. QED
    BY <2>1, <2>2
<1>6. SpAt(i) % W = SpAt(i)
  <2>1. SpAt(i) \in Word
    BY <1>0, <1>1, <1>4, <1>5, WordRange
  <2>2. QED
    BY <1>1, <2>1, WordMod
<1>7. rsp =< SpAt(i)
  <2>1. PICK k \in 0..MaxWords : rsp = SpAt(Len(frames)) - 2 * k
    BY DEF StackInv, StackInvIs
  <2>2. SpAt(Len(frames)) \in Int /\ rsp =< SpAt(Len(frames))
    <3>1. Len(frames) \in Nat /\ rsp \in Int
      BY FrameTyped
    <3>2. SpAt(Len(frames)) \in Int
      <4>1. CASE Len(frames) = 0
        BY <1>0, <4>1 DEF SpAt
      <4>2. CASE Len(frames) # 0
        <5>1. Len(frames) \in 1..Len(frames)
          BY <3>1, <4>2
        <5>2. QED
          BY <5>1, FrameTyped
      <4>3. QED
        BY <4>1, <4>2
    <3>3. QED
      BY <1>0, <2>1, <3>1, <3>2
  <2>3. CASE i = Len(frames)
    BY <2>2, <2>3
  <2>4. CASE i # Len(frames)
    <3>1. Len(frames) \in 1..Len(frames) /\ i \in 0..(Len(frames) - 1)
      BY <2>4, FrameTyped
    <3>2. frames[Len(frames)].sp =< SpAt(i)
      BY <3>1 DEF StackInv, StackInvIs
    <3>3. QED
      BY <1>1, <2>2, <3>1, <3>2, FrameTyped
  <2>5. QED
    BY <2>3, <2>4
<1>8. QED
  BY <1>1, <1>4, <1>5, <1>6, <1>7

LEMMA BottomIs ==
  ASSUME Sound, StackTypeOK, StackInv
  PROVE  Bottom = SpAt(Len(frames))
<1>1. CASE frames = <<>>
  BY <1>1 DEF Bottom, SpAt
<1>2. CASE frames # <<>>
  <2>1. Len(frames) \in 1..Len(frames)
    BY <1>2, FrameTyped DEF StackTypeOK
  <2>2. SpAt(Len(frames)) = frames[Len(frames)].sp - 6
    BY <2>1, FrameTyped
  <2>3. SpAt(Len(frames)) % W = SpAt(Len(frames))
    BY <2>1, Bounds
  <2>4. QED
    BY <1>2, <2>2, <2>3 DEF Bottom, FrameSp
<1>3. QED
  BY <1>1, <1>2

LEMMA AddressIs ==
  ASSUME Sound, NEW a \in Nat
  PROVE  StackAddress(a) = StackSeg + a
<1>1. StackSeg \in Word
  BY Constants, WordRange DEF W
<1>2. QED
  BY <1>1, Constants, WordMod DEF StackAddress

\* The invariant says what FramesKept says.
LEMMA HeldIsKept ==
  ASSUME Sound, StackTypeOK, StackInv
  PROVE  FramesKept
<1>1. SUFFICES ASSUME NEW i \in 1..Len(frames)
               PROVE  FrameKept(frames[i])
  BY DEF FramesKept
<1>2. FrameSp(frames[i]) = SpAt(i) /\ SpAt(i) \in Nat
  <2>1. SpAt(i) = frames[i].sp - 6 /\ i \in 0..Len(frames)
    BY FrameTyped
  <2>2. SpAt(i) % W = SpAt(i) /\ SpAt(i) \in Int /\ SpAt(i) >= 2 * MaxWords
    BY <2>1, Bounds
  <2>3. SpAt(i) \in Nat
    BY <2>2, Constants
  <2>4. QED
    BY <2>1, <2>2, <2>3 DEF FrameSp
<1>3. StackAddress(FrameSp(frames[i])) = StackSeg + SpAt(i)
  BY <1>2, AddressIs
<1>4. Held(mem, i)
  BY DEF StackInv, StackInvIs
<1>5. \A a : Load(a) = At(mem, a)
  BY DEF Load, At
<1>6. QED
  BY <1>3, <1>4, <1>5 DEF Held, FrameKept
-----------------------------------------------------------------------------
(* The invariant is kept: three ways in which a step can change the stack.   *)

\* The frame of i is not below the words of the routine that runs.
LEMMA Above ==
  ASSUME Sound, StackTypeOK, StackInv, NEW i \in 0..Len(frames)
  PROVE  SpAt(i) >= SpAt(Len(frames))
<1>1. CASE i = Len(frames)
  BY <1>1, Bounds
<1>2. CASE i # Len(frames)
  <2>1. Len(frames) \in 1..Len(frames) /\ i \in 0..(Len(frames) - 1)
    BY <1>2, FrameTyped
  <2>2. frames[Len(frames)].sp =< SpAt(i)
    BY <2>1 DEF StackInv, StackInvIs
  <2>3. /\ SpAt(Len(frames)) = frames[Len(frames)].sp - 6
        /\ frames[Len(frames)].sp \in Int
    BY <2>1, FrameTyped
  <2>4. SpAt(i) \in Int
    BY Bounds
  <2>5. QED
    BY <2>2, <2>3, <2>4
<1>3. QED
  BY <1>1, <1>2

LEMMA HeldStays ==
  ASSUME Sound, StackTypeOK, StackInv, NEW i \in 1..Len(frames), NEW n \in Int,
         SpAt(i) >= n, frames'[i] = frames[i],
         \A b \in Int : b >= StackSeg + n => At(mem', b) = At(mem, b)
  PROVE  Held(mem, i)'
<1>1. SpAt(i) \in Int /\ StackSeg \in Nat
  BY FrameTyped, Constants
<1>2. SpAt(i)' = SpAt(i)
  BY DEF SpAt
<1>3. /\ At(mem', StackSeg + SpAt(i)) = At(mem, StackSeg + SpAt(i))
      /\ At(mem', StackSeg + SpAt(i) + 2) = At(mem, StackSeg + SpAt(i) + 2)
      /\ At(mem', StackSeg + SpAt(i) + 4) = At(mem, StackSeg + SpAt(i) + 4)
  <2>1. /\ StackSeg + SpAt(i) \in Int /\ StackSeg + SpAt(i) >= StackSeg + n
        /\ StackSeg + SpAt(i) + 2 \in Int /\ StackSeg + SpAt(i) + 2 >= StackSeg + n
        /\ StackSeg + SpAt(i) + 4 \in Int /\ StackSeg + SpAt(i) + 4 >= StackSeg + n
    BY <1>1
  <2>2. QED
    BY <2>1
<1>4. Held(mem, i)
  BY DEF StackInv, StackInvIs
<1>5. QED
  BY <1>2, <1>3, <1>4 DEF Held

\* SP moves within the routine, and words below its bottom may change.
LEMMA MoveKeeps ==
  ASSUME Sound, StackTypeOK, StackInv,
         frames' = frames, cs'.base \in Bases,
         \E k \in 0..MaxWords : rsp' = SpAt(Len(frames)) - 2 * k,
         \A b \in Int : b >= StackSeg + SpAt(Len(frames)) => At(mem', b) = At(mem, b)
  PROVE  StackInv'
<1>1. \A i : SpAt(i)' = SpAt(i)
  BY DEF SpAt
<1>2. ASSUME NEW i \in 1..Len(frames)
      PROVE  Held(mem, i)'
  <2>1. SpAt(i) >= SpAt(Len(frames))
    BY Above
  <2>2. SpAt(Len(frames)) \in Int
    BY Bounds, FrameTyped
  <2>3. QED
    BY <2>1, <2>2, HeldStays
<1>3. QED
  BY <1>1, <1>2 DEF StackInv, StackInvIs

\* An interrupt puts a frame below the words of the routine it interrupts.
LEMMA PushKeeps ==
  ASSUME Sound, StackTypeOK, StackInv, NEW n \in Nat, n = Len(frames), n < MaxDepth,
         NEW f \in FrameType, f.sp = rsp, f.base = cs.base,
         frames' = Append(frames, f), rsp' = rsp - 6, cs'.base \in Bases,
         At(mem', StackSeg + (rsp - 6)) = f.ip,
         At(mem', StackSeg + (rsp - 6) + 2) * Para = f.base,
         At(mem', StackSeg + (rsp - 6) + 4) = f.flags,
         \A b \in Int : b >= StackSeg + rsp => At(mem', b) = At(mem, b)
  PROVE  StackInv'
<1>0. n \in Nat /\ rsp \in Int /\ frames \in Seq(FrameType) /\ F \in Nat /\ Top \in Nat
      /\ F = 6 + 2 * MaxWords /\ MaxWords \in Nat /\ MaxDepth \in Nat
  BY FrameTyped, Constants DEF StackTypeOK, FrameType
<1>1. Len(frames') = n + 1 /\ frames'[n + 1] = f /\ \A i \in 1..n : frames'[i] = frames[i]
  BY <1>0
<1>2. (\A i \in 0..n : SpAt(i)' = SpAt(i)) /\ SpAt(n + 1)' = rsp - 6
  <2>1. ASSUME NEW i \in 0..n
        PROVE  SpAt(i)' = SpAt(i)
    <3>1. CASE i = 0
      BY <3>1 DEF SpAt
    <3>2. CASE i # 0
      <4>1. i \in 1..n
        BY <1>0, <3>2
      <4>2. QED
        BY <1>1, <3>2, <4>1 DEF SpAt
    <3>3. QED
      BY <3>1, <3>2
  <2>2. n + 1 # 0
    BY <1>0
  <2>3. SpAt(n + 1)' = frames'[n + 1].sp - 6
    BY <2>2 DEF SpAt
  <2>4. QED
    BY <1>1, <2>1, <2>3
<1>3. PICK k \in 0..MaxWords : rsp = SpAt(n) - 2 * k
  BY DEF StackInv, StackInvIs
<1>4. SpAt(n) \in Int /\ n \in 0..n
  BY <1>0, Bounds
<1>5. Len(frames') =< MaxDepth
  BY <1>0, <1>1
<1>6. ASSUME NEW i \in 1..(n + 1)
      PROVE  \E q \in 0..MaxWords : frames'[i].sp = SpAt(i - 1)' - 2 * q
  <2>1. CASE i = n + 1
    <3>1. i - 1 = n /\ SpAt(i - 1)' = SpAt(n)
      BY <1>0, <1>2, <1>4, <2>1
    <3>2. QED
      BY <1>1, <1>3, <2>1, <3>1
  <2>2. CASE i # n + 1
    <3>1. i \in 1..n /\ i - 1 \in 0..n
      BY <1>0, <2>2
    <3>2. SpAt(i - 1)' = SpAt(i - 1) /\ frames'[i] = frames[i]
      BY <1>1, <1>2, <3>1
    <3>3. \E q \in 0..MaxWords : frames[i].sp = SpAt(i - 1) - 2 * q
      BY <3>1 DEF StackInv, StackInvIs
    <3>4. QED
      BY <3>2, <3>3
  <2>3. QED
    BY <2>1, <2>2
<1>7. \E q \in 0..MaxWords : rsp' = SpAt(n + 1)' - 2 * q
  <2>1. 0 \in 0..MaxWords /\ rsp' = SpAt(n + 1)' - 2 * 0
    BY <1>0, <1>2
  <2>2. QED
    BY <2>1
<1>8. ASSUME NEW i \in 0..(n + 1)
      PROVE  SpAt(i)' + i * F >= Top
  <2>1. CASE i = n + 1
    <3>1. SpAt(n) + n * F >= Top
      BY <1>4 DEF StackInv, StackInvIs
    <3>2. (n + 1) * F = n * F + F /\ n * F \in Nat
      BY <1>0, Taken
    <3>3. rsp - 6 >= SpAt(n) - F
      BY <1>0, <1>3, <1>4
    <3>4. (rsp - 6) + (n * F + F) >= Top
      BY <1>0, <1>4, <3>1, <3>2, <3>3
    <3>5. SpAt(i)' = rsp - 6 /\ i * F = n * F + F
      BY <1>2, <2>1, <3>2
    <3>6. QED
      BY <3>4, <3>5
  <2>2. CASE i # n + 1
    <3>1. i \in 0..n
      BY <1>0, <2>2
    <3>2. QED
      BY <1>2, <3>1 DEF StackInv, StackInvIs
  <2>3. QED
    BY <2>1, <2>2
<1>9. ASSUME NEW j \in 1..(n + 1), NEW i \in 0..(j - 1)
      PROVE  frames'[j].sp =< SpAt(i)'
  <2>1. i \in 0..n /\ SpAt(i)' = SpAt(i)
    BY <1>0, <1>2
  <2>2. CASE j = n + 1
    <3>1. rsp =< SpAt(i)
      BY <2>1, Bounds
    <3>2. QED
      BY <1>1, <2>1, <2>2, <3>1
  <2>3. CASE j # n + 1
    <3>1. j \in 1..n
      BY <1>0, <2>3
    <3>2. frames[j].sp =< SpAt(i)
      BY <3>1 DEF StackInv, StackInvIs
    <3>3. QED
      BY <1>1, <2>1, <3>1, <3>2
  <2>4. QED
    BY <2>2, <2>3
<1>10. ASSUME NEW i \in 1..(n + 1)
       PROVE  frames'[i].base \in Bases /\ Held(mem, i)'
  <2>1. CASE i = n + 1
    <3>1. frames'[i] = f /\ SpAt(i)' = rsp - 6
      BY <1>1, <1>2, <2>1
    <3>2. Held(mem, i)'
      BY <3>1 DEF Held
    <3>3. cs.base \in Bases
      BY DEF StackInv, StackInvIs
    <3>4. QED
      BY <3>1, <3>2, <3>3
  <2>2. CASE i # n + 1
    <3>1. i \in 1..n /\ frames'[i] = frames[i] /\ i \in 0..n
      BY <1>0, <1>1, <2>2
    <3>2. SpAt(i) >= rsp
      BY <3>1, Bounds
    <3>3. Held(mem, i)'
      BY <1>0, <3>1, <3>2, HeldStays
    <3>4. QED
      BY <3>1, <3>3 DEF StackInv, StackInvIs
  <2>3. QED
    BY <2>1, <2>2
<1>11. StackInvIs(n + 1)'
  BY <1>1, <1>5, <1>6, <1>7, <1>8, <1>9, <1>10 DEF StackInvIs
<1>12. QED
  BY <1>1, <1>11 DEF StackInv, StackInvIs

\* A return takes the last frame away.
LEMMA PopKeeps ==
  ASSUME Sound, StackTypeOK, StackInv, NEW n \in Nat, n = Len(frames),
         NEW p \in Nat, p = n - 1, rsp = SpAt(Len(frames)),
         frames' = SubSeq(frames, 1, Len(frames) - 1),
         rsp' = frames[Len(frames)].sp, cs'.base \in Bases,
         \A b \in Int : b >= StackSeg + (rsp + 6) => At(mem', b) = At(mem, b)
  PROVE  StackInv'
<1>0. /\ n \in Nat /\ p \in Nat /\ n = p + 1 /\ frames \in Seq(FrameType)
      /\ n \in 1..n /\ p \in 0..n /\ MaxDepth \in Nat
  BY FrameTyped, Constants DEF StackTypeOK, FrameType
<1>1. Len(frames') = p /\ \A i \in 1..p : frames'[i] = frames[i] /\ i \in 1..n
  BY <1>0, SubSeqProperties
<1>2. \A i \in 0..p : SpAt(i)' = SpAt(i) /\ i \in 0..n
  BY <1>0, <1>1 DEF SpAt
<1>3. Len(frames') =< MaxDepth
  BY <1>0, <1>1 DEF StackInv, StackInvIs
<1>4. ASSUME NEW i \in 1..p
      PROVE  \E q \in 0..MaxWords : frames'[i].sp = SpAt(i - 1)' - 2 * q
  <2>1. i - 1 \in 0..p /\ i \in 1..n
    BY <1>0
  <2>2. SpAt(i - 1)' = SpAt(i - 1) /\ frames'[i] = frames[i]
    BY <1>1, <1>2, <2>1
  <2>3. \E q \in 0..MaxWords : frames[i].sp = SpAt(i - 1) - 2 * q
    BY <2>1 DEF StackInv, StackInvIs
  <2>4. QED
    BY <2>2, <2>3
<1>5. \E q \in 0..MaxWords : rsp' = SpAt(p)' - 2 * q
  <2>1. n - 1 = p /\ p \in 0..p
    BY <1>0
  <2>2. \E q \in 0..MaxWords : frames[n].sp = SpAt(n - 1) - 2 * q
    BY <1>0 DEF StackInv, StackInvIs
  <2>3. SpAt(p)' = SpAt(n - 1) /\ rsp' = frames[n].sp
    <3>1. SpAt(p)' = SpAt(p)
      BY <1>2, <2>1
    <3>2. SpAt(p) = SpAt(n - 1)
      BY <2>1
    <3>3. QED
      BY <3>1, <3>2
  <2>4. QED
    BY <2>2, <2>3
<1>6. \A i \in 0..p : SpAt(i)' + i * F >= Top
  BY <1>2 DEF StackInv, StackInvIs
<1>7. ASSUME NEW j \in 1..p, NEW i \in 0..(j - 1)
      PROVE  frames'[j].sp =< SpAt(i)'
  <2>1. i \in 0..p /\ j \in 1..n
    BY <1>0
  <2>2. frames[j].sp =< SpAt(i)
    BY <2>1 DEF StackInv, StackInvIs
  <2>3. QED
    BY <1>1, <1>2, <2>1, <2>2
<1>8. ASSUME NEW i \in 1..p
      PROVE  frames'[i].base \in Bases /\ Held(mem, i)'
  <2>1. i \in 1..n /\ i \in 0..(n - 1) /\ frames'[i] = frames[i]
    BY <1>0, <1>1
  <2>2. frames[n].sp =< SpAt(i) /\ SpAt(n) = frames[n].sp - 6 /\ frames[n].sp \in Int
    <3>1. \A j \in 1..n : \A k \in 0..(j - 1) : frames[j].sp =< SpAt(k)
      BY DEF StackInv, StackInvIs
    <3>2. frames[n].sp =< SpAt(i)
      BY <1>0, <2>1, <3>1
    <3>3. SpAt(n) = frames[n].sp - 6 /\ frames[n].sp \in Int
      BY <1>0, FrameTyped
    <3>4. QED
      BY <3>2, <3>3
  <2>3. rsp + 6 = frames[n].sp /\ rsp + 6 \in Int /\ SpAt(i) >= rsp + 6
    <3>1. rsp = SpAt(n)
      OBVIOUS
    <3>2. rsp + 6 = frames[n].sp
      BY <2>2, <3>1
    <3>3. QED
      BY <2>2, <3>2
  <2>4. Held(mem, i)'
    BY <2>1, <2>3, HeldStays
  <2>5. QED
    BY <2>1, <2>4 DEF StackInv, StackInvIs
<1>9. StackInvIs(p)'
  BY <1>1, <1>3, <1>4, <1>5, <1>6, <1>7, <1>8 DEF StackInvIs
<1>10. QED
  BY <1>1, <1>9 DEF StackInv, StackInvIs
-----------------------------------------------------------------------------
(* Each action.                                                             *)

LEMMA BaseOfBases ==
  ASSUME NEW b \in Bases
  PROVE  /\ b \in Nat /\ b < W
         /\ PushedCS(b) \in Word /\ PushedCS(b) * Para = b
<1>1. PICK s \in Segments : b = s * Para
  BY DEF Bases
<1>2. QED
  BY <1>1, SegmentOfBase

\* There is room for a frame, so SP does not wrap.
LEMMA Room ==
  ASSUME Sound, StackTypeOK, StackInv, Len(frames) < MaxDepth
  PROVE  /\ rsp >= 6 /\ rsp < 65536 /\ rsp \in Int
         /\ (rsp - 6) % W = rsp - 6 /\ (rsp - 4) % W = rsp - 4 /\ (rsp - 2) % W = rsp - 2
<1>1. PICK k \in 0..MaxWords : rsp = SpAt(Len(frames)) - 2 * k
  BY DEF StackInv, StackInvIs
<1>2. Len(frames) \in 0..Len(frames) /\ rsp \in Int /\ rsp < 65536
  BY FrameTyped
<1>3. SpAt(Len(frames)) \in Int /\ SpAt(Len(frames)) >= F + 2 * MaxWords
  BY <1>2, Bounds
<1>4. rsp >= 6
  BY <1>1, <1>2, <1>3, Constants
<1>5. rsp - 6 \in Word /\ rsp - 4 \in Word /\ rsp - 2 \in Word
  BY <1>2, <1>4, WordRange
<1>6. QED
  BY <1>2, <1>4, <1>5, WordMod

LEMMA GateBases ==
  ASSUME Sound, NEW v \in Vectors
  PROVE  Gates[v].sel * Para \in Bases
BY DEF Sound, Bases

LEMMA HandIntKeeps ==
  ASSUME Sound, StackTypeOK, StackInv,
         NEW v \in Vectors, UpdateGuestForSoftwareInterrupt(v)
  PROVE  StackInv'
<1> DEFINE f == [base |-> cs.base, ip |-> (rip + 2) % W, flags |-> flags, sp |-> rsp]
           a == StackSeg + (rsp - 6)
<1>1. Len(frames) < MaxDepth /\ Len(frames) \in Nat
  BY FrameTyped DEF UpdateGuestForSoftwareInterrupt
<1>2. rsp >= 6 /\ rsp \in Int /\ (rsp - 6) % W = rsp - 6 /\ StackSeg \in Nat
  BY <1>1, Room, Constants
<1>3. rip \in Int /\ flags \in Word /\ MemOK(mem) /\ rsp \in Word
  BY WordRange DEF StackTypeOK, MemOK
<1>4. ReturnIP(rip) = (rip + 2) % W /\ (rip + 2) % W \in Word
  BY <1>3, WordMod DEF ReturnIP
<1>5. cs.base \in Nat /\ PushedCS(cs.base) \in Word /\ PushedCS(cs.base) * Para = cs.base
  BY BaseOfBases DEF StackInv, StackInvIs
<1>6. StackAddress(rsp - 6) = a /\ a \in Nat /\ a + 2 \in Nat /\ a + 4 \in Nat
      /\ a # a + 2 /\ a # a + 4 /\ a + 2 # a + 4
  BY <1>2, AddressIs
<1>7. mem' = StoreFrame(a, ReturnIP(rip), a + 2, PushedCS(cs.base), a + 4, flags)
  BY <1>2, <1>6 DEF UpdateGuestForSoftwareInterrupt
<1>8. ASSUME NEW b \in Int, b >= StackSeg + rsp
      PROVE  b \notin {a, a + 2, a + 4}
  BY <1>2, <1>8
<1>9. f \in FrameType /\ f.sp = rsp /\ f.base = cs.base /\ f.flags = flags
      /\ f.ip = ReturnIP(rip) /\ frames' = Append(frames, f) /\ rsp' = rsp - 6
  BY <1>2, <1>3, <1>4, <1>5 DEF FrameType, UpdateGuestForSoftwareInterrupt
<1>10. cs'.base \in Bases
  BY GateBases DEF UpdateGuestForSoftwareInterrupt, StackTypeOK
<1> HIDE DEF f, a
<1>11. At(mem', a) = f.ip /\ At(mem', a + 2) * Para = f.base /\ At(mem', a + 4) = f.flags
       /\ \A b : b \notin {a, a + 2, a + 4} => At(mem', b) = At(mem, b)
  BY <1>3, <1>4, <1>5, <1>6, <1>7, <1>9, StoreFrameOK
<1>12. \A b \in Int : b >= StackSeg + rsp => At(mem', b) = At(mem, b)
  BY <1>8, <1>11
<1>13. At(mem', StackSeg + (rsp - 6)) = f.ip
       /\ At(mem', StackSeg + (rsp - 6) + 2) * Para = f.base
       /\ At(mem', StackSeg + (rsp - 6) + 4) = f.flags
  BY <1>11 DEF a
<1>14. QED
  BY <1>1, <1>9, <1>10, <1>12, <1>13, PushKeeps

LEMMA InjectedKeeps ==
  ASSUME Sound, StackTypeOK, StackInv, NEW v \in Vectors, InjectedInterrupt(v)
  PROVE  StackInv'
<1> DEFINE f == [base |-> cs.base, ip |-> (rip + 2) % W, flags |-> flags, sp |-> rsp]
           a == StackSeg + (rsp - 6)
<1>1. Len(frames) < MaxDepth /\ Len(frames) \in Nat
  BY FrameTyped DEF InjectedInterrupt
<1>2. rsp >= 6 /\ rsp \in Int /\ StackSeg \in Nat
      /\ (rsp - 6) % W = rsp - 6 /\ (rsp - 4) % W = rsp - 4 /\ (rsp - 2) % W = rsp - 2
  BY <1>1, Room, Constants
<1>3. rip \in Int /\ flags \in Word /\ MemOK(mem) /\ rsp \in Word /\ cs.sel \in Word
      /\ cs.base \in Nat
  BY WordRange DEF StackTypeOK, MemOK
<1>4. ReturnIP(rip) = (rip + 2) % W /\ (rip + 2) % W \in Word
  BY <1>3, WordMod DEF ReturnIP
<1>5. cs.sel * Para = cs.base
  BY DEF InjectedInterrupt, InStep, Sound
<1>6. a \in Nat /\ a + 2 \in Nat /\ a + 4 \in Nat /\ a + 2 = StackSeg + (rsp - 4)
      /\ a + 4 = StackSeg + (rsp - 2) /\ a # a + 2 /\ a # a + 4 /\ a + 2 # a + 4
  BY <1>2
<1>7. mem' = StoreFrame(a, ReturnIP(rip), a + 2, cs.sel, a + 4, flags)
  BY <1>2, <1>6 DEF InjectedInterrupt
<1>8. ASSUME NEW b \in Int, b >= StackSeg + rsp
      PROVE  b \notin {a, a + 2, a + 4}
  BY <1>2, <1>8
<1>9. f \in FrameType /\ f.sp = rsp /\ f.base = cs.base /\ f.flags = flags
      /\ f.ip = ReturnIP(rip) /\ frames' = Append(frames, f) /\ rsp' = rsp - 6
  BY <1>2, <1>3, <1>4 DEF FrameType, InjectedInterrupt
<1>10. cs'.base \in Bases
  BY GateBases DEF InjectedInterrupt, Segment
<1> HIDE DEF f, a
<1>11. At(mem', a) = f.ip /\ At(mem', a + 2) * Para = f.base /\ At(mem', a + 4) = f.flags
       /\ \A b : b \notin {a, a + 2, a + 4} => At(mem', b) = At(mem, b)
  <2>1. /\ At(mem', a) = ReturnIP(rip) /\ At(mem', a + 2) = cs.sel /\ At(mem', a + 4) = flags
        /\ \A b : b \notin {a, a + 2, a + 4} => At(mem', b) = At(mem, b)
    <3> DEFINE s == cs.sel
               i == ReturnIP(rip)
               b2 == a + 2
               b4 == a + 4
    <3>1. s \in Word /\ i \in Word /\ b2 \in Nat /\ b4 \in Nat
          /\ a # b2 /\ a # b4 /\ b2 # b4 /\ mem' = StoreFrame(a, i, b2, s, b4, flags)
      BY <1>3, <1>4, <1>6, <1>7
    <3> HIDE DEF s, i, b2, b4
    <3>2. /\ At(mem', a) = i /\ At(mem', b2) = s /\ At(mem', b4) = flags
          /\ \A b : b \notin {a, b2, b4} => At(mem', b) = At(mem, b)
      BY <1>3, <1>6, <3>1, StoreFrameOK
    <3>3. QED
      BY <3>2 DEF s, i, b2, b4
  <2>2. QED
    BY <1>5, <1>9, <2>1
<1>12. \A b \in Int : b >= StackSeg + rsp => At(mem', b) = At(mem, b)
  BY <1>8, <1>11
<1>13. At(mem', StackSeg + (rsp - 6)) = f.ip
       /\ At(mem', StackSeg + (rsp - 6) + 2) * Para = f.base
       /\ At(mem', StackSeg + (rsp - 6) + 4) = f.flags
  BY <1>11 DEF a
<1>14. QED
  BY <1>1, <1>9, <1>10, <1>12, <1>13, PushKeeps

\* IRET finds the last frame, and goes back to where it came from.
LEMMA IretEffect ==
  ASSUME Sound, StackTypeOK, StackInv, HandleInterrutpReturn
  PROVE  StackInv' /\ ReturnsTo(frames[Len(frames)])
<1> DEFINE a == StackSeg + rsp
<1>0. PICK n \in Nat : n = Len(frames)
  BY FrameTyped
<1>1. frames # <<>> /\ n \in 1..n /\ n - 1 \in Nat /\ n \in 1..Len(frames)
  BY <1>0 DEF HandleInterrutpReturn, StackTypeOK
<1>2. rsp = SpAt(n) /\ rsp \in Nat
  BY <1>0, BottomIs, WordOf DEF HandleInterrutpReturn, StackTypeOK
<1>3. /\ frames[n] \in FrameType /\ frames[n].sp \in Int /\ rsp = frames[n].sp - 6
      /\ frames[n].sp \in Word
  BY <1>0, <1>1, <1>2, FrameTyped DEF FrameType
<1>4. rsp' = frames[n].sp
  <2>1. rsp + 6 = frames[n].sp
    BY <1>2, <1>3
  <2>2. (rsp + 6) % W = rsp + 6
    BY <1>3, <2>1, WordMod
  <2>3. QED
    BY <2>1, <2>2 DEF HandleInterrutpReturn, PopCSIPFlagsOffGuestStackReal16, Release
<1>5. StackAddress(rsp) = a /\ a \in Nat
  BY <1>2, AddressIs, Constants
<1>6. Load(a) = frames[n].ip /\ Load(a + 2) * Para = frames[n].base
      /\ Load(a + 4) = frames[n].flags /\ frames[n].base \in Bases
  <2>1. Held(mem, n) /\ frames[n].base \in Bases
    BY <1>0, <1>1 DEF StackInv, StackInvIs
  <2>2. \A b : Load(b) = At(mem, b)
    BY DEF Load, At
  <2>3. QED
    BY <1>2, <2>1, <2>2 DEF Held
<1>7. /\ cs'.base = frames[n].base /\ rip' = frames[n].ip
      /\ flags' = Without(With(frames[n].flags, IF_), TF)
      /\ mem' = Forget({a, a + 2, a + 4})
      /\ frames' = SubSeq(frames, 1, n - 1)
  BY <1>0, <1>5, <1>6
     DEF HandleInterrutpReturn, PopCSIPFlagsOffGuestStackReal16, StackTypeOK
<1>8. \A b \in Int : b >= StackSeg + (rsp + 6) => At(mem', b) = At(mem, b)
  <2>1. ASSUME NEW b \in Int, b >= StackSeg + (rsp + 6)
        PROVE  b \notin {a, a + 2, a + 4}
    BY <1>2, <2>1, Constants
  <2>2. MemOK(mem)
    BY DEF StackTypeOK, MemOK
  <2> HIDE DEF a
  <2>3. QED
    BY <1>7, <2>1, <2>2, ForgetOK
<1>9. StackInv'
  BY <1>0, <1>1, <1>2, <1>4, <1>6, <1>7, <1>8, PopKeeps
<1>10. Unmasked(flags') = Unmasked(frames[n].flags)
  BY <1>3, <1>7, OtherFlags DEF FrameType
<1>11. QED
  BY <1>0, <1>4, <1>7, <1>9, <1>10 DEF ReturnsTo

LEMMA PushesKeep ==
  ASSUME Sound, StackTypeOK, StackInv, GuestPushes
  PROVE  StackInv'
<1>1. PICK k \in 0..MaxWords : rsp = SpAt(Len(frames)) - 2 * k
  BY DEF StackInv, StackInvIs
<1>2. Len(frames) \in 0..Len(frames) /\ rsp \in Int /\ rsp < 65536
      /\ MaxWords \in Nat /\ StackSeg \in Nat
  BY FrameTyped, Constants
<1>3. SpAt(Len(frames)) \in Int /\ SpAt(Len(frames)) >= 2 * MaxWords
      /\ SpAt(Len(frames)) =< Top /\ Top \in Int /\ Top < 65536
  BY <1>2, Bounds, Constants DEF W
<1>4. 2 * k < 2 * MaxWords
  <2>1. Bottom - rsp = 2 * k /\ 2 * k \in Word
    BY <1>1, <1>2, <1>3, BottomIs, WordRange
  <2>2. (Bottom - rsp) % W = 2 * k
    BY <2>1, <1>2, WordMod
  <2>3. QED
    BY <2>2 DEF GuestPushes
<1>5. rsp - 2 = SpAt(Len(frames)) - 2 * (k + 1) /\ k + 1 \in 0..MaxWords /\ rsp - 2 >= 0
  BY <1>1, <1>2, <1>3, <1>4
<1>6. (rsp - 2) % W = rsp - 2
  BY <1>2, <1>5, WordRange, WordMod
<1>7. rsp' = rsp - 2 /\ frames' = frames /\ cs' = cs
  BY <1>6 DEF GuestPushes
<1>8. \A b \in Int : b >= StackSeg + SpAt(Len(frames)) => At(mem', b) = At(mem, b)
  <2>1. PICK v \in Pushed : mem' = Store(mem, StackSeg + (rsp - 2), v)
    BY <1>6 DEF GuestPushes
  <2>2. v \in Word /\ StackSeg + (rsp - 2) \in Nat /\ MemOK(mem)
    BY <1>2, <1>5, GuestStackAssumption DEF StackTypeOK, MemOK
  <2>3. \A b : b # StackSeg + (rsp - 2) => At(mem', b) = At(mem, b)
    BY <2>1, <2>2, StoreOK
  <2>4. ASSUME NEW b \in Int, b >= StackSeg + SpAt(Len(frames))
        PROVE  b # StackSeg + (rsp - 2)
    BY <1>1, <1>2, <1>3, <2>4
  <2>5. QED
    BY <2>3, <2>4
<1>9. cs'.base \in Bases
  BY <1>7 DEF StackInv, StackInvIs
<1>10. \E q \in 0..MaxWords : rsp' = SpAt(Len(frames)) - 2 * q
  BY <1>5, <1>7
<1>11. QED
  BY <1>7, <1>8, <1>9, <1>10, MoveKeeps

LEMMA PopsKeep ==
  ASSUME Sound, StackTypeOK, StackInv, GuestPops
  PROVE  StackInv'
<1>1. PICK k \in 0..MaxWords : rsp = SpAt(Len(frames)) - 2 * k
  BY DEF StackInv, StackInvIs
<1>2. Len(frames) \in 0..Len(frames) /\ rsp \in Int /\ rsp >= 0 /\ rsp < 65536
      /\ MaxWords \in Nat /\ StackSeg \in Nat
  BY FrameTyped, Constants
<1>3. SpAt(Len(frames)) \in Int /\ SpAt(Len(frames)) =< Top /\ Top \in Int /\ Top < 65536
  BY <1>2, Bounds, Constants DEF W
<1>4. k # 0
  BY <1>1, <1>3, BottomIs DEF GuestPops
<1>5. rsp + 2 = SpAt(Len(frames)) - 2 * (k - 1) /\ k - 1 \in 0..MaxWords
      /\ rsp + 2 =< Top /\ rsp < SpAt(Len(frames))
  BY <1>1, <1>2, <1>3, <1>4
<1>6. (rsp + 2) % W = rsp + 2
  BY <1>2, <1>3, <1>5, WordRange, WordMod
<1>7. rsp' = rsp + 2 /\ frames' = frames /\ cs' = cs
  BY <1>6 DEF GuestPops
<1>8. \A b \in Int : b >= StackSeg + SpAt(Len(frames)) => At(mem', b) = At(mem, b)
  <2>1. mem' = Forget({StackSeg + rsp}) /\ MemOK(mem)
    BY DEF GuestPops, StackTypeOK, MemOK
  <2>2. \A b : b \notin {StackSeg + rsp} => At(mem', b) = At(mem, b)
    BY <2>1, ForgetOK
  <2>3. ASSUME NEW b \in Int, b >= StackSeg + SpAt(Len(frames))
        PROVE  b \notin {StackSeg + rsp}
    BY <1>2, <1>3, <1>5, <2>3
  <2>4. QED
    BY <2>2, <2>3
<1>9. cs'.base \in Bases
  BY <1>7 DEF StackInv, StackInvIs
<1>10. \E q \in 0..MaxWords : rsp' = SpAt(Len(frames)) - 2 * q
  BY <1>5, <1>7
<1>11. QED
  BY <1>7, <1>8, <1>9, <1>10, MoveKeeps

\* A step that leaves the stack alone, with CS in some low segment.
LEMMA OthersKeep ==
  ASSUME Sound, StackTypeOK, StackInv,
         rsp' = rsp, frames' = frames, mem' = mem, cs'.base \in Bases
  PROVE  StackInv'
<1>1. \E k \in 0..MaxWords : rsp' = SpAt(Len(frames)) - 2 * k
  BY DEF StackInv, StackInvIs
<1>2. \A b \in Int : b >= StackSeg + SpAt(Len(frames)) => At(mem', b) = At(mem, b)
  OBVIOUS
<1>3. QED
  BY <1>1, <1>2, MoveKeeps
-----------------------------------------------------------------------------
(* The registers and the control registers.                                 *)

LEMMA SlotIsSaved ==
  ASSUME NEW r \in Operands, r # EAX
  PROVE  Slot(r) = Saved(r) /\ Saved(r) \in Slots /\ r # ESP
BY GuestHandlersAssumption DEF Slot, Saved, Slots, EAX, ECX, EDX, EBX, ESP, EBP, ESI, EDI

LEMMA SlotInSlots ==
  ASSUME NEW r \in 0..7, r # EAX, r # ESP
  PROVE  Slot(r) \in Slots
BY DEF Slot, Slots, EAX, ECX, EDX, EBX, ESP, EBP, ESI, EDI

LEMMA SavedApart ==
  ASSUME NEW r \in Operands, NEW q \in Operands, r # EAX, q # EAX, r # q
  PROVE  Saved(r) # Saved(q)
BY GuestHandlersAssumption DEF Saved, EAX, ECX, EDX, EBX, ESP, EBP, ESI, EDI

LEMMA DwordConstants ==
  /\ Zero \in Dword /\ InitialCR0 \in Dword /\ GuestCR3 \in Dword
  /\ \A d \in Dword : Low(d) \in Dword /\ d.lo \in Word /\ d.hi \in Word
<1>1. 0 \in Word /\ 16 \in Word /\ 54 \in Word /\ 24576 \in Word
  BY WordRange
<1>2. QED
  BY <1>1 DEF Zero, InitialCR0, GuestCR3, Dword, Low

LEMMA OperandsInRange == Operands \subseteq 0..7 /\ ESP \notin Operands
BY GuestHandlersAssumption

LEMMA GetTyped ==
  ASSUME TypeOK, NEW r \in Operands
  PROVE  GetGuestMODRegGenRegValue(r) \in Dword
<1>1. CASE r = EAX
  BY <1>1 DEF GetGuestMODRegGenRegValue, TypeOK, EAX, ESP
<1>2. CASE r # EAX
  <2>1. Slot(r) \in Slots /\ r # ESP
    BY <1>2, SlotIsSaved
  <2>2. GetGuestMODRegGenRegValue(r) = GuestRegisters[Slot(r)]
    BY <1>2, <2>1 DEF GetGuestMODRegGenRegValue
  <2>3. QED
    BY <2>1, <2>2 DEF TypeOK
<1>3. QED
  BY <1>1, <1>2

LEMMA SetTyped ==
  ASSUME TypeOK, NEW q \in 0..7, NEW d \in Dword, NEW whole \in BOOLEAN,
         SetGuestMODRegGenRegValue(q, d, whole)
  PROVE  rip' \in Word /\ rax' \in Dword /\ GuestRegisters' \in [Slots -> Dword]
<1>1. rip' \in Word
  <2>1. d.lo \in Int /\ rip \in Int
    BY DwordConstants, WordOf DEF TypeOK, StackTypeOK
  <2>2. PICK i \in Int : rip' = (i + 3) % W
    BY <2>1 DEF SetGuestMODRegGenRegValue, IncrementGuestIP
  <2>3. QED
    BY <2>2, WordMod
<1>2. rax' \in Dword
  BY DEF SetGuestMODRegGenRegValue, TypeOK, Dword
<1>3. GuestRegisters' \in [Slots -> Dword]
  BY DwordConstants DEF SetGuestMODRegGenRegValue, TypeOK
<1>4. QED
  BY <1>1, <1>2, <1>3

LEMMA OwedTyped ==
  ASSUME TypeOK, NEW r \in Operands, NEW d \in Dword, NEW whole \in BOOLEAN, NEW hi \in Word
  PROVE  Owed(r, d, whole, hi) \in [Operands -> Dword]
BY DEF Owed, TypeOK, Dword

LEMMA ResultTyped ==
  ASSUME NEW r \in Operands, rax' \in Dword, GuestRegisters' \in [Slots -> Dword]
  PROVE  Result(r).hi \in Word
<1>1. Result(r) \in Dword
  BY SlotIsSaved DEF Result
<1>2. QED
  BY <1>1, DwordConstants

LEMMA DecodedInRange ==
  ASSUME NEW r \in Operands
  PROVE  Decoded(r) \subseteq 0..7
BY OperandsInRange DEF Decoded

LEMMA NextIP ==
  ASSUME rip \in Word, NEW n \in Int
  PROVE  (rip + n) % W \in Word
BY WordOf, WordMod

\* An exit that stores into a register.
LEMMA ReadTyped ==
  ASSUME TypeOK, NEW r \in Operands, NEW d \in Dword, NEW whole \in BOOLEAN,
         \E q \in Decoded(r) : SetGuestMODRegGenRegValue(q, d, whole),
         NEW hi, whole \/ hi = Result(r).hi, held' = Owed(r, d, whole, hi),
         UNCHANGED <<cs, rsp, flags, mem, frames, shadows>>
  PROVE  TypeOK'
<1>1. PICK q \in 0..7 : SetGuestMODRegGenRegValue(q, d, whole)
  BY DecodedInRange
<1>2. rip' \in Word /\ rax' \in Dword /\ GuestRegisters' \in [Slots -> Dword]
  BY <1>1, SetTyped
<1>3. held' \in [Operands -> Dword]
  <2>1. CASE whole
    <3>1. 0 \in Word /\ Owed(r, d, whole, hi) = Owed(r, d, whole, 0)
      BY <2>1, WordRange DEF Owed
    <3>2. QED
      BY <3>1, OwedTyped
  <2>2. CASE ~whole
    BY <1>2, <2>2, ResultTyped, OwedTyped
  <2>3. QED
    BY <2>1, <2>2
<1>4. StackTypeOK'
  BY <1>2 DEF TypeOK, StackTypeOK
<1>5. QED
  BY <1>2, <1>3, <1>4 DEF TypeOK, shadows

LEMMA NextTyped ==
  ASSUME TypeOK, [Next]_vars
  PROVE  TypeOK'
<1>0. StackTypeOK /\ rip \in Word
  BY DEF TypeOK, StackTypeOK
<1>1. CASE StackNext /\ UNCHANGED <<file, shadows>>
  BY <1>0, <1>1, StackStepType DEF TypeOK, file, shadows
<1>2. ASSUME NEW n \in {2, 3}, HandleCR0Write(n)
      PROVE  TypeOK'
  <2>1. rip' \in Word
    BY <1>0, <1>2, NextIP DEF HandleCR0Write
  <2>2. QED
    BY <1>2, <2>1 DEF HandleCR0Write, TypeOK, StackTypeOK, file, shadows
<1>3. ASSUME NEW r \in Operands, HandleCR3Write(r)
      PROVE  TypeOK'
  <2>1. rip' \in Word
    BY <1>0, <1>3, NextIP DEF HandleCR3Write, IncrementGuestIP
  <2>2. GetGuestMODRegGenRegValue(r) \in Dword /\ held[r] \in Dword
    BY GetTyped DEF TypeOK
  <2>3. QED
    BY <1>3, <2>1, <2>2 DEF HandleCR3Write, TypeOK, StackTypeOK, file
<1>4. ASSUME NEW r \in Operands, NEW whole \in BOOLEAN, HandleCR0Read(r, whole)
      PROVE  TypeOK'
  BY <1>4, ReadTyped, DwordConstants DEF HandleCR0Read
<1>5. ASSUME NEW r \in Operands, HandleCR3Read(r)
      PROVE  TypeOK'
  <2>1. PICK d \in Dword :
          /\ \E q \in Decoded(r) : SetGuestMODRegGenRegValue(q, d, TRUE)
          /\ held' = Owed(r, d, TRUE, 0)
          /\ UNCHANGED <<cs, rsp, flags, mem, frames, shadows>>
    BY <1>5, DwordConstants DEF HandleCR3Read, TypeOK
  <2>2. QED
    BY <2>1, ReadTyped
<1>6. ASSUME NEW r \in Operands, NEW d \in Dwords, GuestLoads(r, d)
      PROVE  TypeOK'
  <2>1. d \in Dword
    BY GuestHandlersAssumption
  <2>2. rax' \in Dword /\ held' \in [Operands -> Dword]
    BY <1>6, <2>1 DEF GuestLoads, TypeOK
  <2>3. GuestRegisters' \in [Slots -> Dword]
    BY <1>6, <2>1 DEF GuestLoads, TypeOK
  <2>4. QED
    BY <1>6, <2>2, <2>3 DEF GuestLoads, TypeOK, StackTypeOK, stackvars, vmcb, shadows
<1>7. CASE UNCHANGED vars
  BY <1>7 DEF TypeOK, StackTypeOK, vars, stackvars, vmcb, file, shadows
<1>8. QED
  BY <1>1, <1>2, <1>3, <1>4, <1>5, <1>6, <1>7 DEF Next

LEMMA InitTyped == Init => TypeOK
<1> SUFFICES ASSUME Init PROVE TypeOK
  OBVIOUS
<1>1. PICK c \in Code : cs = Segment(c.sel) /\ rip = c.ip
  BY DEF Init, StackInit
<1>2. cs \in [sel : Word, base : Nat] /\ rip \in Word
  BY <1>1, GuestStackAssumption, BasesAreNat DEF Segment
<1>3. rsp \in Word /\ flags \in Word
  BY GuestStackAssumption DEF Init, StackInit
<1>4. DOMAIN mem \subseteq Nat /\ \A a \in DOMAIN mem : mem[a] \in Word
  BY DEF Init, StackInit
<1>5. StackTypeOK
  BY <1>2, <1>3, <1>4 DEF StackTypeOK, Init, StackInit
<1>6. QED
  BY <1>5, DwordConstants DEF TypeOK, Init

\* Registers, stack and shadows stay well typed.
THEOREM HandlersTyped == Spec => []TypeOK
<1>1. QED
  BY InitTyped, NextTyped, PTL DEF Spec
-----------------------------------------------------------------------------
(* The theorems.                                                            *)

Base == Sound /\ TypeOK /\ StackInv

LEMMA StackKeeps ==
  ASSUME Base, [Next]_vars
  PROVE  StackInv'
<1>0. Sound /\ StackTypeOK /\ StackInv /\ cs.base \in Bases
  BY DEF Base, TypeOK, StackInv, StackInvIs
<1>1. CASE StackNext
  <2>1. CASE \E v \in Vectors : UpdateGuestForSoftwareInterrupt(v)
    BY <1>0, <2>1, HandIntKeeps
  <2>2. CASE \E v \in Vectors : InjectedInterrupt(v)
    BY <1>0, <2>2, InjectedKeeps
  <2>3. CASE HandleInterrutpReturn
    BY <1>0, <2>3, IretEffect
  <2>4. CASE GuestPushes
    BY <1>0, <2>4, PushesKeep
  <2>5. CASE GuestPops
    BY <1>0, <2>5, PopsKeep
  <2>6. CASE GuestJumps
    <3>1. cs'.base \in Bases
      BY <1>0, <2>6 DEF GuestJumps, Segment, Sound, Bases
    <3>2. QED
      BY <1>0, <2>6, <3>1, OthersKeep DEF GuestJumps
  <2>7. CASE GuestSetsFlags
    BY <1>0, <2>7, OthersKeep DEF GuestSetsFlags
  <2>8. QED
    BY <1>1, <2>1, <2>2, <2>3, <2>4, <2>5, <2>6, <2>7 DEF StackNext
<1>2. CASE UNCHANGED <<cs, rsp, mem, frames>>
  BY <1>0, <1>2, OthersKeep
<1>3. QED
  BY <1>1, <1>2 DEF Next, HandleCR0Write, HandleCR3Write, HandleCR0Read, HandleCR3Read,
                    GuestLoads, vars, stackvars, vmcb

LEMMA StackStarts ==
  ASSUME Sound, Init
  PROVE  StackInv
<1>1. frames = <<>> /\ Len(frames) = 0 /\ rsp = Top /\ 0 \in 0..MaxWords
      /\ MaxDepth \in Nat /\ Top \in Nat /\ F \in Nat
  BY Constants DEF Init, StackInit
<1>2. PICK c \in Code : cs = Segment(c.sel)
  BY DEF Init, StackInit
<1>3. cs.base \in Bases
  BY <1>2 DEF Segment, Sound, Bases
<1>4. rsp = SpAt(0) - 2 * 0 /\ SpAt(0) + 0 * F >= Top
  BY <1>1 DEF SpAt
<1>5. StackInvIs(0)
  BY <1>1, <1>3, <1>4 DEF StackInvIs
<1>6. QED
  BY <1>1, <1>5 DEF StackInv

LEMMA BaseInductive ==
  ASSUME Sound
  PROVE  (Init => Base) /\ (Base /\ [Next]_vars => Base')
BY InitTyped, NextTyped, StackStarts, StackKeeps DEF Base

\* Whatever nests and whatever handlers push, each frame stays as it was stored.
THEOREM FramesHold ==
  ASSUME Sound
  PROVE  Spec => []FramesKept
<1>1. Base => FramesKept
  BY HeldIsKept DEF Base, TypeOK
<1>2. QED
  BY <1>1, BaseInductive, PTL DEF Spec

\* Only a return takes a frame away.
LEMMA StepReturns ==
  ASSUME Base, [Next]_vars, Len(frames') < Len(frames)
  PROVE  ReturnsTo(frames[Len(frames)])
<1>0. Sound /\ StackTypeOK /\ StackInv /\ Len(frames) \in Nat /\ frames \in Seq(FrameType)
  BY FrameTyped DEF Base, TypeOK, StackTypeOK, FrameType
<1>1. CASE HandleInterrutpReturn
  BY <1>0, <1>1, IretEffect
<1>2. CASE frames' = frames
  BY <1>0, <1>2
<1>3. CASE \E f : frames' = Append(frames, f)
  <2>1. Len(frames') = Len(frames) + 1
    BY <1>0, <1>3
  <2>2. QED
    BY <1>0, <2>1
<1>4. QED
  BY <1>1, <1>2, <1>3
     DEF Next, StackNext, UpdateGuestForSoftwareInterrupt, InjectedInterrupt, GuestPushes,
         GuestPops, GuestJumps, GuestSetsFlags, HandleCR0Write, HandleCR3Write,
         HandleCR0Read, HandleCR3Read, GuestLoads, vars, stackvars

\* An IRET done by hand undoes an INT, done by hand or injected.
THEOREM IretUndoesInt ==
  ASSUME Sound
  PROVE  Spec => InterruptsReturn
<1>1. Base /\ [Next]_vars =>
        [Len(frames') < Len(frames) => ReturnsTo(frames[Len(frames)])]_stackvars
  BY StepReturns
<1>2. QED
  BY <1>1, BaseInductive, PTL DEF Spec, InterruptsReturn
-----------------------------------------------------------------------------
File == Base /\ RegistersAgree

LEMMA ReadAgrees ==
  ASSUME File, NEW r \in Operands, NEW d \in Dword, NEW whole \in BOOLEAN,
         \E q \in Decoded(r) : SetGuestMODRegGenRegValue(q, d, whole),
         NEW hi, ~whole => hi = Result(r).hi, held' = Owed(r, d, whole, hi)
  PROVE  RegistersAgree'
<1>1. SetGuestMODRegGenRegValue(r, d, whole)
  <2>1. cs.base < W
    BY BaseOfBases DEF File, Base, StackInv, StackInvIs
  <2>2. QED
    BY <2>1 DEF Decoded
<1>2. SUFFICES ASSUME NEW s \in Operands
               PROVE  held'[s] = IF s = EAX THEN rax' ELSE GuestRegisters'[Saved(s)]
  BY DEF RegistersAgree
<1>3. held[s] = (IF s = EAX THEN rax ELSE GuestRegisters[Saved(s)])
  BY DEF File, RegistersAgree
<1>4. GuestRegisters \in [Slots -> Dword] /\ held \in [Operands -> Dword] /\ rax \in Dword
  BY DEF File, Base, TypeOK
<1>5. r # ESP /\ EAX # ESP
  BY OperandsInRange DEF EAX, ESP
<1>6. CASE r = EAX
  <2>1. /\ rax' = (IF whole THEN d ELSE [rax EXCEPT !.lo = d.lo])
        /\ GuestRegisters' = GuestRegisters
    BY <1>1, <1>6 DEF SetGuestMODRegGenRegValue
  <2>2. CASE s = EAX
    BY <1>4, <1>6, <2>1, <2>2 DEF Owed, Result, Dword
  <2>3. CASE s # EAX
    BY <1>3, <1>4, <1>6, <2>1, <2>3 DEF Owed
  <2>4. QED
    BY <2>2, <2>3
<1>7. CASE r # EAX
  <2>1. Slot(r) = Saved(r) /\ Saved(r) \in Slots
    BY <1>7, SlotIsSaved
  <2>2. /\ rax' = rax
        /\ GuestRegisters' = [GuestRegisters EXCEPT ![Saved(r)] = IF whole THEN d ELSE Low(d)]
    BY <1>1, <1>5, <1>7, <2>1 DEF SetGuestMODRegGenRegValue
  <2>3. CASE s = r
    <3>1. GuestRegisters'[Saved(s)] = (IF whole THEN d ELSE Low(d))
      BY <1>4, <2>1, <2>2, <2>3
    <3>2. held'[s] = (IF whole THEN d ELSE [hi |-> hi, lo |-> d.lo])
      BY <1>4, <2>3 DEF Owed
    <3>3. ~whole => hi = Low(d).hi
      BY <1>7, <2>3, <3>1 DEF Result
    <3>4. QED
      BY <1>7, <2>3, <3>1, <3>2, <3>3 DEF Low
  <2>4. CASE s # r
    <3>1. held'[s] = held[s]
      BY <1>4, <2>4 DEF Owed
    <3>2. s # EAX => GuestRegisters'[Saved(s)] = GuestRegisters[Saved(s)]
      BY <1>4, <1>7, <2>2, <2>4, SavedApart, SlotIsSaved
    <3>3. QED
      BY <1>3, <2>2, <3>1, <3>2
  <2>5. QED
    BY <2>3, <2>4
<1>8. QED
  BY <1>6, <1>7

LEMMA FileKept ==
  ASSUME File, [Next]_vars
  PROVE  RegistersAgree'
<1>1. CASE UNCHANGED file
  BY <1>1 DEF File, RegistersAgree, file
<1>2. ASSUME NEW r \in Operands, NEW whole \in BOOLEAN, HandleCR0Read(r, whole)
      PROVE  RegistersAgree'
  BY <1>2, ReadAgrees, DwordConstants DEF HandleCR0Read
<1>3. ASSUME NEW r \in Operands, HandleCR3Read(r)
      PROVE  RegistersAgree'
  <2>1. PICK d \in Dword :
          /\ \E q \in Decoded(r) : SetGuestMODRegGenRegValue(q, d, TRUE)
          /\ held' = Owed(r, d, TRUE, 0)
    BY <1>3, DwordConstants DEF HandleCR3Read, File, Base, TypeOK
  <2>2. QED
    BY <2>1, ReadAgrees
<1>4. ASSUME NEW r \in Operands, NEW d \in Dwords, GuestLoads(r, d)
      PROVE  RegistersAgree'
  <2>1. SUFFICES ASSUME NEW s \in Operands
                 PROVE  held'[s] = IF s = EAX THEN rax' ELSE GuestRegisters'[Saved(s)]
    BY DEF RegistersAgree
  <2>2. held[s] = (IF s = EAX THEN rax ELSE GuestRegisters[Saved(s)])
    BY DEF File, RegistersAgree
  <2>3. GuestRegisters \in [Slots -> Dword] /\ held \in [Operands -> Dword]
    BY DEF File, Base, TypeOK
  <2>4. CASE s = r
    BY <1>4, <2>3, <2>4, SlotIsSaved DEF GuestLoads
  <2>5. CASE s # r
    BY <1>4, <2>2, <2>3, <2>5, SlotIsSaved, SavedApart DEF GuestLoads
  <2>6. QED
    BY <2>4, <2>5
<1>5. QED
  BY <1>1, <1>2, <1>3, <1>4 DEF Next, HandleCR0Write, HandleCR3Write, vars

LEMMA FileStarts == Init => RegistersAgree
<1> SUFFICES ASSUME Init PROVE RegistersAgree
  OBVIOUS
<1>1. \A r \in Operands : r # EAX => Saved(r) \in Slots
  BY SlotIsSaved
<1>2. QED
  BY <1>1 DEF Init, RegistersAgree

\* No exit disturbs a register the guest did not name.
THEOREM RegistersHold ==
  ASSUME Sound
  PROVE  Spec => []RegistersAgree
<1>1. Init => RegistersAgree
  BY FileStarts
<1>2. File /\ [Next]_vars => RegistersAgree'
  BY FileKept
<1>3. QED
  BY <1>1, <1>2, BaseInductive, PTL DEF Spec, File

\* The guest never runs on a directory of its own choice.
THEOREM PagingStaysIdle ==
  ASSUME Sound
  PROVE  Spec => []PagingIdle
<1>1. Init => PagingIdle
  BY DEF Init, PagingIdle
<1>2. File /\ PagingIdle /\ [Next]_vars => PagingIdle'
  <2> SUFFICES ASSUME File, PagingIdle, [Next]_vars
               PROVE  PagingIdle'
    OBVIOUS
  <2>1. CASE UNCHANGED shadows
    BY <2>1 DEF PagingIdle, shadows
  <2>2. ASSUME NEW r \in Operands, HandleCR3Write(r)
        PROVE  PagingIdle'
    <3>1. GetGuestMODRegGenRegValue(r) = held[r]
      <4>1. CASE r = EAX
        BY <4>1 DEF GetGuestMODRegGenRegValue, File, RegistersAgree, EAX, ESP
      <4>2. CASE r # EAX
        BY <4>2, SlotIsSaved DEF GetGuestMODRegGenRegValue, File, RegistersAgree
      <4>3. QED
        BY <4>1, <4>2
    <3>2. QED
      BY <2>2, <3>1 DEF HandleCR3Write, PagingIdle
  <2>3. QED
    BY <2>1, <2>2 DEF Next, HandleCR0Write, HandleCR0Read, HandleCR3Read, GuestLoads, vars
<1>3. Init => RegistersAgree
  BY FileStarts
<1>4. File /\ [Next]_vars => RegistersAgree'
  BY FileKept
<1>5. QED
  BY <1>1, <1>2, <1>3, <1>4, BaseInductive, PTL DEF Spec, File
=============================================================================
