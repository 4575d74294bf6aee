---------------------------- MODULE Paging_proofs ----------------------------
(***************************************************************************)
(* For every size of memory and of a table, every place of the tables that  *)
(* keeps them apart, and whatever the guest writes: the moved tables map    *)
(* each page to itself, and the translation by hand is the processor's.     *)
(***************************************************************************)
EXTENDS Paging, TLAPS

LEMMA Places ==
  /\ E \in Nat /\ GuestTables \in Nat \ {0} /\ HostTables \in Nat
  /\ GuestTables < HostTables /\ HostTables < E
  /\ HostStart \in Nat /\ NestedStart \in Nat /\ GuestCR3 \in Nat
  /\ Host \in Nat /\ Nested \in Nat /\ MaxWrites \in Nat
  /\ Values \cup Ram \subseteq Nat \cup {NotPresent}
  /\ NotPresent \in Int /\ NotPresent \notin Nat
BY PagingAssumption DEF NotPresent

LEMMA FrameNumbers ==
  /\ Frames \subseteq Nat
  /\ \A k \in 0..(GuestTables + 1) :
       /\ NestedStart + k \in Frames /\ GuestCR3 + k \in Frames
       /\ Nested + k \in Frames
  /\ \A k \in 0..(HostTables + 1) : HostStart + k \in Frames /\ Host + k \in Frames
BY Places DEF Frames, Low, Extent

(* Page t of table d is a page of the guest's, when d is a table of its.     *)
LEMMA PageNumbers ==
  ASSUME NEW d \in Nat, NEW t \in Index
  PROVE  /\ PageOf(d, t) \in Nat
         /\ d < GuestTables => PageOf(d, t) \in GuestPages
<1>1. d * E \in Nat
  BY Places
<1>2. PageOf(d, t) \in Nat
  BY <1>1 DEF PageOf, Index
<1>3. ASSUME d < GuestTables
      PROVE  PageOf(d, t) \in GuestPages
  <2>1. (d + 1) * E <= GuestTables * E
    <3>1. GuestTables - (d + 1) \in Nat
      BY <1>3, Places
    <3>2. (GuestTables - (d + 1)) * E \in Nat
      BY <3>1, Places
    <3>3. (GuestTables - (d + 1)) * E = GuestTables * E - (d + 1) * E
      BY <3>1, Places
    <3> QED
      BY <3>2, <3>3, Places
  <2>2. (d + 1) * E = d * E + E
    BY Places
  <2> QED
    BY <1>1, <1>2, <2>1, <2>2, Places DEF PageOf, GuestPages, Index
<1> QED
  BY <1>2, <1>3

LEMMA TableType ==
  ASSUME NEW d \in Nat
  PROVE  Table(d) \in [Index -> Nat \cup {NotPresent}]
BY PageNumbers DEF Table

-----------------------------------------------------------------------------
(* The invariant: what each table holds when.                               *)

Built(f, n) == \A k \in 0..n : mem[f + 1 + k] = Table(k)

InPlace(f, n) ==
  \A k \in 0..(n - 1) : mem[f][k] = f + 1 + k /\ mem[f + 1 + k] = Table(k)

BuiltBeforeMove ==
  pc \in {"main", "move"} =>
    Built(HostStart, HostTables) /\ Built(NestedStart, GuestTables)

MovedForGuest ==
  pc = "guest" => InPlace(Host, HostTables) /\ InPlace(Nested, GuestTables)

PInv == TypeOK /\ BuiltBeforeMove /\ MovedForGuest

LEMMA InPlaceWalk ==
  ASSUME NEW f \in Nat, NEW n \in Nat, InPlace(f, n),
         \A k \in 0..(n - 1) : f + 1 + k \in Frames,
         NEW d \in 0..(n - 1), NEW t \in Index
  PROVE  Walk(f, d, t) = PageOf(d, t)
<1>1. mem[f][d] = f + 1 + d /\ mem[f + 1 + d] = Table(d)
  BY DEF InPlace
<1>2. Table(d)[t] = PageOf(d, t)
  BY DEF Table
<1> QED
  BY <1>1, <1>2 DEF Walk

LEMMA InitPInv == Init => PInv
<1> SUFFICES ASSUME Init PROVE PInv
  OBVIOUS
<1>1. TypeOK
  BY Places DEF Init, TypeOK
<1> QED
  BY <1>1 DEF Init, PInv, BuiltBeforeMove, MovedForGuest

(* The loops fill the tables of an extent and only its directory besides.    *)
LEMMA IdentityTables ==
  ASSUME TypeOK, NEW f \in Nat, NEW n \in Nat, Extent(f, n) \subseteq Frames
  PROVE  /\ Identity(f, n) \in [Extent(f, n) -> [Index -> Nat \cup {NotPresent}]]
         /\ \A k \in 0..n : Identity(f, n)[f + 1 + k] = Table(k)
<1>1. Directory(f, n) \in [Index -> Nat \cup {NotPresent}]
  <2>1. f \in Frames
    BY DEF Extent
  <2>2. ASSUME NEW i \in Index
        PROVE  (IF i <= n THEN f + 1 + i ELSE mem[f][i]) \in Nat \cup {NotPresent}
    <3>1. mem[f] \in [Index -> Nat \cup {NotPresent}]
      BY <2>1 DEF TypeOK
    <3>2. mem[f][i] \in Nat \cup {NotPresent}
      BY <3>1
    <3>3. f + 1 + i \in Nat
      BY DEF Index
    <3> QED
      BY <3>2, <3>3
  <2> QED
    BY <2>2 DEF Directory
<1>2. ASSUME NEW p \in Extent(f, n), p # f
      PROVE  Table(p - f - 1) \in [Index -> Nat \cup {NotPresent}]
  <2>1. p - f - 1 \in Nat
    BY <1>2 DEF Extent
  <2> QED
    BY <2>1, TableType
<1>3. Identity(f, n) \in [Extent(f, n) -> [Index -> Nat \cup {NotPresent}]]
  BY <1>1, <1>2 DEF Identity
<1>4. ASSUME NEW k \in 0..n
      PROVE  Identity(f, n)[f + 1 + k] = Table(k)
  <2>1. f + 1 + k \in Extent(f, n) /\ f + 1 + k # f /\ (f + 1 + k) - f - 1 = k
    BY DEF Extent
  <2> QED
    BY <2>1 DEF Identity
<1> QED
  BY <1>3, <1>4

LEMMA Extents ==
  /\ Extent(HostStart, HostTables) \subseteq Frames
  /\ Extent(NestedStart, GuestTables) \subseteq Frames
  /\ Extent(GuestCR3, GuestTables) \subseteq Frames
BY DEF Frames, Low

LEMMA SetupPagingStep == PInv /\ SetupPaging => PInv'
<1> SUFFICES ASSUME PInv, SetupPaging PROVE PInv'
  OBVIOUS
<1> USE DEF PInv
<1>1. TypeOK'
  <2>1. ASSUME NEW f \in Frames
        PROVE  mem'[f] \in [Index -> Nat \cup {NotPresent}]
    <3>1. mem[f] \in [Index -> Nat \cup {NotPresent}]
      BY DEF TypeOK
    <3>2. CASE f \in Extent(HostStart, HostTables)
      BY <3>2, IdentityTables, Extents, Places DEF SetupPaging
    <3>3. CASE f \notin Extent(HostStart, HostTables) /\ f \in Extent(NestedStart, GuestTables)
      BY <3>3, IdentityTables, Extents, Places DEF SetupPaging
    <3>4. CASE f \notin Extent(HostStart, HostTables) /\ f \notin Extent(NestedStart, GuestTables)
      BY <3>1, <3>4 DEF SetupPaging
    <3> QED
      BY <3>2, <3>3, <3>4
  <2>2. mem' = [f \in Frames |-> mem'[f]]
    BY DEF SetupPaging
  <2>3. mem' \in [Frames -> [Index -> Nat \cup {NotPresent}]]
    BY <2>1, <2>2
  <2> QED
    BY <2>3 DEF TypeOK, SetupPaging
<1>2. \A k \in 0..HostTables : mem'[HostStart + 1 + k] = Table(k)
  <2> TAKE k \in 0..HostTables
  <2>1. HostStart + 1 + k \in Extent(HostStart, HostTables)
    BY Places DEF Extent
  <2> QED
    BY <2>1, IdentityTables, Extents, Places DEF SetupPaging
<1>3. \A k \in 0..GuestTables : mem'[NestedStart + 1 + k] = Table(k)
  <2> TAKE k \in 0..GuestTables
  <2>1. NestedStart + 1 + k \in Extent(NestedStart, GuestTables)
    BY Places DEF Extent
  <2>2. NestedStart + 1 + k \notin Extent(HostStart, HostTables)
    BY <2>1, PagingAssumption DEF Disjoint
  <2> QED
    BY <2>1, <2>2, IdentityTables, Extents, Places DEF SetupPaging
<1>4. BuiltBeforeMove'
  BY <1>2, <1>3 DEF BuiltBeforeMove, Built, Table, PageOf
<1>5. MovedForGuest'
  BY DEF SetupPaging, MovedForGuest
<1> QED
  BY <1>1, <1>4, <1>5

LEMMA SetupGuestPagesStep == PInv /\ SetupGuestPages => PInv'
<1> SUFFICES ASSUME PInv, SetupGuestPages PROVE PInv'
  OBVIOUS
<1> USE DEF PInv
<1>1. /\ \A f \in Extent(GuestCR3, GuestTables) :
           mem'[f] = Identity(GuestCR3, GuestTables)[f]
      /\ \A f \in Frames \ Extent(GuestCR3, GuestTables) : mem'[f] = mem[f]
      /\ DOMAIN mem' = Frames
  BY IdentityTables, Extents, Places DEF SetupGuestPages, Stored, Identity
<1>2. TypeOK'
  <2>1. mem' \in [Frames -> [Index -> Nat \cup {NotPresent}]]
    BY IdentityTables, Extents, Places DEF SetupGuestPages, Stored, TypeOK
  <2> QED
    BY <2>1 DEF TypeOK, SetupGuestPages
<1>3. Built(HostStart, HostTables) /\ Built(NestedStart, GuestTables)
  BY DEF SetupGuestPages, BuiltBeforeMove
<1>4. \A k \in 0..HostTables : mem'[HostStart + 1 + k] = Table(k)
  <2> TAKE k \in 0..HostTables
  <2>1. HostStart + 1 + k \in Extent(HostStart, HostTables)
    BY Places DEF Extent
  <2>2. HostStart + 1 + k \in Frames \ Extent(GuestCR3, GuestTables)
    BY <2>1, Extents, PagingAssumption DEF Disjoint
  <2> QED
    BY <1>1, <1>3, <2>2 DEF Built
<1>5. \A k \in 0..GuestTables : mem'[NestedStart + 1 + k] = Table(k)
  <2> TAKE k \in 0..GuestTables
  <2>1. NestedStart + 1 + k \in Extent(NestedStart, GuestTables)
    BY Places DEF Extent
  <2>2. NestedStart + 1 + k \in Frames \ Extent(GuestCR3, GuestTables)
    BY <2>1, Extents, PagingAssumption DEF Disjoint
  <2> QED
    BY <1>1, <1>3, <2>2 DEF Built
<1>6. BuiltBeforeMove'
  BY <1>4, <1>5 DEF BuiltBeforeMove, Built, Table, PageOf
<1>7. MovedForGuest'
  BY DEF SetupGuestPages, MovedForGuest
<1> QED
  BY <1>2, <1>6, <1>7

(* Copied and updated, a directory points to the copies of its tables.       *)
LEMMA MovedTables ==
  ASSUME TypeOK, NEW from \in Nat, NEW to \in Nat, NEW n \in Nat, NEW m \in Int,
         m >= n - 1, n < E, Built(from, n), \A k \in 0..(n + 1) : from + k \in Frames
  PROVE  /\ \A k \in 0..n : Moved(from, to, n, m)[to + k] \in [Index -> Nat \cup {NotPresent}]
         /\ \A k \in 0..(n - 1) : /\ Moved(from, to, n, m)[to][k] = to + 1 + k
                                  /\ Moved(from, to, n, m)[to + 1 + k] = Table(k)
<1>0. from \in Frames
  <2>1. 0 \in 0..(n + 1) /\ from + 0 = from
    OBVIOUS
  <2> QED
    BY <2>1
<1>1. Moved(from, to, n, m)[to] =
        [i \in Index |-> IF i <= m THEN to + 1 + i ELSE mem[from][i]]
  BY DEF Moved
<1>2. ASSUME NEW k \in 0..(n - 1)
      PROVE  Moved(from, to, n, m)[to + 1 + k] = Table(k)
  <2>1. /\ to + 1 + k \in to..(to + n) /\ to + 1 + k # to
        /\ (to + 1 + k) - to + from = from + 1 + k /\ k \in 0..n
    OBVIOUS
  <2>2. Moved(from, to, n, m)[to + 1 + k] = mem[from + 1 + k]
    BY <2>1 DEF Moved
  <2> QED
    BY <2>1, <2>2 DEF Built
<1>3. ASSUME NEW k \in 0..(n - 1)
      PROVE  Moved(from, to, n, m)[to][k] = to + 1 + k
  <2>1. k \in Index /\ k <= m
    BY Places DEF Index
  <2> QED
    BY <1>1, <2>1
<1>4. Moved(from, to, n, m)[to] \in [Index -> Nat \cup {NotPresent}]
  <2>1. mem[from] \in [Index -> Nat \cup {NotPresent}]
    BY <1>0 DEF TypeOK
  <2>2. ASSUME NEW i \in Index
        PROVE  (IF i <= m THEN to + 1 + i ELSE mem[from][i]) \in Nat \cup {NotPresent}
    <3>1. mem[from][i] \in Nat \cup {NotPresent}
      BY <2>1
    <3>2. to + 1 + i \in Nat
      BY DEF Index
    <3> QED
      BY <3>1, <3>2
  <2> QED
    BY <1>1, <2>2
<1>5. ASSUME NEW k \in 0..n
      PROVE  Moved(from, to, n, m)[to + k] \in [Index -> Nat \cup {NotPresent}]
  <2>1. CASE k = 0
    <3>1. to + k = to
      BY <2>1
    <3> QED
      BY <1>4, <3>1
  <2>2. CASE k # 0
    <3>1. k - 1 \in 0..(n - 1) /\ to + 1 + (k - 1) = to + k /\ k - 1 \in Nat
      BY <2>2
    <3>2. Moved(from, to, n, m)[to + k] = Table(k - 1)
      BY <1>2, <3>1
    <3> QED
      BY <3>1, <3>2, TableType
  <2> QED
    BY <2>1, <2>2
<1> QED
  BY <1>2, <1>3, <1>5

LEMMA MoveStuffStep == PInv /\ MoveStuff => PInv'
<1> SUFFICES ASSUME PInv, MoveStuff PROVE PInv'
  OBVIOUS
<1> USE DEF PInv
<1>1. Built(HostStart, HostTables) /\ Built(NestedStart, GuestTables)
  BY DEF MoveStuff, BuiltBeforeMove
<1>2. /\ Nested..(Nested + GuestTables) \subseteq Frames
      /\ Host..(Host + HostTables) \subseteq Frames
      /\ (Nested..(Nested + GuestTables)) \cap (Host..(Host + HostTables)) = {}
  BY Places, PagingAssumption DEF Frames, Extent, Disjoint
<1>3. /\ DOMAIN mem' = Frames
      /\ \A f \in Nested..(Nested + GuestTables) :
           mem'[f] = Moved(NestedStart, Nested, GuestTables, GuestTables)[f]
      /\ \A f \in Host..(Host + HostTables) :
           mem'[f] = Moved(HostStart, Host, HostTables, HostTables - 1)[f]
      /\ \A f \in Frames : \/ f \in Nested..(Nested + GuestTables)
                           \/ f \in Host..(Host + HostTables)
                           \/ mem'[f] = mem[f]
  BY <1>2 DEF MoveStuff
<1> DEFINE N == Moved(NestedStart, Nested, GuestTables, GuestTables)
           H == Moved(HostStart, Host, HostTables, HostTables - 1)
<1>5. /\ \A k \in 0..GuestTables : N[Nested + k] \in [Index -> Nat \cup {NotPresent}]
      /\ \A k \in 0..(GuestTables - 1) : N[Nested][k] = Nested + 1 + k /\ N[Nested + 1 + k] = Table(k)
  <2>1. GuestTables \in Nat /\ GuestTables \in Int /\ GuestTables >= GuestTables - 1 /\ GuestTables < E
    BY Places
  <2>2. \A k \in 0..(GuestTables + 1) : NestedStart + k \in Frames
    BY FrameNumbers
  <2>3. NestedStart \in Nat /\ Nested \in Nat
    BY Places
  <2> HIDE DEF N
  <2> QED
    BY <1>1, <2>1, <2>2, <2>3, MovedTables DEF N
<1>6. /\ \A k \in 0..HostTables : H[Host + k] \in [Index -> Nat \cup {NotPresent}]
      /\ \A k \in 0..(HostTables - 1) : H[Host][k] = Host + 1 + k /\ H[Host + 1 + k] = Table(k)
  <2>1. HostTables \in Nat /\ HostTables - 1 \in Int /\ HostTables - 1 >= HostTables - 1 /\ HostTables < E
    BY Places
  <2>2. \A k \in 0..(HostTables + 1) : HostStart + k \in Frames
    BY FrameNumbers
  <2>3. HostStart \in Nat /\ Host \in Nat
    BY Places
  <2> HIDE DEF H
  <2> QED
    BY <1>1, <2>1, <2>2, <2>3, MovedTables DEF H
<1> HIDE DEF N, H
<1>7. ASSUME NEW f \in Frames
      PROVE  mem'[f] \in [Index -> Nat \cup {NotPresent}]
  <2>1. CASE f \in Nested..(Nested + GuestTables)
    <3>1. f - Nested \in 0..GuestTables /\ Nested + (f - Nested) = f
      BY <2>1, Places
    <3>2. mem'[f] = N[f]
      BY <1>3, <2>1 DEF N
    <3> QED
      BY <1>5, <3>1, <3>2
  <2>2. CASE f \in Host..(Host + HostTables)
    <3>1. f - Host \in 0..HostTables /\ Host + (f - Host) = f
      BY <2>2, Places
    <3>2. mem'[f] = H[f]
      BY <1>3, <2>2 DEF H
    <3> QED
      BY <1>6, <3>1, <3>2
  <2>3. CASE mem'[f] = mem[f]
    BY <2>3 DEF TypeOK
  <2> QED
    BY <1>3, <2>1, <2>2, <2>3
<1>8. TypeOK'
  <2>1. mem' \in [Frames -> [Index -> Nat \cup {NotPresent}]]
    <3>1. mem' = [f \in Frames |-> mem'[f]]
      BY DEF MoveStuff
    <3> QED
      BY <1>7, <3>1
  <2> QED
    BY <2>1 DEF TypeOK, MoveStuff
<1>9. \A k \in 0..(GuestTables - 1) :
        mem'[Nested][k] = Nested + 1 + k /\ mem'[Nested + 1 + k] = Table(k)
  <2> TAKE k \in 0..(GuestTables - 1)
  <2>1. Nested \in Nested..(Nested + GuestTables) /\ Nested + 1 + k \in Nested..(Nested + GuestTables)
    BY Places
  <2>2. mem'[Nested] = N[Nested] /\ mem'[Nested + 1 + k] = N[Nested + 1 + k]
    BY <1>3, <2>1 DEF N
  <2> QED
    BY <1>5, <2>2
<1>10. \A k \in 0..(HostTables - 1) :
        mem'[Host][k] = Host + 1 + k /\ mem'[Host + 1 + k] = Table(k)
  <2> TAKE k \in 0..(HostTables - 1)
  <2>1. Host \in Host..(Host + HostTables) /\ Host + 1 + k \in Host..(Host + HostTables)
    BY Places
  <2>2. mem'[Host] = H[Host] /\ mem'[Host + 1 + k] = H[Host + 1 + k]
    BY <1>3, <2>1 DEF H
  <2> QED
    BY <1>6, <2>2
<1>11. MovedForGuest'
  BY <1>9, <1>10 DEF MovedForGuest, InPlace, Table, PageOf
<1>12. BuiltBeforeMove'
  BY DEF MoveStuff, BuiltBeforeMove
<1> QED
  BY <1>8, <1>11, <1>12

(* The guest writes only where the nested tables let it: its own pages.      *)
LEMMA GuestWritesStep == PInv /\ GuestWrites => PInv'
<1> SUFFICES ASSUME PInv, GuestWrites PROVE PInv'
  OBVIOUS
<1> USE DEF PInv
<1>1. InPlace(Host, HostTables) /\ InPlace(Nested, GuestTables)
  BY DEF GuestWrites, MovedForGuest
<1>2. PICK d \in 0..(GuestTables - 1), t \in Index, i \in Index, v \in Values :
        /\ Walk(Nested, d, t) \in Frames
        /\ mem' = [mem EXCEPT ![Walk(Nested, d, t)] = [@ EXCEPT ![i] = v]]
  BY DEF GuestWrites
<1> DEFINE g == Walk(Nested, d, t)
<1>3. g \in GuestPages
  <2>0. d \in Nat /\ d < GuestTables
    BY Places
  <2>1. \A k \in 0..(GuestTables - 1) : Nested + 1 + k \in Frames
    <3> TAKE k \in 0..(GuestTables - 1)
    <3>1. k + 1 \in 0..(GuestTables + 1) /\ Nested + (k + 1) = Nested + 1 + k
      BY Places
    <3> QED
      BY <3>1, FrameNumbers
  <2>2. g = PageOf(d, t)
    BY <1>1, <2>1, InPlaceWalk, Places
  <2> QED
    BY <2>0, <2>2, PageNumbers
<1> HIDE DEF g
<1>4. g \in Frames /\ mem' = [mem EXCEPT ![g] = [@ EXCEPT ![i] = v]]
  BY <1>2 DEF g
<1>5. TypeOK'
  <2>1. mem[g] \in [Index -> Nat \cup {NotPresent}]
    BY <1>4 DEF TypeOK
  <2>2. v \in Nat \cup {NotPresent}
    BY Places
  <2>3. [mem[g] EXCEPT ![i] = v] \in [Index -> Nat \cup {NotPresent}]
    BY <2>1, <2>2
  <2>4. mem' \in [Frames -> [Index -> Nat \cup {NotPresent}]]
    BY <1>4, <2>3 DEF TypeOK
  <2> QED
    BY <2>4, Places DEF TypeOK, GuestWrites
<1>6. \A f \in Extent(Host, HostTables) \cup Extent(Nested, GuestTables) : mem'[f] = mem[f]
  BY <1>3, <1>4, PagingAssumption DEF Disjoint, TypeOK, Frames
<1>7. InPlace(Host, HostTables)'
  <2>1. ASSUME NEW k \in 0..(HostTables - 1)
        PROVE  mem'[Host][k] = Host + 1 + k /\ mem'[Host + 1 + k] = Table(k)
    <3>1. Host \in Extent(Host, HostTables) /\ Host + 1 + k \in Extent(Host, HostTables)
      BY Places DEF Extent
    <3> QED
      BY <1>1, <1>6, <3>1 DEF InPlace
  <2> QED
    BY <2>1 DEF InPlace, Table, PageOf
<1>8. InPlace(Nested, GuestTables)'
  <2>1. ASSUME NEW k \in 0..(GuestTables - 1)
        PROVE  mem'[Nested][k] = Nested + 1 + k /\ mem'[Nested + 1 + k] = Table(k)
    <3>1. Nested \in Extent(Nested, GuestTables) /\ Nested + 1 + k \in Extent(Nested, GuestTables)
      BY Places DEF Extent
    <3> QED
      BY <1>1, <1>6, <3>1 DEF InPlace
  <2> QED
    BY <2>1 DEF InPlace, Table, PageOf
<1> QED
  BY <1>5, <1>7, <1>8 DEF MovedForGuest, BuiltBeforeMove, GuestWrites

LEMMA GuestLoadsCR3Step == PInv /\ GuestLoadsCR3 => PInv'
BY DEF PInv, GuestLoadsCR3, TypeOK, MovedForGuest, BuiltBeforeMove, Built,
       InPlace, Table, PageOf

LEMMA StutterStep == PInv /\ UNCHANGED vars => PInv'
BY DEF PInv, vars, TypeOK, MovedForGuest, BuiltBeforeMove, Built,
       InPlace, Table, PageOf

(* The strengthened invariant: the old tables until the move, the new ones after. *)
THEOREM PagingInvariant == Spec => []PInv
<1>1. PInv /\ [Next]_vars => PInv'
  BY SetupPagingStep, SetupGuestPagesStep, MoveStuffStep, GuestWritesStep,
     GuestLoadsCR3Step, StutterStep DEF Next
<1> QED
  BY InitPInv, <1>1, PTL DEF Spec

(* Every entry of every table stays an entry, whatever RAM held and whatever *)
(* the guest writes into the tables it can reach.                            *)
THEOREM PagingTypeCorrect == Spec => []TypeOK
<1>1. PInv => TypeOK
  BY DEF PInv
<1> QED
  BY PagingInvariant, <1>1, PTL
-----------------------------------------------------------------------------
LEMMA InPlaceIdentity ==
  ASSUME PInv, pc = "guest"
  PROVE  /\ \A d \in 0..(GuestTables - 1), t \in Index : Walk(Nested, d, t) = PageOf(d, t)
         /\ \A d \in 0..(HostTables - 1), t \in Index : Walk(Host, d, t) = PageOf(d, t)
<1>1. InPlace(Host, HostTables) /\ InPlace(Nested, GuestTables)
  BY DEF PInv, MovedForGuest
<1>2. \A k \in 0..(GuestTables - 1) : Nested + 1 + k \in Frames
  <2> TAKE k \in 0..(GuestTables - 1)
  <2>1. k + 1 \in 0..(GuestTables + 1) /\ Nested + (k + 1) = Nested + 1 + k
    BY Places
  <2> QED
    BY <2>1, FrameNumbers
<1>3. \A k \in 0..(HostTables - 1) : Host + 1 + k \in Frames
  <2> TAKE k \in 0..(HostTables - 1)
  <2>1. k + 1 \in 0..(HostTables + 1) /\ Host + (k + 1) = Host + 1 + k
    BY Places
  <2> QED
    BY <2>1, FrameNumbers
<1> QED
  BY <1>1, <1>2, <1>3, InPlaceWalk, Places

(* The nested tables map each page of the guest's memory to itself, whatever  *)
(* the guest writes: MoveStuff took them out of its reach.                    *)
THEOREM NestedTablesHold == Spec => []NestedIdentity
<1>1. PInv => NestedIdentity
  BY InPlaceIdentity DEF NestedIdentity
<1> QED
  BY PagingInvariant, <1>1, PTL

(* The host's moved tables map each of its pages to itself.                   *)
THEOREM HostTablesHold == Spec => []HostIdentity
<1>1. PInv => HostIdentity
  BY InPlaceIdentity DEF HostIdentity
<1> QED
  BY PagingInvariant, <1>1, PTL

(* Every page of the guest's is page r of table q.                           *)
LEMMA Quotients ==
  ASSUME NEW p \in GuestPages
  PROVE  p \div E \in 0..(GuestTables - 1) /\ p % E \in Index
<1> DEFINE q == p \div E
           r == p % E
<1>1. E \in Nat \ {0} /\ GuestTables \in Nat /\ p \in Nat /\ p < GuestTables * E
  BY Places DEF GuestPages
<1>2. q \in Int /\ r \in 0..(E - 1) /\ p = E * q + r
  BY <1>1
<1> HIDE DEF q, r
<1>3. E * q \in Int
  BY <1>1, <1>2
<1>4. q >= 0
  <2>1. SUFFICES ASSUME q <= -1 PROVE FALSE
    BY <1>2
  <2>2. -1 - q \in Nat
    BY <1>2, <2>1
  <2>3. (-1 - q) * E \in Nat
    BY <1>1, <2>2
  <2>4. (-1 - q) * E = -E - E * q
    BY <1>1, <1>2
  <2> QED
    BY <1>1, <1>2, <1>3, <2>3, <2>4
<1>5. q < GuestTables
  <2>1. SUFFICES ASSUME q >= GuestTables PROVE FALSE
    BY <1>1, <1>2
  <2>2. q - GuestTables \in Nat
    BY <1>1, <1>2, <2>1
  <2>3. (q - GuestTables) * E \in Nat
    BY <1>1, <2>2
  <2>4. (q - GuestTables) * E = E * q - GuestTables * E
    BY <1>1, <1>2
  <2>5. GuestTables * E \in Int
    BY <1>1
  <2> QED
    BY <1>1, <1>2, <1>3, <2>3, <2>4, <2>5
<1> QED
  BY <1>1, <1>2, <1>4, <1>5 DEF q, r, Index

(* By hand as by the processor, for a directory whose tables follow it.       *)
THEOREM HandTranslation == Spec => []HandIsHardware
<1>1. ASSUME PInv, pc = "guest", NEW d \in 0..(GuestTables - 1), NEW t \in Index,
             mem[cr3][d] = cr3 + 1 + d, Own(d, t) \in GuestPages
      PROVE  TranslateGuestPage(d, t) = Walk(Nested, Own(d, t) \div E, Own(d, t) % E)
  <2> DEFINE p == Own(d, t)
  <2>1. cr3 \in {GuestCR3, NestedStart}
    BY <1>1 DEF PInv, TypeOK
  <2>2. cr3 + 1 + d \in Frames
    <3>1. d + 1 \in 0..(GuestTables + 1) /\ cr3 + (d + 1) = cr3 + 1 + d
      BY <2>1, Places
    <3> QED
      BY <2>1, <3>1, FrameNumbers
  <2>3. p = GetGuestPhysicalPage(d, t)
    BY <1>1, <2>2 DEF Own, Walk, GetGuestPhysicalPage
  <2>4. p \div E \in 0..(GuestTables - 1)
    BY <1>1, Quotients
  <2> HIDE DEF p
  <2>5. mem[Nested][p \div E] = Nested + 1 + p \div E
    BY <1>1, <2>4 DEF PInv, MovedForGuest, InPlace
  <2>6. Nested + 1 + p \div E \in Frames
    <3> DEFINE q == p \div E
    <3> HIDE DEF q
    <3>1. q \in 0..(GuestTables - 1)
      BY <2>4 DEF q
    <3>2. q + 1 \in 0..(GuestTables + 1) /\ Nested + (q + 1) = Nested + 1 + q
      BY <3>1, Places
    <3> QED
      BY <3>2, FrameNumbers DEF q
  <2>7. Walk(Nested, p \div E, p % E) = mem[Nested + 1 + p \div E][p % E]
    BY <2>5, <2>6 DEF Walk
  <2> QED
    BY <2>3, <2>7 DEF TranslateGuestPage, p
<1>2. PInv => HandIsHardware
  BY <1>1 DEF HandIsHardware, HandAgrees
<1> QED
  BY PagingInvariant, <1>2, PTL
=============================================================================
