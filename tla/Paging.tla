------------------------------- MODULE Paging -------------------------------
(***************************************************************************)
(* The page tables: the host's and the nested ones start.bin builds below   *)
(* 1 MB (SetupPaging), the guest's own at 366000h (SetupGuestPages), the    *)
(* move of the first two above the guest's memory (MoveStuff), and the      *)
(* translation by hand through which the handlers reach guest memory.       *)
(* start.bin's call of SetupPaging is commented out (see BootMemory): this  *)
(* is what the tables are when it is made.  An entry is a page number or    *)
(* NotPresent; 1024 entries per table are E of them.                        *)
(***************************************************************************)
EXTENDS Integers

CONSTANTS
  E,                \* entries of a directory or table, 1024
  GuestTables,      \* GUEST_MEMORY_SIZE / 4 MB, 1
  HostTables,       \* HOST_MEMORY_SIZE / 4 MB, 4
  HostStart, NestedStart, GuestCR3,     \* pages the tables are built at,
  Host, Nested,                         \* and those they are moved to
  Ram,              \* what a frame nothing was stored in may hold
  Values,           \* entries the guest writes into tables in its own memory
  MaxWrites         \* bound on those writes

NotPresent == -1
Index == 0..(E - 1)

\* A directory at page d and its n tables, and one more of each.
Extent(d, n) == d..(d + 1 + n)

GuestPages == 0..(GuestTables * E - 1)
Low == Extent(HostStart, HostTables) \cup Extent(NestedStart, GuestTables)
         \cup Extent(GuestCR3, GuestTables)
Frames == Low \cup Extent(Host, HostTables) \cup Extent(Nested, GuestTables)

Disjoint(a, b) == a \cap b = {}

ASSUME PagingAssumption ==
  /\ E \in Nat /\ GuestTables \in Nat \ {0} /\ HostTables \in Nat
  /\ GuestTables < HostTables /\ HostTables < E
  /\ HostStart \in Nat /\ NestedStart \in Nat /\ GuestCR3 \in Nat
  /\ Host \in Nat /\ Nested \in Nat
  /\ Disjoint(Extent(HostStart, HostTables), Extent(NestedStart, GuestTables))
  /\ Disjoint(Extent(HostStart, HostTables), Extent(GuestCR3, GuestTables))
  /\ Disjoint(Extent(NestedStart, GuestTables), Extent(GuestCR3, GuestTables))
  /\ Disjoint(Extent(Host, HostTables), Extent(Nested, GuestTables))
  /\ Disjoint(GuestPages, Extent(Host, HostTables) \cup Extent(Nested, GuestTables))
  /\ Disjoint(Low, Extent(Host, HostTables) \cup Extent(Nested, GuestTables))
  /\ Values \cup Ram \subseteq Nat \cup {NotPresent}
  /\ MaxWrites \in Nat

VARIABLES
  pc,
  mem,              \* the entries of the frames that hold tables
  cr3,              \* the guest's CR3 in the VMCB
  writes            \* bounded by MaxWrites

vars == <<pc, mem, cr3, writes>>
-----------------------------------------------------------------------------
\* Slip: the tables are counted from one.
PageOfFromOne(d, t) == (d - 1) * E + t

PageOf(d, t) == d * E + t

\* What a table at page f holds once the loops over cnt <= n have run.
Directory(f, n) == [i \in Index |-> IF i <= n THEN f + 1 + i ELSE mem[f][i]]
Table(d) == [t \in Index |-> PageOf(d, t)]

\* Slip: one table after another is filled from the start of memory.
IdentitySameTable(f, n) ==
  [p \in Extent(f, n) |-> IF p = f THEN Directory(f, n) ELSE Table(0)]

Identity(f, n) ==
  [p \in Extent(f, n) |-> IF p = f THEN Directory(f, n) ELSE Table(p - f - 1)]

Stored(new) == [f \in Frames |-> IF f \in DOMAIN new THEN new[f] ELSE mem[f]]

SetupPaging ==
  /\ pc = "start" /\ pc' = "main"
  /\ mem' = [f \in Frames |->
               IF f \in Extent(HostStart, HostTables)
               THEN Identity(HostStart, HostTables)[f]
               ELSE IF f \in Extent(NestedStart, GuestTables)
                    THEN Identity(NestedStart, GuestTables)[f] ELSE mem[f]]
  /\ UNCHANGED <<cr3, writes>>

SetupGuestPages ==
  /\ pc = "main" /\ pc' = "move"
  /\ mem' = Stored(Identity(GuestCR3, GuestTables))
  /\ UNCHANGED <<cr3, writes>>

\* Slip: the directory's entries are left as they were copied.
MovedUnfixed(from, to, n, m) == [p \in to..(to + n) |-> mem[p - to + from]]

\* CopyData of the directory and n tables, then UpdatePDEntry of entries 0..m.
Moved(from, to, n, m) ==
  [p \in to..(to + n) |->
     IF p = to THEN [i \in Index |-> IF i <= m THEN to + 1 + i ELSE mem[from][i]]
     ELSE mem[p - to + from]]

\* The last entry of the nested directory is updated, its table is not copied;
\* the last entry of the host's is not updated, and points to the old table.
MoveStuff ==
  /\ pc = "move" /\ pc' = "guest"
  /\ mem' = [f \in Frames |->
               IF f \in Nested..(Nested + GuestTables)
               THEN Moved(NestedStart, Nested, GuestTables, GuestTables)[f]
               ELSE IF f \in Host..(Host + HostTables)
                    THEN Moved(HostStart, Host, HostTables, HostTables - 1)[f]
                    ELSE mem[f]]
  /\ UNCHANGED <<cr3, writes>>
-----------------------------------------------------------------------------
(* The processor's walk of a directory at page f, for page t of table d.    *)

Walk(f, d, t) ==
  IF mem[f][d] \in Frames THEN mem[mem[f][d]][t] ELSE NotPresent

\* Slip: the page of the directory itself is taken for the first table.
GetGuestPhysicalPageAtDir(d, t) == mem[cr3 + d][t]

\* TranslateGuestPhysicalAddress: the tables are taken to follow CR3 one after
\* another, and those of the nested directory too; the directories are not read.
GetGuestPhysicalPage(d, t) == mem[cr3 + 1 + d][t]

TranslateGuestPage(d, t) ==
  LET phys == GetGuestPhysicalPage(d, t)
  IN  mem[Nested + 1 + phys \div E][phys % E]
-----------------------------------------------------------------------------
(* The guest: it writes tables, its own and what is left of the others, into *)
(* memory the nested tables let it reach, and switches between directories.  *)

GuestWrites ==
  /\ pc = "guest" /\ writes < MaxWrites
  /\ \E d \in 0..(GuestTables - 1), t \in Index, i \in Index, v \in Values :
       LET f == Walk(Nested, d, t)
       IN  /\ f \in Frames
           /\ mem' = [mem EXCEPT ![f] = [@ EXCEPT ![i] = v]]
  /\ writes' = writes + 1
  /\ UNCHANGED <<pc, cr3>>

GuestLoadsCR3 ==
  /\ pc = "guest"
  /\ cr3' \in {GuestCR3, NestedStart}
  /\ UNCHANGED <<pc, mem, writes>>

Init ==
  /\ pc = "start"
  /\ \E v \in Ram : mem = [f \in Frames |-> [i \in Index |-> v]]
  /\ cr3 = GuestCR3
  /\ writes = 0

Next == SetupPaging \/ SetupGuestPages \/ MoveStuff \/ GuestWrites \/ GuestLoadsCR3

Spec == Init /\ [][Next]_vars
-----------------------------------------------------------------------------
TypeOK ==
  /\ pc \in {"start", "main", "move", "guest"}
  /\ mem \in [Frames -> [Index -> Nat \cup {NotPresent}]]
  /\ cr3 \in {GuestCR3, NestedStart}
  /\ writes \in 0..MaxWrites

\* Once the guest runs, the nested tables map each page of its memory to itself,
\* and no write it makes, to the tables left below 1 MB included, changes that.
NestedIdentity ==
  pc = "guest" =>
    \A d \in 0..(GuestTables - 1), t \in Index : Walk(Nested, d, t) = PageOf(d, t)

\* The host reaches all of its memory, each page at its own address, through
\* tables that the guest cannot write.
HostIdentity ==
  pc = "guest" =>
    \A d \in 0..(HostTables - 1), t \in Index : Walk(Host, d, t) = PageOf(d, t)

\* The translation by hand is the processor's, guest tables and then nested ones,
\* for a directory whose tables follow it, as SetupGuestPages lays them out.
Own(d, t) == Walk(cr3, d, t)

HandAgrees(d, t) ==
  Own(d, t) \in GuestPages
    => TranslateGuestPage(d, t) = Walk(Nested, Own(d, t) \div E, Own(d, t) % E)

HandIsHardware ==
  pc = "guest" =>
    \A d \in 0..(GuestTables - 1), t \in Index :
      mem[cr3][d] = cr3 + 1 + d => HandAgrees(d, t)

=============================================================================
