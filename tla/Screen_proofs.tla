---------------------------- MODULE Screen_proofs ----------------------------
(***************************************************************************)
(* Proofs about Screen: how many characters a number has and which ones,    *)
(* what writing a string does to the cells, and from these two that the     *)
(* cursor stays on the screen and that everything the visor means to show   *)
(* can be read.                                                             *)
(***************************************************************************)
EXTENDS Screen, TLAPS

Dword == 0..MaxDword
-----------------------------------------------------------------------------
(* Numbers.  A number has at most eight digits, so Digits calls itself at   *)
(* most seven times: its equation is solved by spelling the calls out.      *)

Step(v, rest) == <<Digit(v % 16)>> \o (IF v \div 16 = 0 THEN <<>> ELSE rest)

D1(v) == Step(v, <<>>)
D2(v) == Step(v, D1(v \div 16))
D3(v) == Step(v, D2(v \div 16))
D4(v) == Step(v, D3(v \div 16))
D5(v) == Step(v, D4(v \div 16))
D6(v) == Step(v, D5(v \div 16))
D7(v) == Step(v, D6(v \div 16))
D8(v) == Step(v, D7(v \div 16))

\* What is left of a number once its last digit is cut off.
LEMMA Cut ==
  ASSUME NEW v \in Nat
  PROVE  /\ v \div 16 \in Nat
         /\ v < 16 => v \div 16 = 0
         /\ v < 256 => v \div 16 < 16
         /\ v < 4096 => v \div 16 < 256
         /\ v < 65536 => v \div 16 < 4096
         /\ v < 1048576 => v \div 16 < 65536
         /\ v < 16777216 => v \div 16 < 1048576
         /\ v < 268435456 => v \div 16 < 16777216
         /\ v \div 268435456 < 16 => v \div 16 < 268435456
BY Z3

LEMMA OneDigit ==
  ASSUME NEW v \in Nat, v < 16
  PROVE  D2(v) = D1(v)
<1>1. v \div 16 = 0
  BY Z3
<1> QED
  BY <1>1, Zenon DEF D1, D2, Step

\* A number of few digits does not need the deeper calls.
LEMMA DeepCalls ==
  ASSUME NEW v \in Nat, v < 268435456
  PROVE  D8(v) = D7(v)
<1>1. \A w \in Nat : w < 16 => D2(w) = D1(w)
  BY OneDigit, SMT
<1>2. \A w \in Nat : w < 256 => D3(w) = D2(w)
  BY Cut, <1>1, SMT DEF D2, D3
<1>3. \A w \in Nat : w < 4096 => D4(w) = D3(w)
  BY Cut, <1>2, SMT DEF D3, D4
<1>4. \A w \in Nat : w < 65536 => D5(w) = D4(w)
  BY Cut, <1>3, SMT DEF D4, D5
<1>5. \A w \in Nat : w < 1048576 => D6(w) = D5(w)
  BY Cut, <1>4, SMT DEF D5, D6
<1>6. \A w \in Nat : w < 16777216 => D7(w) = D6(w)
  BY Cut, <1>5, SMT DEF D6, D7
<1> QED
  BY Cut, <1>6, SMT DEF D7, D8

LEMMA DwordDigits ==
  ASSUME NEW v \in Dword
  PROVE  v \in Nat /\ v \div 16 \in Dword /\ v \div 16 \in Nat /\ v \div 16 < 268435456
<1>1. MaxDword \in Nat /\ MaxDword \div 268435456 < 16
  BY DwordAssumption, Z3
<1>2. v \in Nat /\ v <= MaxDword
  BY <1>1, SMT DEF Dword
<1>3. ASSUME NEW a \in Nat, NEW b \in Nat, a <= b, b \div 268435456 < 16
      PROVE  a \div 268435456 < 16 /\ a \div 16 <= b
  BY <1>3, Z3
<1>4. v \div 268435456 < 16 /\ v \div 16 <= MaxDword
  BY <1>1, <1>2, <1>3, SMT
<1> QED
  BY Cut, <1>1, <1>2, <1>4, SMT DEF Dword

LEMMA DigitsUnfold == \A v \in Dword : Digits[v] = Step(v, Digits[v \div 16])
<1> DEFINE Equation(g) ==
             g = [v \in 0..MaxDword |->
                    <<Digit(v % 16)>> \o (IF v \div 16 = 0 THEN <<>> ELSE g[v \div 16])]
           Solution == [v \in 0..MaxDword |-> D8(v)]
<1>1. ASSUME NEW v \in 0..MaxDword
      PROVE  D8(v) = <<Digit(v % 16)>> \o (IF v \div 16 = 0 THEN <<>> ELSE Solution[v \div 16])
  <2>1. D8(v \div 16) = D7(v \div 16)
    BY DwordDigits, DeepCalls, SMT DEF Dword
  <2>2. Solution[v \div 16] = D8(v \div 16)
    BY DwordDigits, SMT DEF Dword
  <2> QED
    BY <2>1, <2>2 DEF D8, Step
<1>2. Equation(Solution)
  BY <1>1
<1> HIDE DEF Solution
<1>3. Digits = CHOOSE g : Equation(g)
  BY DEF Digits
<1>4. Equation(Digits)
  BY <1>2, <1>3
<1> QED
  BY <1>4 DEF Dword, Step
-----------------------------------------------------------------------------
(* The digits by their places.                                              *)

Leads(v, n) == v \div Place[n] < 16 /\ (n = 1 \/ v >= Place[n])

LEMMA Places ==
  /\ Place[1] = 1 /\ Place[2] = 16 /\ Place[3] = 256 /\ Place[4] = 4096
  /\ Place[5] = 65536 /\ Place[6] = 1048576 /\ Place[7] = 16777216 /\ Place[8] = 268435456
BY SMT DEF Place

LEMMA LeadsIs ==
  ASSUME NEW v \in Nat
  PROVE  /\ Leads(v, 1) <=> v < 16
         /\ Leads(v, 2) <=> 16 <= v /\ v < 256
         /\ Leads(v, 3) <=> 256 <= v /\ v < 4096
         /\ Leads(v, 4) <=> 4096 <= v /\ v < 65536
         /\ Leads(v, 5) <=> 65536 <= v /\ v < 1048576
         /\ Leads(v, 6) <=> 1048576 <= v /\ v < 16777216
         /\ Leads(v, 7) <=> 16777216 <= v /\ v < 268435456
         /\ Leads(v, 8) <=> 268435456 <= v /\ v \div 268435456 < 16
<1>1. /\ v \div 1 = v
      /\ v \div 16 < 16 <=> v < 256
      /\ v \div 256 < 16 <=> v < 4096
      /\ v \div 4096 < 16 <=> v < 65536
      /\ v \div 65536 < 16 <=> v < 1048576
      /\ v \div 1048576 < 16 <=> v < 16777216
      /\ v \div 16777216 < 16 <=> v < 268435456
  BY Z3
<1> QED
  BY <1>1, Places, SMT DEF Leads

\* A number has one leading digit.
LEMMA OneLead ==
  ASSUME NEW v \in Nat, NEW n \in 1..8, NEW m \in 1..8, Leads(v, n), Leads(v, m)
  PROVE  n = m
<1>1. \A i \in 1..8 : i = 1 \/ i = 2 \/ i = 3 \/ i = 4 \/ i = 5 \/ i = 6 \/ i = 7 \/ i = 8
  BY SMT
<1> QED
  BY <1>1, LeadsIs, SMT

LEMMA WidthIs ==
  ASSUME NEW v \in Nat, NEW n \in 1..8, Leads(v, n)
  PROVE  Width(v) = n
BY OneLead, SMT DEF Width, Leads

\* One digit in front: the places move up by one.
LEMMA NextPlace ==
  ASSUME NEW v \in Nat, NEW n \in 1..7
  PROVE  /\ (v \div 16) \div Place[n] = v \div Place[n + 1]
         /\ v >= 16 /\ Leads(v \div 16, n) => Leads(v, n + 1)
<1>1. n = 1 \/ n = 2 \/ n = 3 \/ n = 4 \/ n = 5 \/ n = 6 \/ n = 7
  BY SMT
<1>2. /\ (v \div 16) \div 1 = v \div 16
      /\ (v \div 16) \div 16 = v \div 256
      /\ (v \div 16) \div 256 = v \div 4096
      /\ (v \div 16) \div 4096 = v \div 65536
      /\ (v \div 16) \div 65536 = v \div 1048576
      /\ (v \div 16) \div 1048576 = v \div 16777216
      /\ (v \div 16) \div 16777216 = v \div 268435456
  BY Z3
<1>3. (v \div 16) \div Place[n] = v \div Place[n + 1]
  BY <1>1, <1>2, Places, SMT
<1>4. ASSUME v >= 16, Leads(v \div 16, n)
      PROVE  Leads(v, n + 1)
  <2>1. v \div Place[n + 1] < 16
    BY <1>3, <1>4, SMT DEF Leads
  <2>2. v >= Place[n + 1]
    <3>1. /\ v \div 16 >= 16 => v >= 256
          /\ v \div 16 >= 256 => v >= 4096
          /\ v \div 16 >= 4096 => v >= 65536
          /\ v \div 16 >= 65536 => v >= 1048576
          /\ v \div 16 >= 1048576 => v >= 16777216
          /\ v \div 16 >= 16777216 => v >= 268435456
      BY Z3
    <3> QED
      BY <3>1, <1>1, <1>4, Places, SMT DEF Leads
  <2> QED
    BY <2>1, <2>2, SMT DEF Leads
<1> QED
  BY <1>3, <1>4, SMT

Placed(v) ==
  \E n \in 1..8 : /\ Leads(v, n)
                  /\ Digits[v] = [i \in 1..n |-> Digit((v \div Place[i]) % 16)]

LEMMA PlacedFirst ==
  ASSUME NEW v \in Dword, v < 16
  PROVE  Placed(v)
<1>1. v \div 16 = 0 /\ v \in Nat
  BY DwordDigits, Cut
<1>2. Digits[v] = <<Digit(v % 16)>>
  <2>1. Digits[v] = <<Digit(v % 16)>> \o <<>>
    BY <1>1, DigitsUnfold, Zenon DEF Step
  <2> HIDE DEF Digit
  <2>2. \A d : <<d>> \o <<>> = <<d>>
    BY SMT
  <2> QED
    BY <2>1, <2>2
<1>3. v \div Place[1] = v
  BY <1>1, Places, SMT
<1>4. Digits[v] = [i \in 1..1 |-> Digit((v \div Place[i]) % 16)]
  BY <1>2, <1>3, SMT
<1>5. Leads(v, 1)
  BY <1>1, LeadsIs
<1> QED
  BY <1>4, <1>5, SMT DEF Placed

LEMMA PlacedNext ==
  ASSUME NEW v \in Dword, v >= 16, Placed(v \div 16)
  PROVE  Placed(v)
<1> DEFINE w == v \div 16
<1>1. v \in Nat /\ w \in Nat /\ w < 268435456
  BY DwordDigits, SMT
<1>2. w # 0
  BY <1>1, Z3
<1>3. PICK n \in 1..8 : /\ Leads(w, n)
                        /\ Digits[w] = [i \in 1..n |-> Digit((w \div Place[i]) % 16)]
  BY SMT DEF Placed
<1>4. n \in 1..7
  BY <1>1, <1>3, Places, SMT DEF Leads
<1>5. Digits[v] = <<Digit(v % 16)>> \o Digits[w]
  BY <1>2, DigitsUnfold, SMT DEF Step
<1>6. \A i \in 1..n : (w \div Place[i]) = v \div Place[i + 1]
  BY <1>1, <1>4, NextPlace, SMT
<1>7. v \div Place[1] = v
  BY <1>1, Places, SMT
<1> HIDE DEF w
<1>8. Digits[v] = [i \in 1..(n + 1) |-> Digit((v \div Place[i]) % 16)]
  BY <1>3, <1>4, <1>5, <1>6, <1>7, SMT
<1>9. Leads(v, n + 1)
  BY <1>1, <1>3, <1>4, NextPlace, SMTT(30) DEF w
<1> QED
  BY <1>4, <1>8, <1>9, SMTT(30) DEF Placed

LEMMA AllPlaced == \A v \in Dword : Placed(v)
<1>0. \A v \in Dword : v \in Nat /\ v \div 16 \in Dword
  BY DwordDigits, SMT
<1>1. \A v \in Dword : v < 16 => Placed(v)
  BY PlacedFirst
<1>2. \A v \in Dword : v < 256 => Placed(v)
  BY <1>0, <1>1, Cut, PlacedNext, SMT
<1>3. \A v \in Dword : v < 4096 => Placed(v)
  BY <1>0, <1>2, Cut, PlacedNext, SMT
<1>4. \A v \in Dword : v < 65536 => Placed(v)
  BY <1>0, <1>3, Cut, PlacedNext, SMT
<1>5. \A v \in Dword : v < 1048576 => Placed(v)
  BY <1>0, <1>4, Cut, PlacedNext, SMT
<1>6. \A v \in Dword : v < 16777216 => Placed(v)
  BY <1>0, <1>5, Cut, PlacedNext, SMT
<1>7. \A v \in Dword : v < 268435456 => Placed(v)
  BY <1>0, <1>6, Cut, PlacedNext, SMT
<1> QED
  BY <1>0, <1>7, DwordDigits, PlacedNext, SMT

Text == Seq(Chars)

(* Itoa writes a number in at most eight characters, the highest place first. *)
THEOREM ItoaPlaces ==
  ASSUME NEW v \in Dword
  PROVE  /\ Itoa(v) \in Text
         /\ Len(Itoa(v)) = Width(v) /\ Width(v) \in 1..8
         /\ \A k \in 1..Width(v) : Itoa(v)[k] = Digit((v \div Place[Width(v) + 1 - k]) % 16)
<1>1. v \in Nat
  BY DwordDigits
<1>2. PICK n \in 1..8 : /\ Leads(v, n)
                        /\ Digits[v] = [i \in 1..n |-> Digit((v \div Place[i]) % 16)]
  BY AllPlaced DEF Placed
<1>3. Width(v) = n
  BY <1>1, <1>2, WidthIs
<1>4. Len(Digits[v]) = n
  BY <1>2, SMT
<1>5. Itoa(v) = [k \in 1..n |-> Digit((v \div Place[n + 1 - k]) % 16)]
  BY <1>2, <1>4, SMT DEF Itoa
<1>6. \A k \in 1..n : Digit((v \div Place[n + 1 - k]) % 16) \in Chars
  <2>1. \A i \in 1..8 : Place[i] \in Nat \ {0}
    BY SMT DEF Place
  <2>2. \A p \in Nat \ {0} : (v \div p) % 16 \in Nat
    BY <1>1, Z3
  <2>3. \A d \in Nat : Digit(d) \in Chars
    BY SMT DEF Digit, Chars, Literals
  <2>4. \A k \in 1..n : n + 1 - k \in 1..8
    BY SMT
  <2> QED
    BY <2>1, <2>2, <2>3, <2>4
<1> HIDE DEF Itoa
<1>7. Itoa(v) \in Text /\ Len(Itoa(v)) = n
  BY <1>5, <1>6, SMT DEF Text
<1> QED
  BY <1>3, <1>5, <1>7, SMT
-----------------------------------------------------------------------------
(* Literals.                                                                *)

LEMMA LiteralText ==
  ASSUME NEW t \in DOMAIN Literals
  PROVE  /\ Literal(t) \in Text /\ Len(Literal(t)) = Literals[t]
         /\ \A k \in 1..Literals[t] : Literal(t)[k] = [of |-> t, k |-> k]
<1>1. Literals[t] \in Nat
  BY SMT DEF Literals
<1>2. \A k \in 1..Literals[t] : [of |-> t, k |-> k] \in Chars
  <2> DEFINE Names == DOMAIN Literals \cup {"digit", " ", "Visor loaded"}
  <2>1. t \in Names /\ Chars = [of : Names, k : Nat]
    BY DEF Chars
  <2> HIDE DEF Names
  <2> QED
    BY <1>1, <2>1, SMT
<1>3. Literal(t) = [k \in 1..Literals[t] |-> [of |-> t, k |-> k]]
  BY DEF Literal
<1> HIDE DEF Literal
<1> QED
  BY <1>1, <1>2, <1>3, SMT DEF Text

LEMMA LiteralLengths ==
  /\ Literals["Entering"] = 37 /\ Literals["P"] = 1 /\ Literals["R"] = 1
  /\ Literals["G"] = 6 /\ Literals["n"] = 6 /\ Literals["Exit"] = 8
  /\ Literals["Info1"] = 9 /\ Literals["Info2"] = 9 /\ Literals["Shutdown"] = 47
  /\ Literals["Halted"] = 27 /\ Literals["Nmi"] = 47 /\ Literals["Unknown"] = 19
  /\ Literals["Toilet"] = 57 /\ Literals["CR0value"] = 11 /\ Literals["CR3value"] = 13
  /\ Literals["Exception"] = 50 /\ Literals["Colon"] = 1
BY SMT DEF Literals

LEMMA LiteralNames ==
  DOMAIN Literals = {"Entering", "P", "R", "G", "n", "Exit", "Info1", "Info2", "Shutdown",
                     "Halted", "Nmi", "Unknown", "Toilet", "CR0value", "CR3value",
                     "Exception", "Colon"}
BY SMT DEF Literals
-----------------------------------------------------------------------------
(* Cells.  A text that ends before column 160 neither wraps nor scrolls.    *)

ShownIn(v, c) == IF c \in DOMAIN v THEN v[c] ELSE Blank

\* The text t stands in the cells from c on.
Stands(v, c, t) == \A k \in 1..Len(t) : ShownIn(v, c + k - 1) = t[k]

Cells(x, y, n) == (y * 80 + x)..(y * 80 + x + n - 1)

LEMMA FitsAt ==
  ASSUME NEW x \in Nat, NEW y \in Nat, NEW text, NEW n \in Nat, x + n < 160
  PROVE  PutAll(x, y, text, n).x = x + n /\ PutAll(x, y, text, n).y = y
<1>1. (x + n) % 160 = x + n /\ (x + n) \div 160 = 0
  BY Z3
<1>2. Advanced(x, y, n) = <<x + n, y>>
  BY <1>1, SMT DEF Advanced
<1> QED
  BY <1>2, SMT DEF PutAll

LEMMA FitsCells ==
  ASSUME NEW x \in Nat, NEW y \in Nat, NEW text, NEW n \in Nat, x + n < 160, y < 25
  PROVE  PutAll(x, y, text, n).cells = [c \in Cells(x, y, n) |-> text[c - (y * 80 + x) + 1]]
<1>1. (y * 160 + x * 2) % Word = y * 160 + x * 2
  BY Z3 DEF Word
<1>2. Location(x, y) \div 2 = y * 80 + x
  BY <1>1, Z3 DEF Location, Word
<1>3. Location(0, y + 1) \div 2 \in Int
  BY Z3 DEF Location, Word
<1>4. Run(x, y, text, 1, n) = [c \in Cells(x, y, n) |-> text[c - (y * 80 + x) + 1]]
  <2>1. Run(x, y, text, 1, n) =
          [c \in (Location(x, y) \div 2)..(Location(x, y) \div 2 + n - 1) |->
             text[c - Location(x, y) \div 2 + 1]]
    BY DEF Run
  <2> QED
    BY <1>2, <2>1, Zenon DEF Cells
<1>5. DOMAIN Run(0, y + 1, text, n + 1, n) = {}
  BY <1>3, SMT DEF Run
<1> HIDE DEF Run
<1>6. Over(Run(0, y + 1, text, n + 1, n), Run(x, y, text, 1, n)) = Run(x, y, text, 1, n)
  <2>1. \A f, g : DOMAIN f = {} /\ g = [c \in DOMAIN g |-> g[c]] => Over(f, g) = g
    BY DEF Over
  <2> QED
    BY <1>4, <1>5, <2>1, Zenon
<1>7. x + n <= 160
  BY SMT
<1>8. PutAll(x, y, text, n).cells =
        Over(Run(0, y + 1, text, n + 1, n), Run(x, y, text, 1, n))
  BY <1>7, SMT DEF PutAll
<1> QED
  BY <1>4, <1>6, <1>8, Zenon

VideoOK == DOMAIN video \subseteq OnScreen /\ \A c \in DOMAIN video : video[c] \in Chars

LEMMA Bounded ==
  ASSUME NEW a \in Nat, NEW m \in Nat, m <= a
  PROVE  m \in 0..a
BY SMT

\* Everything outside the n cells from c on is left alone.
Spared(v, w, c, n) == \A d \in Int : d < c \/ d >= c + n => ShownIn(w, d) = ShownIn(v, d)

LEMMA OverValues ==
  ASSUME NEW f, NEW g
  PROVE  /\ DOMAIN Over(f, g) = DOMAIN f \cup DOMAIN g
         /\ \A c \in DOMAIN f : Over(f, g)[c] = f[c]
         /\ \A c \in DOMAIN g : c \notin DOMAIN f => Over(f, g)[c] = g[c]
BY Zenon DEF Over

LEMMA CellsOver ==
  ASSUME VideoOK, NEW x \in Nat, NEW y \in Nat, NEW text \in Text, NEW n \in Nat,
         \A k \in 1..n : text[k] \in Chars, x + n < 160, y < 24,
         video' = Over(PutAll(x, y, text, n).cells, video)
  PROVE  /\ VideoOK'
         /\ Spared(video, video', y * 80 + x, n)
         /\ \A k \in 1..n : ShownIn(video', y * 80 + x + k - 1) = text[k]
<1>0. PutAll(x, y, text, n).cells = [c \in Cells(x, y, n) |-> text[c - (y * 80 + x) + 1]]
  <2>1. y < 25
    BY SMT
  <2> QED
    BY <2>1, FitsCells, SMTT(30)
<1> DEFINE first == y * 80 + x
           last == first + n - 1
           new == PutAll(x, y, text, n).cells
<1>1. first \in Nat /\ last \in Int /\ first + n < 2000 /\ y < 25
  BY SMT
<1>2. new = [c \in first..last |-> text[c - first + 1]]
  BY <1>0, Zenon DEF Cells
<1>3. video' = Over(new, video)
  OBVIOUS
<1>4. last = first + n - 1
  OBVIOUS
<1> HIDE DEF first, last, new
<1>5. /\ DOMAIN video' = (first..last) \cup DOMAIN video
      /\ \A c \in first..last : video'[c] = text[c - first + 1]
      /\ \A c \in DOMAIN video : c \notin first..last => video'[c] = video[c]
  <2>1. DOMAIN new = first..last /\ \A c \in first..last : new[c] = text[c - first + 1]
    BY <1>2, Zenon
  <2>2. /\ DOMAIN Over(new, video) = DOMAIN new \cup DOMAIN video
        /\ \A c \in DOMAIN new : Over(new, video)[c] = new[c]
        /\ \A c \in DOMAIN video : c \notin DOMAIN new => Over(new, video)[c] = video[c]
    BY OverValues, Zenon
  <2> QED
    BY <1>3, <2>1, <2>2, Zenon
<1>6. VideoOK'
  <2>1. first..last \subseteq OnScreen
    <3>1. OnScreen = 0..1999
      BY SMT DEF OnScreen, Rows, Columns
    <3> DEFINE m == 1999
    <3>2. m \in Nat /\ last <= m
      BY <1>1, <1>4, SMT
    <3> HIDE DEF m
    <3>3. first..last \subseteq 0..m
      BY <1>1, <3>2, SMT
    <3> QED
      BY <3>1, <3>3 DEF m
  <2>2. \A c \in first..last : c - first + 1 \in 1..n
    BY <1>1, <1>4, SMT
  <2>3. DOMAIN video \subseteq OnScreen /\ \A c \in DOMAIN video : video[c] \in Chars
    BY DEF VideoOK
  <2>4. DOMAIN video' \subseteq OnScreen
    BY <1>5, <2>1, <2>3, Zenon
  <2>5. ASSUME NEW c \in DOMAIN video'
        PROVE  video'[c] \in Chars
    <3>1. CASE c \in first..last
      <4>1. video'[c] = text[c - first + 1] /\ c - first + 1 \in 1..n
        BY <1>5, <2>2, <3>1, Zenon
      <4> QED
        BY <4>1, Zenon
    <3>2. CASE c \notin first..last
      BY <1>5, <2>3, <2>5, <3>2, Zenon
    <3> QED
      BY <3>1, <3>2
  <2> QED
    BY <2>4, <2>5 DEF VideoOK
<1>7. Spared(video, video', first, n)
  <2>1. ASSUME NEW d \in Int, d < first \/ d >= first + n
        PROVE  ShownIn(video', d) = ShownIn(video, d)
    <3>1. d \notin first..last
      BY <1>1, <1>4, <2>1, SMT
    <3> QED
      BY <1>5, <3>1, Zenon DEF ShownIn
  <2> QED
    BY <2>1, Zenon DEF Spared
<1>8. \A k \in 1..n : ShownIn(video', first + k - 1) = text[k]
  <2>1. \A k \in 1..n : first + k - 1 \in first..last /\ (first + k - 1) - first + 1 = k
    BY <1>1, <1>4, SMT
  <2> QED
    BY <1>5, <2>1 DEF ShownIn
<1> QED
  BY <1>6, <1>7, <1>8 DEF first

LEMMA Put ==
  ASSUME NEW x \in Nat, NEW y \in Nat, NEW n \in Nat, x + n < 160, y < 25
  PROVE  y \in 0..(Rows - 1) /\ x + n \in 0..159
BY SMT DEF Rows

LEMMA HardwareCursor ==
  ASSUME NEW x \in Nat, NEW y \in Nat, x < 160, y < 25
  PROVE  (y * 160 + x) % Word \in 0..(Word - 1)
<1> DEFINE m == y * 160 + x
           a == Word - 1
<1>1. m \in Nat /\ m < 65536
  BY SMT
<1>2. m % Word = m
  BY <1>1, Z3 DEF Word
<1>3. a \in Nat /\ m <= a
  BY <1>1, SMT DEF Word
<1> HIDE DEF m, a
<1>4. m \in 0..a
  BY <1>1, <1>3, Bounded
<1>5. m % Word \in 0..a
  BY <1>2, <1>4, Zenon
<1> QED
  BY <1>5 DEF m, a

LEMMA WrittenWhole ==
  ASSUME VideoOK, NEW x \in Nat, NEW y \in Nat, NEW text \in Text,
         x + Len(text) < 160, y < 24, MonitorWrite(<<x, y>>, text)
  PROVE  /\ VideoOK' /\ cursor_x' = x + Len(text) /\ cursor_y' = y
         /\ cursor_x' \in 0..159 /\ cursor_y' \in 0..(Rows - 1) /\ cursorLocation' \in 0..(Word - 1)
         /\ Spared(video, video', y * 80 + x, Len(text))
         /\ Stands(video', y * 80 + x, text)
<1> DEFINE n == Len(text)
<1>1. n \in Nat /\ x + n < 160 /\ y < 25 /\ \A k \in 1..n : text[k] \in Chars
  BY SMT DEF Text
<1>2. /\ video' = (LET s == PutAll(x, y, text, n)
                   IN  IF s.y >= 25 THEN Scrolled(Over(s.cells, video)) ELSE Over(s.cells, video))
      /\ cursor_x' = PutAll(x, y, text, n).x
      /\ cursor_y' = IF PutAll(x, y, text, n).y >= 25 THEN 24 ELSE PutAll(x, y, text, n).y
      /\ cursorLocation' = (cursor_y' * 160 + cursor_x') % Word
  BY DEF MonitorWrite, Rows
<1> HIDE DEF n
<1>3. y \in 0..(Rows - 1) /\ x + n \in 0..159 /\ x + n \in Nat
  BY <1>1, Put, SMTT(30)
<1>4. PutAll(x, y, text, n).x = x + n /\ PutAll(x, y, text, n).y = y
  BY <1>1, FitsAt
<1>5. ~ y >= 25
  BY <1>1, SMT
<1>6. /\ video' = Over(PutAll(x, y, text, n).cells, video)
      /\ cursor_x' = x + n /\ cursor_y' = y
  BY <1>2, <1>4, <1>5, Zenon
<1>8. cursorLocation' \in 0..(Word - 1)
  <2>1. (y * 160 + (x + n)) % Word \in 0..(Word - 1)
    BY <1>1, <1>3, HardwareCursor
  <2>2. cursorLocation' = (y * 160 + (x + n)) % Word
    BY <1>2, <1>6, Zenon
  <2> QED
    BY <2>1, <2>2, Zenon
<1>7. /\ VideoOK' /\ Spared(video, video', y * 80 + x, n)
      /\ \A k \in 1..n : ShownIn(video', y * 80 + x + k - 1) = text[k]
  BY <1>1, <1>6, CellsOver
<1> QED
  BY <1>3, <1>6, <1>7, <1>8, Zenon DEF Stands, n

LEMMA WrittenCut ==
  ASSUME VideoOK, NEW x \in Nat, NEW y \in Nat, NEW text \in Text,
         x + Len(text) < 160, y < 24,
         NEW n \in 0..(Len(text) - 1), MonitorWriteCut(<<x, y>>, text, n)
  PROVE  VideoOK' /\ cursor_x' \in 0..159 /\ cursor_y' \in 0..(Rows - 1) /\ UNCHANGED cursorLocation
<1>1. n \in Nat /\ x + n < 160 /\ y < 25 /\ \A k \in 1..n : text[k] \in Chars
  BY SMT DEF Text
<1>2. /\ video' = Over(PutAll(x, y, text, n).cells, video)
      /\ cursor_x' = PutAll(x, y, text, n).x /\ cursor_y' = PutAll(x, y, text, n).y
      /\ UNCHANGED cursorLocation
  BY DEF MonitorWriteCut
<1>3. y \in 0..(Rows - 1) /\ x + n \in 0..159
  BY <1>1, Put
<1>4. PutAll(x, y, text, n).x = x + n /\ PutAll(x, y, text, n).y = y
  BY <1>1, FitsAt
<1>5. VideoOK'
  BY <1>1, <1>2, CellsOver
<1> QED
  BY <1>2, <1>3, <1>4, <1>5, Zenon
-----------------------------------------------------------------------------
(* Lines: texts one behind the other, the first i of which are written.     *)

At(c, t) == [at |-> c, text |-> t]

Ascending(s) ==
  \A i \in 1..Len(s) :
    /\ s[i].at \in Nat /\ s[i].text \in Text
    /\ \A j \in 1..(i - 1) : s[j].at + Len(s[j].text) <= s[i].at

Legible(v, s, i) == \A j \in 1..i : Stands(v, s[j].at, s[j].text)

LEMMA StandsSpared ==
  ASSUME NEW v, NEW w, NEW c \in Nat, NEW n \in Nat, Spared(v, w, c, n),
         NEW d \in Nat, NEW t \in Text, d + Len(t) <= c \/ d >= c + n, Stands(v, d, t)
  PROVE  Stands(w, d, t)
<1>1. Len(t) \in Nat
  BY SMT DEF Text
<1>2. \A k \in 1..Len(t) : d + k - 1 \in Int /\ (d + k - 1 < c \/ d + k - 1 >= c + n)
  BY <1>1, SMT
<1> QED
  BY <1>2, Zenon DEF Stands, Spared

LEMMA StaysLegible ==
  ASSUME NEW v, NEW w, NEW c \in Nat, NEW n \in Nat, Spared(v, w, c, n),
         NEW s, NEW i \in Nat, Ascending(s), i <= Len(s), Len(s) \in Nat, Legible(v, s, i),
         \A j \in 1..i : s[j].at + Len(s[j].text) <= c \/ s[j].at >= c + n
  PROVE  Legible(w, s, i)
<1> SUFFICES ASSUME NEW j \in 1..i
             PROVE  Stands(w, s[j].at, s[j].text)
  BY DEF Legible
<1>1. j \in 1..Len(s)
  BY SMT
<1>2. s[j].at \in Nat /\ s[j].text \in Text
  BY <1>1, Zenon DEF Ascending
<1>3. Stands(v, s[j].at, s[j].text)
  BY Zenon DEF Legible
<1> QED
  BY <1>2, <1>3, StandsSpared

LEMMA NextLegible ==
  ASSUME NEW v, NEW w, NEW s, Ascending(s), Len(s) \in Nat, NEW i \in 1..Len(s),
         Legible(v, s, i - 1), Spared(v, w, s[i].at, Len(s[i].text)),
         Stands(w, s[i].at, s[i].text)
  PROVE  Legible(w, s, i)
<1>1. s[i].at \in Nat /\ s[i].text \in Text
  BY Zenon DEF Ascending
<1>2. Len(s[i].text) \in Nat /\ i - 1 \in Nat /\ i - 1 <= Len(s)
  BY <1>1, SMT DEF Text
<1>3. \A j \in 1..(i - 1) :
        s[j].at + Len(s[j].text) <= s[i].at \/ s[j].at >= s[i].at + Len(s[i].text)
  BY Zenon DEF Ascending
<1>4. Legible(w, s, i - 1)
  <2> DEFINE c == s[i].at
             n == Len(s[i].text)
             h == i - 1
  <2>1. /\ c \in Nat /\ n \in Nat /\ h \in Nat /\ h <= Len(s) /\ Spared(v, w, c, n)
        /\ Legible(v, s, h)
        /\ \A j \in 1..h : s[j].at + Len(s[j].text) <= c \/ s[j].at >= c + n
    BY <1>1, <1>2, <1>3
  <2> HIDE DEF c, n, h
  <2>2. Legible(w, s, h)
    BY <2>1, StaysLegible
  <2> QED
    BY <2>2 DEF h
<1>5. \A j \in 1..i : j = i \/ j \in 1..(i - 1)
  BY SMT
<1> QED
  BY <1>4, <1>5, Zenon DEF Legible

\* The line about an exit, and the exit's number.
StatusLine(e, n) ==
  LET c1 == IF e.mode.pe THEN 1 ELSE 20
      c2 == c1 + 1
      c3 == c2 + 6
      c4 == c3 + Width(n)
      c5 == c4 + 8
      c6 == c5 + Width(e.code)
      c7 == c6 + 9
      c8 == c7 + Width(e.info[1])
      c9 == c8 + 9
  IN  <<At(c1, Literal(IF e.mode.pe THEN "P" ELSE "R")),
        At(c2, Literal(IF e.mode.pg THEN "G" ELSE "n")), At(c3, Itoa(n)),
        At(c4, Literal("Exit")), At(c5, Itoa(e.code)),
        At(c6, Literal("Info1")), At(c7, Itoa(e.info[1])),
        At(c8, Literal("Info2")), At(c9, Itoa(e.info[2]))>>

\* The two lines of InfiniteLoop.
ToiletLines(e) ==
  LET c5 == 1371 + Width(CR0)
  IN  <<At(1200, Literal("Toilet")), At(1257, Itoa(e.code)),
        At(1360, Literal("CR0value")), At(1371, Itoa(CR0)),
        At(c5, Literal("CR3value")), At(c5 + 13, Itoa(CR3))>>

\* The two numbers in the report of an exception.
Told == <<ExcCS(trap), ExcIP(trap)>>

ReportLine(t) ==
  LET c3 == 1330 + Width(t[1])
  IN  <<At(1280, Literal("Exception")), At(1330, Itoa(t[1])),
        At(c3, Literal("Colon")), At(c3 + 1, Itoa(t[2]))>>

Exits == [mode : [pe : BOOLEAN, pg : BOOLEAN], code : Dword, info : Dword \X Dword,
          intf : BOOLEAN]

\* It is enough to compare neighbours; no line has more than nine texts.
LEMMA ChainAscends ==
  ASSUME NEW s, NEW m \in Nat, Len(s) = m, m <= 9,
         \A i \in 1..m : s[i].at \in Nat /\ s[i].text \in Text,
         \A i \in 1..(m - 1) : s[i].at + Len(s[i].text) <= s[i + 1].at
  PROVE  Ascending(s)
<1> DEFINE a == [i \in 1..m |-> s[i].at]
           z == [i \in 1..m |-> s[i].at + Len(s[i].text)]
           Apart(d) == \A i \in 1..m : i + d <= m => z[i] <= a[i + d]
<1>1. \A i \in 1..m : Len(s[i].text) \in Nat
  BY SMT DEF Text
<1>2. \A i \in 1..m : a[i] \in Nat /\ z[i] \in Nat /\ a[i] <= z[i]
  BY <1>1, SMT
<1>3. \A i \in 1..m : i + 1 \in 1..m => z[i] <= a[i + 1]
  <2> SUFFICES ASSUME NEW i \in 1..m, i + 1 \in 1..m
               PROVE  z[i] <= a[i + 1]
    OBVIOUS
  <2>1. i \in 1..(m - 1)
    BY SMT
  <2> QED
    BY <2>1, Zenon
<1> HIDE DEF a, z
<1>4. ASSUME NEW d \in 1..8, Apart(d)
      PROVE  Apart(d + 1)
  <2> SUFFICES ASSUME NEW i \in 1..m, i + (d + 1) <= m
               PROVE  z[i] <= a[i + (d + 1)]
    OBVIOUS
  <2>1. i + d \in 1..m /\ i + d <= m /\ (i + d) + 1 = i + (d + 1) /\ i + (d + 1) \in 1..m
    BY SMT
  <2>2. z[i] <= a[i + d] /\ a[i + d] <= z[i + d] /\ z[i + d] <= a[i + (d + 1)]
    BY <1>2, <1>3, <1>4, <2>1, Zenon
  <2> QED
    BY <1>2, <2>1, <2>2, SMTT(30)
<1>5. Apart(1)
  BY <1>3, SMT
<1> HIDE DEF Apart
<1>6. Apart(1) /\ Apart(2) /\ Apart(3) /\ Apart(4) /\ Apart(5) /\ Apart(6) /\ Apart(7) /\ Apart(8)
  <2>1. Apart(2)
    BY <1>4, <1>5, SMT
  <2>2. Apart(3)
    BY <1>4, <2>1, SMT
  <2>3. Apart(4)
    BY <1>4, <2>2, SMT
  <2>4. Apart(5)
    BY <1>4, <2>3, SMT
  <2>5. Apart(6)
    BY <1>4, <2>4, SMT
  <2>6. Apart(7)
    BY <1>4, <2>5, SMT
  <2>7. Apart(8)
    BY <1>4, <2>6, SMT
  <2> QED
    BY <1>5, <2>1, <2>2, <2>3, <2>4, <2>5, <2>6, <2>7
<1>7. \A d \in 1..8 : Apart(d)
  BY <1>6, SMT
<1>8. ASSUME NEW i \in 1..m, NEW j \in 1..(i - 1)
      PROVE  s[j].at + Len(s[j].text) <= s[i].at
  <2>1. i - j \in 1..8 /\ j \in 1..m /\ j + (i - j) = i
    BY SMT
  <2>2. Apart(i - j)
    BY <1>7, <2>1
  <2>3. z[j] <= a[i]
    BY <2>1, <2>2, SMT DEF Apart
  <2> QED
    BY <2>1, <2>3, Zenon DEF a, z
<1> QED
  BY <1>8, Zenon DEF Ascending

\* A text of n characters.
Sized(t, n) == t \in Text /\ Len(t) = n

LEMMA LiteralSizes ==
  /\ Sized(Literal("Entering"), 37) /\ Sized(Literal("P"), 1) /\ Sized(Literal("R"), 1)
  /\ Sized(Literal("G"), 6) /\ Sized(Literal("n"), 6) /\ Sized(Literal("Exit"), 8)
  /\ Sized(Literal("Info1"), 9) /\ Sized(Literal("Info2"), 9)
  /\ Sized(Literal("Shutdown"), 47) /\ Sized(Literal("Halted"), 27)
  /\ Sized(Literal("Nmi"), 47) /\ Sized(Literal("Unknown"), 19)
  /\ Sized(Literal("Toilet"), 57) /\ Sized(Literal("CR0value"), 11)
  /\ Sized(Literal("CR3value"), 13) /\ Sized(Literal("Exception"), 50)
  /\ Sized(Literal("Colon"), 1)
<1>1. \A t \in DOMAIN Literals : Sized(Literal(t), Literals[t])
  BY LiteralText DEF Sized
<1> QED
  BY <1>1, LiteralNames, LiteralLengths, ZenonT(30)

LEMMA NumberSizes ==
  \A v \in Dword : Sized(Itoa(v), Width(v)) /\ Width(v) \in Nat /\ 1 <= Width(v) /\ Width(v) <= 8
<1>1. \A v \in Dword : Sized(Itoa(v), Width(v)) /\ Width(v) \in 1..8
  BY ItoaPlaces DEF Sized
<1> QED
  BY <1>1, SMT

\* Item i of a line begins at c and has n characters.
Item(s, i, c, n) == s[i].at = c /\ c \in Nat /\ Sized(s[i].text, n) /\ n \in Nat

LEMMA ReportItems ==
  ASSUME NEW t \in Dword \X Dword
  PROVE  LET s == ReportLine(t)
             w == Width(t[1])
         IN  /\ Len(s) = 4 /\ w \in Nat /\ w <= 8 /\ Width(t[2]) <= 8
             /\ Item(s, 1, 1280, 50) /\ Item(s, 2, 1330, w)
             /\ Item(s, 3, 1330 + w, 1) /\ Item(s, 4, 1331 + w, Width(t[2]))
<1> DEFINE s == ReportLine(t)
           w == Width(t[1])
<1>1. s = <<At(1280, Literal("Exception")), At(1330, Itoa(t[1])),
            At(1330 + w, Literal("Colon")), At(1330 + w + 1, Itoa(t[2]))>>
  BY DEF ReportLine
<1>2. t[1] \in Dword /\ t[2] \in Dword
  BY SMT
<1>3. /\ Sized(Itoa(t[1]), w) /\ Sized(Itoa(t[2]), Width(t[2]))
      /\ w \in Nat /\ w <= 8 /\ Width(t[2]) \in Nat /\ Width(t[2]) <= 8
  BY <1>2, NumberSizes
<1> HIDE DEF s, w
<1>4. /\ Len(s) = 4
      /\ s[1] = At(1280, Literal("Exception")) /\ s[2] = At(1330, Itoa(t[1]))
      /\ s[3] = At(1330 + w, Literal("Colon")) /\ s[4] = At(1331 + w, Itoa(t[2]))
  BY <1>1, <1>3, SMT
<1>5. 1330 + w \in Nat /\ 1331 + w \in Nat
  BY <1>3, SMT
<1>6. \A c, x : At(c, x).at = c /\ At(c, x).text = x
  BY DEF At
<1>7. /\ Item(s, 1, 1280, 50) /\ Item(s, 2, 1330, w)
      /\ Item(s, 3, 1330 + w, 1) /\ Item(s, 4, 1331 + w, Width(t[2]))
  BY <1>3, <1>4, <1>5, <1>6, LiteralSizes, SMT DEF Item
<1> QED
  BY <1>3, <1>4, <1>7 DEF s, w

LEMMA ReportAscends ==
  ASSUME NEW t \in Dword \X Dword
  PROVE  Ascending(ReportLine(t))
<1> DEFINE s == ReportLine(t)
           w == Width(t[1])
<1>1. /\ Len(s) = 4 /\ w \in Nat
      /\ Item(s, 1, 1280, 50) /\ Item(s, 2, 1330, w)
      /\ Item(s, 3, 1330 + w, 1) /\ Item(s, 4, 1331 + w, Width(t[2]))
  BY ReportItems
<1> HIDE DEF s, w
<1>2. /\ s[1].at = 1280 /\ s[2].at = 1330 /\ s[3].at = 1330 + w /\ s[4].at = 1331 + w
      /\ Len(s[1].text) = 50 /\ Len(s[2].text) = w /\ Len(s[3].text) = 1
      /\ s[1].text \in Text /\ s[2].text \in Text /\ s[3].text \in Text /\ s[4].text \in Text
  BY <1>1 DEF Item, Sized
<1> DEFINE m == 4
<1>3. Len(s) = m /\ m \in Nat /\ m <= 9
  BY <1>1, SMT
<1>4. \A i \in 1..m : s[i].at \in Nat /\ s[i].text \in Text
  BY <1>1, <1>2, SMT DEF Item
<1>5. \A i \in 1..(m - 1) : s[i].at + Len(s[i].text) <= s[i + 1].at
  <2>1. /\ s[1].at + Len(s[1].text) <= s[2].at
        /\ s[2].at + Len(s[2].text) <= s[3].at
        /\ s[3].at + Len(s[3].text) <= s[4].at
    BY <1>1, <1>2, SMT
  <2>2. \A i \in 1..(m - 1) : (i = 1 /\ i + 1 = 2) \/ (i = 2 /\ i + 1 = 3) \/ (i = 3 /\ i + 1 = 4)
    BY SMT
  <2> QED
    BY <2>1, <2>2, Zenon
<1> HIDE DEF m
<1>6. Ascending(s)
  BY <1>3, <1>4, <1>5, ChainAscends, Zenon
<1> QED
  BY <1>6 DEF s

LEMMA ToiletItems ==
  ASSUME NEW e \in Exits
  PROVE  LET s == ToiletLines(e)
             w == Width(CR0)
         IN  /\ Len(s) = 6 /\ w \in Nat /\ w <= 8 /\ Width(e.code) <= 8 /\ Width(CR3) <= 8
             /\ Item(s, 1, 1200, 57) /\ Item(s, 2, 1257, Width(e.code))
             /\ Item(s, 3, 1360, 11) /\ Item(s, 4, 1371, w)
             /\ Item(s, 5, 1371 + w, 13) /\ Item(s, 6, 1384 + w, Width(CR3))
<1> DEFINE s == ToiletLines(e)
           w == Width(CR0)
<1>1. s = <<At(1200, Literal("Toilet")), At(1257, Itoa(e.code)),
            At(1360, Literal("CR0value")), At(1371, Itoa(CR0)),
            At(1371 + w, Literal("CR3value")), At(1371 + w + 13, Itoa(CR3))>>
  BY DEF ToiletLines
<1>2. e.code \in Dword
  BY SMT DEF Exits
<1>3. CR0 \in Dword /\ CR3 \in Dword
  BY ScreenAssumption DEF Dword
<1>4. /\ Sized(Itoa(e.code), Width(e.code)) /\ Sized(Itoa(CR0), w) /\ Sized(Itoa(CR3), Width(CR3))
      /\ Width(e.code) \in Nat /\ Width(e.code) <= 8 /\ w \in Nat /\ w <= 8
      /\ Width(CR3) \in Nat /\ Width(CR3) <= 8
  BY <1>2, <1>3, NumberSizes
<1> HIDE DEF s, w
<1>5. /\ Len(s) = 6
      /\ s[1] = At(1200, Literal("Toilet")) /\ s[2] = At(1257, Itoa(e.code))
      /\ s[3] = At(1360, Literal("CR0value")) /\ s[4] = At(1371, Itoa(CR0))
      /\ s[5] = At(1371 + w, Literal("CR3value")) /\ s[6] = At(1384 + w, Itoa(CR3))
  BY <1>1, <1>4, SMT
<1>6. 1371 + w \in Nat /\ 1384 + w \in Nat
  BY <1>4, SMT
<1>7. \A c, x : At(c, x).at = c /\ At(c, x).text = x
  BY DEF At
<1>8. /\ Item(s, 1, 1200, 57) /\ Item(s, 2, 1257, Width(e.code))
      /\ Item(s, 3, 1360, 11) /\ Item(s, 4, 1371, w)
      /\ Item(s, 5, 1371 + w, 13) /\ Item(s, 6, 1384 + w, Width(CR3))
  BY <1>4, <1>5, <1>6, <1>7, LiteralSizes, SMT DEF Item
<1> QED
  BY <1>4, <1>5, <1>8 DEF s, w

LEMMA ToiletAscends ==
  ASSUME NEW e \in Exits
  PROVE  Ascending(ToiletLines(e))
<1> DEFINE s == ToiletLines(e)
           w == Width(CR0)
<1>1. /\ Len(s) = 6 /\ w \in Nat /\ Width(e.code) <= 8
      /\ Item(s, 1, 1200, 57) /\ Item(s, 2, 1257, Width(e.code))
      /\ Item(s, 3, 1360, 11) /\ Item(s, 4, 1371, w)
      /\ Item(s, 5, 1371 + w, 13) /\ Item(s, 6, 1384 + w, Width(CR3))
  BY ToiletItems
<1> HIDE DEF s, w
<1>2. /\ s[1].at = 1200 /\ s[2].at = 1257 /\ s[3].at = 1360 /\ s[4].at = 1371
      /\ s[5].at = 1371 + w /\ s[6].at = 1384 + w
      /\ Len(s[1].text) = 57 /\ Len(s[2].text) = Width(e.code) /\ Len(s[3].text) = 11
      /\ Len(s[4].text) = w /\ Len(s[5].text) = 13
      /\ s[1].text \in Text /\ s[2].text \in Text /\ s[3].text \in Text
      /\ s[4].text \in Text /\ s[5].text \in Text /\ s[6].text \in Text
      /\ Width(e.code) \in Nat
  BY <1>1 DEF Item, Sized
<1> DEFINE m == 6
<1>3. Len(s) = m /\ m \in Nat /\ m <= 9
  BY <1>1, SMT
<1>4. \A i \in 1..m : s[i].at \in Nat /\ s[i].text \in Text
  <2>0. /\ s[1].text \in Text /\ s[2].text \in Text /\ s[3].text \in Text
        /\ s[4].text \in Text /\ s[5].text \in Text /\ s[6].text \in Text
    BY <1>2
  <2>1. /\ s[1].at \in Nat /\ s[2].at \in Nat /\ s[3].at \in Nat /\ s[4].at \in Nat
        /\ s[5].at \in Nat /\ s[6].at \in Nat
    BY <1>1, <1>2, SMT
  <2>2. \A i \in 1..m : i = 1 \/ i = 2 \/ i = 3 \/ i = 4 \/ i = 5 \/ i = 6
    BY SMT
  <2> QED
    BY <2>0, <2>1, <2>2, Zenon
<1>5. \A i \in 1..(m - 1) : s[i].at + Len(s[i].text) <= s[i + 1].at
  <2>1. /\ s[1].at + Len(s[1].text) <= s[2].at
        /\ s[2].at + Len(s[2].text) <= s[3].at
        /\ s[3].at + Len(s[3].text) <= s[4].at
        /\ s[4].at + Len(s[4].text) <= s[5].at
        /\ s[5].at + Len(s[5].text) <= s[6].at
    BY <1>1, <1>2, SMT
  <2>2. \A i \in 1..(m - 1) : \/ (i = 1 /\ i + 1 = 2)
                              \/ (i = 2 /\ i + 1 = 3)
                              \/ (i = 3 /\ i + 1 = 4)
                              \/ (i = 4 /\ i + 1 = 5)
                              \/ (i = 5 /\ i + 1 = 6)
    BY SMT
  <2> QED
    BY <2>1, <2>2, Zenon
<1> HIDE DEF m
<1>6. Ascending(s)
  BY <1>3, <1>4, <1>5, ChainAscends, Zenon
<1> QED
  BY <1>6 DEF s

\* Where the line about an exit begins.
Begin(e) == IF e.mode.pe THEN 1 ELSE 20

LEMMA StatusItems ==
  ASSUME NEW e \in Exits, NEW n \in Dword
  PROVE  LET s == StatusLine(e, n)
             c == Begin(e)
             a == Width(n)
             b == Width(e.code)
             d == Width(e.info[1])
             f == Width(e.info[2])
         IN  /\ Len(s) = 9 /\ c \in Nat /\ c <= 20
             /\ a \in Nat /\ a <= 8 /\ b \in Nat /\ b <= 8
             /\ d \in Nat /\ d <= 8 /\ f \in Nat /\ f <= 8
             /\ Item(s, 1, c, 1) /\ Item(s, 2, c + 1, 6) /\ Item(s, 3, c + 7, a)
             /\ Item(s, 4, c + 7 + a, 8) /\ Item(s, 5, c + 15 + a, b)
             /\ Item(s, 6, c + 15 + a + b, 9) /\ Item(s, 7, c + 24 + a + b, d)
             /\ Item(s, 8, c + 24 + a + b + d, 9) /\ Item(s, 9, c + 33 + a + b + d, f)
<1> DEFINE s == StatusLine(e, n)
           c == Begin(e)
           a == Width(n)
           b == Width(e.code)
           d == Width(e.info[1])
           f == Width(e.info[2])
           t1 == Literal(IF e.mode.pe THEN "P" ELSE "R")
           t2 == Literal(IF e.mode.pg THEN "G" ELSE "n")
<1>1. s = <<At(c, t1), At(c + 1, t2), At(c + 1 + 6, Itoa(n)),
            At(c + 1 + 6 + a, Literal("Exit")), At(c + 1 + 6 + a + 8, Itoa(e.code)),
            At(c + 1 + 6 + a + 8 + b, Literal("Info1")),
            At(c + 1 + 6 + a + 8 + b + 9, Itoa(e.info[1])),
            At(c + 1 + 6 + a + 8 + b + 9 + d, Literal("Info2")),
            At(c + 1 + 6 + a + 8 + b + 9 + d + 9, Itoa(e.info[2]))>>
  BY DEF StatusLine, Begin
<1>2. e.code \in Dword /\ e.info[1] \in Dword /\ e.info[2] \in Dword
  BY SMT DEF Exits
<1>3. /\ Sized(Itoa(n), a) /\ Sized(Itoa(e.code), b)
      /\ Sized(Itoa(e.info[1]), d) /\ Sized(Itoa(e.info[2]), f)
      /\ a \in Nat /\ a <= 8 /\ b \in Nat /\ b <= 8
      /\ d \in Nat /\ d <= 8 /\ f \in Nat /\ f <= 8
  BY <1>2, NumberSizes
<1>4. Sized(t1, 1) /\ Sized(t2, 6)
  BY LiteralSizes
<1>5. c \in Nat /\ c <= 20
  BY SMT DEF Begin
<1> HIDE DEF s, a, b, c, d, f, t1, t2
<1>6. /\ Len(s) = 9
      /\ s[1] = At(c, t1) /\ s[2] = At(c + 1, t2) /\ s[3] = At(c + 7, Itoa(n))
      /\ s[4] = At(c + 7 + a, Literal("Exit")) /\ s[5] = At(c + 15 + a, Itoa(e.code))
      /\ s[6] = At(c + 15 + a + b, Literal("Info1"))
      /\ s[7] = At(c + 24 + a + b, Itoa(e.info[1]))
      /\ s[8] = At(c + 24 + a + b + d, Literal("Info2"))
      /\ s[9] = At(c + 33 + a + b + d, Itoa(e.info[2]))
  BY <1>1, <1>3, <1>5, SMT
<1>7. /\ c + 1 \in Nat /\ c + 7 \in Nat /\ c + 7 + a \in Nat /\ c + 15 + a \in Nat
      /\ c + 15 + a + b \in Nat /\ c + 24 + a + b \in Nat
      /\ c + 24 + a + b + d \in Nat /\ c + 33 + a + b + d \in Nat
  BY <1>3, <1>5, SMT
<1>8. \A p, x : At(p, x).at = p /\ At(p, x).text = x
  BY DEF At
<1>9. /\ Item(s, 1, c, 1) /\ Item(s, 2, c + 1, 6) /\ Item(s, 3, c + 7, a)
      /\ Item(s, 4, c + 7 + a, 8) /\ Item(s, 5, c + 15 + a, b)
      /\ Item(s, 6, c + 15 + a + b, 9) /\ Item(s, 7, c + 24 + a + b, d)
      /\ Item(s, 8, c + 24 + a + b + d, 9) /\ Item(s, 9, c + 33 + a + b + d, f)
  BY <1>3, <1>4, <1>5, <1>6, <1>7, <1>8, LiteralSizes, SMT DEF Item
<1> QED
  BY <1>3, <1>5, <1>6, <1>9, Zenon DEF s, a, b, c, d, f

LEMMA StatusAscends ==
  ASSUME NEW e \in Exits, NEW n \in Dword
  PROVE  Ascending(StatusLine(e, n))
<1> DEFINE s == StatusLine(e, n)
           c == Begin(e)
           a == Width(n)
           b == Width(e.code)
           d == Width(e.info[1])
           f == Width(e.info[2])
<1>1. /\ Len(s) = 9 /\ c \in Nat /\ a \in Nat /\ b \in Nat /\ d \in Nat
      /\ Item(s, 1, c, 1) /\ Item(s, 2, c + 1, 6) /\ Item(s, 3, c + 7, a)
      /\ Item(s, 4, c + 7 + a, 8) /\ Item(s, 5, c + 15 + a, b)
      /\ Item(s, 6, c + 15 + a + b, 9) /\ Item(s, 7, c + 24 + a + b, d)
      /\ Item(s, 8, c + 24 + a + b + d, 9) /\ Item(s, 9, c + 33 + a + b + d, f)
  BY StatusItems
<1> HIDE DEF s, a, b, c, d, f
<1>2. /\ s[1].at = c /\ s[2].at = c + 1 /\ s[3].at = c + 7 /\ s[4].at = c + 7 + a
      /\ s[5].at = c + 15 + a /\ s[6].at = c + 15 + a + b /\ s[7].at = c + 24 + a + b
      /\ s[8].at = c + 24 + a + b + d /\ s[9].at = c + 33 + a + b + d
      /\ Len(s[1].text) = 1 /\ Len(s[2].text) = 6 /\ Len(s[3].text) = a
      /\ Len(s[4].text) = 8 /\ Len(s[5].text) = b /\ Len(s[6].text) = 9
      /\ Len(s[7].text) = d /\ Len(s[8].text) = 9
      /\ s[1].text \in Text /\ s[2].text \in Text /\ s[3].text \in Text
      /\ s[4].text \in Text /\ s[5].text \in Text /\ s[6].text \in Text
      /\ s[7].text \in Text /\ s[8].text \in Text /\ s[9].text \in Text
  BY <1>1, Zenon DEF Item, Sized
<1> DEFINE m == 9
<1>3. Len(s) = m /\ m \in Nat /\ m <= 9
  BY <1>1, SMT
<1>4. \A i \in 1..m : s[i].at \in Nat /\ s[i].text \in Text
  <2>1. /\ s[1].at \in Nat /\ s[2].at \in Nat /\ s[3].at \in Nat /\ s[4].at \in Nat
        /\ s[5].at \in Nat /\ s[6].at \in Nat /\ s[7].at \in Nat /\ s[8].at \in Nat
        /\ s[9].at \in Nat
    BY <1>1, Zenon DEF Item
  <2>2. \A i \in 1..m : i = 1 \/ i = 2 \/ i = 3 \/ i = 4 \/ i = 5 \/ i = 6 \/ i = 7 \/ i = 8 \/ i = 9
    BY SMT
  <2> QED
    BY <1>2, <2>1, <2>2, Zenon
<1>5. \A i \in 1..(m - 1) : s[i].at + Len(s[i].text) <= s[i + 1].at
  <2>1. /\ s[1].at + Len(s[1].text) <= s[2].at
        /\ s[2].at + Len(s[2].text) <= s[3].at
        /\ s[3].at + Len(s[3].text) <= s[4].at
        /\ s[4].at + Len(s[4].text) <= s[5].at
        /\ s[5].at + Len(s[5].text) <= s[6].at
        /\ s[6].at + Len(s[6].text) <= s[7].at
        /\ s[7].at + Len(s[7].text) <= s[8].at
        /\ s[8].at + Len(s[8].text) <= s[9].at
    BY <1>1, <1>2, SMT
  <2>2. \A i \in 1..(m - 1) : \/ (i = 1 /\ i + 1 = 2)
                              \/ (i = 2 /\ i + 1 = 3)
                              \/ (i = 3 /\ i + 1 = 4)
                              \/ (i = 4 /\ i + 1 = 5)
                              \/ (i = 5 /\ i + 1 = 6)
                              \/ (i = 6 /\ i + 1 = 7)
                              \/ (i = 7 /\ i + 1 = 8)
                              \/ (i = 8 /\ i + 1 = 9)
    BY SMT
  <2> QED
    BY <2>1, <2>2, ZenonT(30)
<1> HIDE DEF m
<1>6. Ascending(s)
  BY <1>3, <1>4, <1>5, ChainAscends, Zenon
<1> QED
  BY <1>6 DEF s
-----------------------------------------------------------------------------
(* The invariant: what can be read when the next string is due, and where   *)
(* the cursor stands.                                                       *)

CursorOK ==
  /\ cursor_x \in 0..159 /\ cursor_y \in 0..(Rows - 1) /\ cursorLocation \in 0..(Word - 1)
  /\ VideoOK

ControlOK ==
  /\ gInterceptCount \in 0..MaxExits
  /\ pc \in {"clear", "entering"} => gInterceptCount = 0
  /\ pc \in {"mode", "paging", "count"} => gInterceptCount < MaxExits
  /\ exit \in Exits
  /\ pc \in Writing \cup {"clear", "guest", "stop"}
  /\ trap \in Traps \cup {NoTrap}
  /\ pc \in Report => trap # NoTrap
  /\ pc \notin Report \cup {"stop"} => trap = NoTrap

CursorAt(y, x) == cursor_y = y /\ cursor_x = x

\* The number of the latest exit.
Count == IF pc \in {"mode", "paging", "count"} THEN gInterceptCount + 1 ELSE gInterceptCount

StatusDue ==
  LET s == StatusLine(exit, Count)
  IN  /\ pc = "paging" => Legible(video, s, 1) /\ CursorAt(0, s[2].at)
      /\ pc = "count" => Legible(video, s, 2) /\ CursorAt(0, s[3].at)
      /\ pc = "exit" => Legible(video, s, 3) /\ CursorAt(0, s[4].at)
      /\ pc = "code" => Legible(video, s, 4) /\ CursorAt(0, s[5].at)
      /\ pc = "info1" => Legible(video, s, 5) /\ CursorAt(0, s[6].at)
      /\ pc = "value1" => Legible(video, s, 6) /\ CursorAt(0, s[7].at)
      /\ pc = "info2" => Legible(video, s, 7) /\ CursorAt(0, s[8].at)
      /\ pc = "value2" => Legible(video, s, 8) /\ CursorAt(0, s[9].at)
      /\ pc = "guest" /\ gInterceptCount > 0 => Legible(video, s, 9)

\* Which reason the visor gives up for, and that it can be read.
ReasonDue ==
  /\ pc = "shutdown" => exit.code = SHUTDOWN /\ cursor_y = 0 /\ cursor_x <= 85
  /\ pc = "hlt" => exit.code = HLT
  /\ pc = "nmi" => exit.code = NMI
  /\ pc \in {"unknown", "unknown code"} => exit.code = INVALID
  /\ pc = "unknown code" => Stands(video, 160, Literal("Unknown")) /\ CursorAt(2, 19)

Reason ==
  /\ exit.code = SHUTDOWN => \E c \in 0..85 : Stands(video, c, Literal("Shutdown"))
  /\ exit.code = HLT => Stands(video, 80, Literal("Halted"))
  /\ exit.code = NMI => Stands(video, 80, Literal("Nmi"))
  /\ exit.code = INVALID =>
       Stands(video, 160, Literal("Unknown")) /\ Stands(video, 179, Itoa(exit.code))

Toilet == {"toilet", "toilet code", "cr0", "cr0 value", "cr3", "cr3 value"}

ToiletDue ==
  LET s == ToiletLines(exit)
  IN  /\ pc \in Toilet \/ (pc = "stop" /\ trap = NoTrap) => Reason
      /\ pc = "toilet code" => Legible(video, s, 1) /\ CursorAt(15, 57)
      /\ pc = "cr0" => Legible(video, s, 2)
      /\ pc = "cr0 value" => Legible(video, s, 3) /\ CursorAt(17, 11)
      /\ pc = "cr3" => Legible(video, s, 4) /\ CursorAt(17, 11 + Width(CR0))
      /\ pc = "cr3 value" => Legible(video, s, 5) /\ CursorAt(17, 24 + Width(CR0))
      /\ pc = "stop" /\ trap = NoTrap => Legible(video, s, 6)

ReportDue ==
  LET s == ReportLine(Told)
  IN  /\ pc = "exc cs" => Legible(video, s, 1) /\ CursorAt(16, 50)
      /\ pc = "exc colon" => Legible(video, s, 2) /\ CursorAt(16, 50 + Width(Told[1]))
      /\ pc = "exc ip" => Legible(video, s, 3) /\ CursorAt(16, 51 + Width(Told[1]))
      /\ pc = "stop" /\ trap # NoTrap => Legible(video, s, 4)

SInv == CursorOK /\ ControlOK /\ StatusDue /\ ReasonDue /\ ToiletDue /\ ReportDue
-----------------------------------------------------------------------------
(* The string that is due: where it goes, and that it fits into its row.    *)

Prepared(x, y, t, next) ==
  /\ Write(pc) = Call(<<x, y>>, t, next)
  /\ x \in Nat /\ y \in Nat /\ t \in Text /\ x + Len(t) < 160 /\ y < 24

\* The definition of Write, string by string.
LEMMA StatusScript ==
  /\ Write("mode") = Call(ModeAt, ModeText, "paging")
  /\ Write("paging") = Call(Here, PagingText, "count")
  /\ Write("count") = Call(Here, Itoa(gInterceptCount + 1), "exit")
  /\ Write("exit") = Call(Here, Literal("Exit"), "code")
  /\ Write("code") = Call(Here, Itoa(exit.code), "info1")
  /\ Write("info1") = Call(Here, Literal("Info1"), "value1")
  /\ Write("value1") = Call(Here, Itoa(exit.info[1]), "info2")
  /\ Write("info2") = Call(Here, Literal("Info2"), "value2")
  /\ Write("value2") = Call(Here, Itoa(exit.info[2]), Dispatch(exit))
BY SMT DEF Write

LEMMA ReasonScript ==
  /\ Write("entering") = Call(<<0, 1>>, Literal("Entering"), "guest")
  /\ Write("shutdown") = Call(Here, Literal("Shutdown"), "toilet")
  /\ Write("hlt") = Call(<<0, 1>>, Literal("Halted"), "toilet")
  /\ Write("nmi") = Call(<<0, 1>>, Literal("Nmi"), "toilet")
  /\ Write("unknown") = Call(<<0, 2>>, Literal("Unknown"), "unknown code")
  /\ Write("unknown code") = Call(Here, Itoa(exit.code), "toilet")
BY SMT DEF Write

LEMMA ToiletScript ==
  /\ Write("toilet") = Call(<<0, 15>>, Literal("Toilet"), "toilet code")
  /\ Write("toilet code") = Call(Here, Itoa(exit.code), "cr0")
  /\ Write("cr0") = Call(<<0, 17>>, Literal("CR0value"), "cr0 value")
  /\ Write("cr0 value") = Call(Here, Itoa(CR0), "cr3")
  /\ Write("cr3") = Call(Here, Literal("CR3value"), "cr3 value")
  /\ Write("cr3 value") = Call(Here, Itoa(CR3), "stop")
BY SMT DEF Write, CRValueAt

LEMMA ReportScript ==
  /\ Write("exception") = Call(<<0, 16>>, Literal("Exception"), "exc cs")
  /\ Write("exc cs") = Call(Here, Itoa(Told[1]), "exc colon")
  /\ Write("exc colon") = Call(Here, Literal("Colon"), "exc ip")
  /\ Write("exc ip") = Call(Here, Itoa(Told[2]), "stop")
BY SMT DEF Write, ReportAt, Told

LEMMA Prepare ==
  ASSUME NEW x \in Nat, NEW y \in Nat, NEW t, NEW n \in Nat, NEW next,
         Sized(t, n), x + n < 160, y < 24, Write(pc) = Call(<<x, y>>, t, next)
  PROVE  Prepared(x, y, t, next)
BY DEF Prepared, Sized

LEMMA StatusPrepared ==
  ASSUME SInv
  PROVE  LET s == StatusLine(exit, Count)
         IN  /\ pc = "mode" => Prepared(s[1].at, 0, s[1].text, "paging")
             /\ pc = "paging" => Prepared(s[2].at, 0, s[2].text, "count")
             /\ pc = "count" => Prepared(s[3].at, 0, s[3].text, "exit")
             /\ pc = "exit" => Prepared(s[4].at, 0, s[4].text, "code")
             /\ pc = "code" => Prepared(s[5].at, 0, s[5].text, "info1")
             /\ pc = "info1" => Prepared(s[6].at, 0, s[6].text, "value1")
             /\ pc = "value1" => Prepared(s[7].at, 0, s[7].text, "info2")
             /\ pc = "info2" => Prepared(s[8].at, 0, s[8].text, "value2")
             /\ pc = "value2" => Prepared(s[9].at, 0, s[9].text, Dispatch(exit))
<1> DEFINE s == StatusLine(exit, Count)
           c == Begin(exit)
           a == Width(Count)
           b == Width(exit.code)
           d == Width(exit.info[1])
           f == Width(exit.info[2])
<1>1. exit \in Exits /\ Count \in Dword
  BY ScreenAssumption, DwordAssumption, SMT DEF SInv, ControlOK, Count, Dword
<1>2. /\ Len(s) = 9 /\ c \in Nat /\ c <= 20
      /\ a \in Nat /\ a <= 8 /\ b \in Nat /\ b <= 8
      /\ d \in Nat /\ d <= 8 /\ f \in Nat /\ f <= 8
      /\ Item(s, 1, c, 1) /\ Item(s, 2, c + 1, 6) /\ Item(s, 3, c + 7, a)
      /\ Item(s, 4, c + 7 + a, 8) /\ Item(s, 5, c + 15 + a, b)
      /\ Item(s, 6, c + 15 + a + b, 9) /\ Item(s, 7, c + 24 + a + b, d)
      /\ Item(s, 8, c + 24 + a + b + d, 9) /\ Item(s, 9, c + 33 + a + b + d, f)
  BY <1>1, StatusItems
<1>3. /\ s[1].text = ModeText /\ s[2].text = PagingText
      /\ s[3].text = Itoa(Count) /\ s[4].text = Literal("Exit") /\ s[5].text = Itoa(exit.code)
      /\ s[6].text = Literal("Info1") /\ s[7].text = Itoa(exit.info[1])
      /\ s[8].text = Literal("Info2") /\ s[9].text = Itoa(exit.info[2])
  BY DEF StatusLine, At, ModeText, PagingText
<1>4. ModeAt = <<c, 0>>
  BY DEF ModeAt, Begin
<1> HIDE DEF s, a, b, c, d, f
<1>5. ASSUME NEW i \in 1..9
      PROVE  s[i].at \in Nat /\ s[i].text \in Text /\ s[i].at + Len(s[i].text) < 160
  <2>1. i = 1 \/ i = 2 \/ i = 3 \/ i = 4 \/ i = 5 \/ i = 6 \/ i = 7 \/ i = 8 \/ i = 9
    BY SMT
  <2>2. Len(s) = 9 /\ s[i].at \in Nat /\ s[i].text \in Text
    BY <1>1, <1>2, StatusAscends DEF s, Ascending
  <2>3. /\ s[1].at = c /\ s[2].at = c + 1 /\ s[3].at = c + 7 /\ s[4].at = c + 7 + a
        /\ s[5].at = c + 15 + a /\ s[6].at = c + 15 + a + b /\ s[7].at = c + 24 + a + b
        /\ s[8].at = c + 24 + a + b + d /\ s[9].at = c + 33 + a + b + d
        /\ Len(s[1].text) = 1 /\ Len(s[2].text) = 6 /\ Len(s[3].text) = a
        /\ Len(s[4].text) = 8 /\ Len(s[5].text) = b /\ Len(s[6].text) = 9
        /\ Len(s[7].text) = d /\ Len(s[8].text) = 9 /\ Len(s[9].text) = f
    BY <1>2, Zenon DEF Item, Sized
  <2>4. /\ s[1].at + Len(s[1].text) < 160 /\ s[2].at + Len(s[2].text) < 160
        /\ s[3].at + Len(s[3].text) < 160 /\ s[4].at + Len(s[4].text) < 160
        /\ s[5].at + Len(s[5].text) < 160 /\ s[6].at + Len(s[6].text) < 160
        /\ s[7].at + Len(s[7].text) < 160 /\ s[8].at + Len(s[8].text) < 160
        /\ s[9].at + Len(s[9].text) < 160
    BY <1>2, <2>3, SMT
  <2> QED
    BY <2>1, <2>2, <2>4, Zenon
<1>6. /\ pc = "mode" => Write(pc) = Call(ModeAt, ModeText, "paging")
      /\ pc = "paging" => Write(pc) = Call(Here, PagingText, "count")
      /\ pc = "count" => Write(pc) = Call(Here, Itoa(gInterceptCount + 1), "exit")
      /\ pc = "exit" => Write(pc) = Call(Here, Literal("Exit"), "code")
      /\ pc = "code" => Write(pc) = Call(Here, Itoa(exit.code), "info1")
      /\ pc = "info1" => Write(pc) = Call(Here, Literal("Info1"), "value1")
      /\ pc = "value1" => Write(pc) = Call(Here, Itoa(exit.info[1]), "info2")
      /\ pc = "info2" => Write(pc) = Call(Here, Literal("Info2"), "value2")
      /\ pc = "value2" => Write(pc) = Call(Here, Itoa(exit.info[2]), Dispatch(exit))
  BY StatusScript
<1>7. /\ pc = "paging" => Here = <<s[2].at, 0>>
      /\ pc = "count" => Here = <<s[3].at, 0>>
      /\ pc = "exit" => Here = <<s[4].at, 0>>
      /\ pc = "code" => Here = <<s[5].at, 0>>
      /\ pc = "info1" => Here = <<s[6].at, 0>>
      /\ pc = "value1" => Here = <<s[7].at, 0>>
      /\ pc = "info2" => Here = <<s[8].at, 0>>
      /\ pc = "value2" => Here = <<s[9].at, 0>>
  BY DEF SInv, StatusDue, CursorAt, Here, s
<1>8. pc = "count" => Count = gInterceptCount + 1
  BY DEF Count
<1>9. s[1].at = c
  BY <1>2 DEF Item
<1>10. 0 \in Nat /\ 0 < 24
  BY SMT
<1>11. 1 \in 1..9 /\ 2 \in 1..9 /\ 3 \in 1..9 /\ 4 \in 1..9 /\ 5 \in 1..9 /\ 6 \in 1..9
       /\ 7 \in 1..9 /\ 8 \in 1..9 /\ 9 \in 1..9
  BY SMT
<1>12. pc = "mode" => Prepared(s[1].at, 0, s[1].text, "paging")
  BY <1>3, <1>4, <1>5, <1>6, <1>9, <1>10, <1>11, Zenon DEF Prepared
<1>13. /\ pc = "paging" => Prepared(s[2].at, 0, s[2].text, "count")
       /\ pc = "count" => Prepared(s[3].at, 0, s[3].text, "exit")
       /\ pc = "exit" => Prepared(s[4].at, 0, s[4].text, "code")
       /\ pc = "code" => Prepared(s[5].at, 0, s[5].text, "info1")
  BY <1>3, <1>5, <1>6, <1>7, <1>8, <1>10, <1>11, Zenon DEF Prepared
<1>14. /\ pc = "info1" => Prepared(s[6].at, 0, s[6].text, "value1")
       /\ pc = "value1" => Prepared(s[7].at, 0, s[7].text, "info2")
       /\ pc = "info2" => Prepared(s[8].at, 0, s[8].text, "value2")
       /\ pc = "value2" => Prepared(s[9].at, 0, s[9].text, Dispatch(exit))
  BY <1>3, <1>5, <1>6, <1>7, <1>10, <1>11, Zenon DEF Prepared
<1> QED
  BY <1>12, <1>13, <1>14 DEF s

LEMMA LastWordsPrepared ==
  ASSUME SInv
  PROVE  LET s == ToiletLines(exit)
         IN  /\ pc = "entering" => Prepared(0, 1, Literal("Entering"), "guest")
             /\ pc = "shutdown" => Prepared(cursor_x, 0, Literal("Shutdown"), "toilet")
             /\ pc = "hlt" => Prepared(0, 1, Literal("Halted"), "toilet")
             /\ pc = "nmi" => Prepared(0, 1, Literal("Nmi"), "toilet")
             /\ pc = "unknown" => Prepared(0, 2, Literal("Unknown"), "unknown code")
             /\ pc = "unknown code" => Prepared(19, 2, Itoa(exit.code), "toilet")
             /\ pc = "toilet" => Prepared(0, 15, s[1].text, "toilet code")
             /\ pc = "toilet code" => Prepared(57, 15, s[2].text, "cr0")
             /\ pc = "cr0" => Prepared(0, 17, s[3].text, "cr0 value")
             /\ pc = "cr0 value" => Prepared(11, 17, s[4].text, "cr3")
             /\ pc = "cr3" => Prepared(11 + Width(CR0), 17, s[5].text, "cr3 value")
             /\ pc = "cr3 value" => Prepared(24 + Width(CR0), 17, s[6].text, "stop")
<1> DEFINE s == ToiletLines(exit)
           w == Width(CR0)
           b == Width(exit.code)
           r == Width(CR3)
<1>1. exit \in Exits /\ exit.code \in Dword
  BY SMT DEF SInv, ControlOK, Exits
<1>2. /\ s[1].text = Literal("Toilet") /\ s[2].text = Itoa(exit.code)
      /\ s[3].text = Literal("CR0value") /\ s[4].text = Itoa(CR0)
      /\ s[5].text = Literal("CR3value") /\ s[6].text = Itoa(CR3)
  BY DEF ToiletLines, At
<1>3. /\ CR0 \in Dword /\ CR3 \in Dword
  BY ScreenAssumption DEF Dword
<1>4. /\ Sized(Itoa(exit.code), b) /\ Sized(Itoa(CR0), w) /\ Sized(Itoa(CR3), r)
      /\ b \in Nat /\ b <= 8 /\ w \in Nat /\ w <= 8 /\ r \in Nat /\ r <= 8
  BY <1>1, <1>3, NumberSizes
<1> HIDE DEF s, w, b, r
<1>5. /\ 11 + w \in Nat /\ 24 + w \in Nat /\ 19 + b < 160 /\ 57 + b < 160 /\ 11 + w < 160
      /\ 11 + w + 13 < 160 /\ 24 + w + r < 160
  BY <1>4, SMT
<1>6. /\ pc = "unknown code" => Here = <<19, 2>>
      /\ pc = "toilet code" => Here = <<57, 15>>
      /\ pc = "cr0 value" => Here = <<11, 17>>
      /\ pc = "cr3" => Here = <<11 + w, 17>>
      /\ pc = "cr3 value" => Here = <<24 + w, 17>>
      /\ pc = "shutdown" => Here = <<cursor_x, 0>>
  BY DEF SInv, ReasonDue, ToiletDue, CursorAt, Here, w
<1>7. pc = "shutdown" => cursor_x \in Nat /\ cursor_x + 47 < 160
  <2>1. cursor_x \in Nat
    BY SMT DEF SInv, CursorOK
  <2>2. pc = "shutdown" => cursor_x <= 85
    BY DEF SInv, ReasonDue
  <2> QED
    BY <2>1, <2>2, SMT
<1>8. /\ pc = "entering" => Write(pc) = Call(<<0, 1>>, Literal("Entering"), "guest")
      /\ pc = "shutdown" => Write(pc) = Call(<<cursor_x, 0>>, Literal("Shutdown"), "toilet")
      /\ pc = "hlt" => Write(pc) = Call(<<0, 1>>, Literal("Halted"), "toilet")
      /\ pc = "nmi" => Write(pc) = Call(<<0, 1>>, Literal("Nmi"), "toilet")
      /\ pc = "unknown" => Write(pc) = Call(<<0, 2>>, Literal("Unknown"), "unknown code")
      /\ pc = "unknown code" => Write(pc) = Call(<<19, 2>>, Itoa(exit.code), "toilet")
  BY <1>6, ReasonScript
<1>9. /\ pc = "toilet" => Write(pc) = Call(<<0, 15>>, s[1].text, "toilet code")
      /\ pc = "toilet code" => Write(pc) = Call(<<57, 15>>, s[2].text, "cr0")
      /\ pc = "cr0" => Write(pc) = Call(<<0, 17>>, s[3].text, "cr0 value")
      /\ pc = "cr0 value" => Write(pc) = Call(<<11, 17>>, s[4].text, "cr3")
      /\ pc = "cr3" => Write(pc) = Call(<<11 + w, 17>>, s[5].text, "cr3 value")
      /\ pc = "cr3 value" => Write(pc) = Call(<<24 + w, 17>>, s[6].text, "stop")
  BY <1>2, <1>6, ToiletScript
<1>10. /\ Sized(s[1].text, 57) /\ Sized(s[2].text, b) /\ Sized(s[3].text, 11)
       /\ Sized(s[4].text, w) /\ Sized(s[5].text, 13) /\ Sized(s[6].text, r)
  BY <1>2, <1>4, LiteralSizes
<1>11. /\ 0 \in Nat /\ 1 \in Nat /\ 2 \in Nat /\ 15 \in Nat /\ 17 \in Nat
       /\ 0 < 24 /\ 1 < 24 /\ 2 < 24 /\ 15 < 24 /\ 17 < 24
       /\ 11 \in Nat /\ 13 \in Nat /\ 19 \in Nat /\ 27 \in Nat /\ 37 \in Nat
       /\ 47 \in Nat /\ 57 \in Nat
       /\ 0 + 37 < 160 /\ 0 + 27 < 160 /\ 0 + 47 < 160 /\ 0 + 19 < 160
       /\ 0 + 57 < 160 /\ 0 + 11 < 160
  BY SMT
<1>12. /\ pc = "entering" => Prepared(0, 1, Literal("Entering"), "guest")
       /\ pc = "hlt" => Prepared(0, 1, Literal("Halted"), "toilet")
       /\ pc = "nmi" => Prepared(0, 1, Literal("Nmi"), "toilet")
       /\ pc = "unknown" => Prepared(0, 2, Literal("Unknown"), "unknown code")
  <2>1. pc = "entering" => Prepared(0, 1, Literal("Entering"), "guest")
    BY <1>8, <1>11, LiteralSizes, Prepare, ZenonT(30)
  <2>2. pc = "hlt" => Prepared(0, 1, Literal("Halted"), "toilet")
    BY <1>8, <1>11, LiteralSizes, Prepare, ZenonT(30)
  <2>3. pc = "nmi" => Prepared(0, 1, Literal("Nmi"), "toilet")
    BY <1>8, <1>11, LiteralSizes, Prepare, ZenonT(30)
  <2>4. pc = "unknown" => Prepared(0, 2, Literal("Unknown"), "unknown code")
    BY <1>8, <1>11, LiteralSizes, Prepare, ZenonT(30)
  <2> QED
    BY <2>1, <2>2, <2>3, <2>4
<1>13. pc = "shutdown" => Prepared(cursor_x, 0, Literal("Shutdown"), "toilet")
  BY <1>7, <1>8, <1>11, LiteralSizes, Prepare
<1>14. pc = "unknown code" => Prepared(19, 2, Itoa(exit.code), "toilet")
  BY <1>4, <1>5, <1>8, <1>11, Prepare
<1>15. /\ pc = "toilet" => Prepared(0, 15, s[1].text, "toilet code")
       /\ pc = "toilet code" => Prepared(57, 15, s[2].text, "cr0")
       /\ pc = "cr0" => Prepared(0, 17, s[3].text, "cr0 value")
  BY <1>4, <1>5, <1>9, <1>10, <1>11, Prepare
<1>16. /\ pc = "cr0 value" => Prepared(11, 17, s[4].text, "cr3")
       /\ pc = "cr3" => Prepared(11 + w, 17, s[5].text, "cr3 value")
       /\ pc = "cr3 value" => Prepared(24 + w, 17, s[6].text, "stop")
  BY <1>4, <1>5, <1>9, <1>10, <1>11, Prepare
<1> QED
  BY <1>12, <1>13, <1>14, <1>15, <1>16, Zenon DEF s, w

\* What a word keeps of a number.
LEMMA LowWord ==
  ASSUME NEW v \in Nat
  PROVE  v % Word \in 0..(Word - 1) /\ (v < Word => v % Word = v)
<1>1. v % Word \in 0..(Word - 1)
  BY Z3 DEF Word
<1>2. v < Word => v % Word = v
  BY Z3 DEF Word
<1> QED
  BY <1>1, <1>2

\* Whatever the frame, words are reported.
LEMMA TrapDwords ==
  ASSUME ControlOK
  PROVE  Told \in Dword \X Dword
<1>1. 0..(Word - 1) \subseteq Dword
  <2>1. Word \in Nat /\ MaxDword \in Nat /\ Word <= MaxDword
    BY DwordAssumption, SMT DEF Word
  <2> QED
    BY <2>1, SMT DEF Dword
<1>2. trap \in [cs : 0..(Word - 1), ip : 0..MaxDword, err : (0..(Word - 1)) \cup {NoCode}]
  <2>1. 0 \in 0..(Word - 1) /\ 0 \in 0..MaxDword /\ 1..(Word - 1) \subseteq 0..(Word - 1)
    <3>1. MaxDword \in Nat
      BY DwordAssumption
    <3>2. \A c \in 1..(Word - 1) : c \in 0..(Word - 1)
      <4>1. \A n \in Nat : \A c \in 1..n : c \in 0..n
        BY SMT
      <4>2. Word - 1 \in Nat
        BY SMT DEF Word
      <4> QED
        BY <4>1, <4>2, Zenon
    <3>3. 0 \in 0..(Word - 1) /\ 0 \in 0..MaxDword
      BY <3>1, SMT DEF Word
    <3> QED
      BY <3>2, <3>3, Zenon
  <2>2. NoTrap \in [cs : 0..(Word - 1), ip : 0..MaxDword, err : (0..(Word - 1)) \cup {NoCode}]
    BY <2>1, Zenon DEF NoTrap
  <2>3. ASSUME NEW t \in Traps
        PROVE  t \in [cs : 0..(Word - 1), ip : 0..MaxDword, err : (0..(Word - 1)) \cup {NoCode}]
    <3>1. t \in [cs : 1..(Word - 1), ip : 0..MaxDword, err : (0..(Word - 1)) \cup {NoCode}]
      BY <2>3, ScreenAssumption, Zenon
    <3> QED
      BY <2>1, <3>1, SMT
  <2> QED
    BY <2>2, <2>3, Zenon DEF ControlOK
<1>3. At4(trap) \in Nat /\ At8(trap) \in Nat
  <2>1. /\ trap.cs \in Nat /\ trap.ip \in Nat
        /\ trap.err # NoCode => trap.err \in Nat
    <3>1. /\ trap.cs \in 0..(Word - 1) /\ trap.ip \in 0..MaxDword
          /\ trap.err \in (0..(Word - 1)) \cup {NoCode}
      BY <1>2, SMT
    <3>2. MaxDword \in Nat /\ \A c \in 0..(Word - 1) : c \in Nat
      BY DwordAssumption, SMT DEF Word
    <3> QED
      BY <3>1, <3>2, SMT
  <2> QED
    BY <2>1, Zenon DEF At4, At8
<1>4. ExcCS(trap) \in 0..(Word - 1) /\ ExcIP(trap) \in 0..(Word - 1)
  BY <1>3, LowWord, Zenon DEF ExcCS, ExcIP
<1> QED
  BY <1>1, <1>4, SMT DEF Told

LEMMA ReportPrepared ==
  ASSUME SInv
  PROVE  LET s == ReportLine(Told)
             w == Width(Told[1])
         IN  /\ pc = "exception" => Prepared(0, 16, s[1].text, "exc cs")
             /\ pc = "exc cs" => Prepared(50, 16, s[2].text, "exc colon")
             /\ pc = "exc colon" => Prepared(50 + w, 16, s[3].text, "exc ip")
             /\ pc = "exc ip" => Prepared(51 + w, 16, s[4].text, "stop")
<1> DEFINE s == ReportLine(Told)
           w == Width(Told[1])
           r == Width(Told[2])
<1>1. Told[1] \in Dword /\ Told[2] \in Dword
  BY TrapDwords, SMT DEF SInv
<1>2. /\ s[1].text = Literal("Exception") /\ s[2].text = Itoa(Told[1])
      /\ s[3].text = Literal("Colon") /\ s[4].text = Itoa(Told[2])
  BY DEF ReportLine, At
<1>3. /\ Sized(Itoa(Told[1]), w) /\ Sized(Itoa(Told[2]), r)
      /\ w \in Nat /\ w <= 8 /\ r \in Nat /\ r <= 8
  BY <1>1, NumberSizes
<1> HIDE DEF s, w, r
<1>4. /\ 50 + w \in Nat /\ 51 + w \in Nat /\ 50 + w < 160 /\ 50 + w + 1 < 160
      /\ 51 + w + r < 160
  BY <1>3, SMT
<1>5. /\ pc = "exc cs" => Here = <<50, 16>>
      /\ pc = "exc colon" => Here = <<50 + w, 16>>
      /\ pc = "exc ip" => Here = <<51 + w, 16>>
  BY DEF SInv, ReportDue, CursorAt, Here, w
<1>6. /\ pc = "exception" => Write(pc) = Call(<<0, 16>>, s[1].text, "exc cs")
      /\ pc = "exc cs" => Write(pc) = Call(<<50, 16>>, s[2].text, "exc colon")
      /\ pc = "exc colon" => Write(pc) = Call(<<50 + w, 16>>, s[3].text, "exc ip")
      /\ pc = "exc ip" => Write(pc) = Call(<<51 + w, 16>>, s[4].text, "stop")
  BY <1>2, <1>5, ReportScript
<1>7. /\ Sized(s[1].text, 50) /\ Sized(s[2].text, w)
      /\ Sized(s[3].text, 1) /\ Sized(s[4].text, r)
  BY <1>2, <1>3, LiteralSizes
<1>8. /\ 0 \in Nat /\ 1 \in Nat /\ 16 \in Nat /\ 16 < 24 /\ 50 \in Nat /\ 0 + 50 < 160
  BY SMT
<1>9. /\ pc = "exception" => Prepared(0, 16, s[1].text, "exc cs")
      /\ pc = "exc cs" => Prepared(50, 16, s[2].text, "exc colon")
      /\ pc = "exc colon" => Prepared(50 + w, 16, s[3].text, "exc ip")
      /\ pc = "exc ip" => Prepared(51 + w, 16, s[4].text, "stop")
  BY <1>3, <1>4, <1>6, <1>7, <1>8, Prepare
<1> QED
  BY <1>9 DEF s, w

\* Every string fits into its row.
LEMMA AlwaysFits ==
  ASSUME SInv, pc \in Writing
  PROVE  \E x, y, t, next : Prepared(x, y, t, next)
<1>1. pc \in Status => \E x, y, t, next : Prepared(x, y, t, next)
  BY StatusPrepared, Zenon DEF Status
<1>2. pc \in {"entering"} \cup LastWords => \E x, y, t, next : Prepared(x, y, t, next)
  BY LastWordsPrepared, Zenon DEF LastWords
<1>3. pc \in Report => \E x, y, t, next : Prepared(x, y, t, next)
  BY ReportPrepared, Zenon DEF Report
<1> QED
  BY <1>1, <1>2, <1>3 DEF Writing
-----------------------------------------------------------------------------
(* Steps of the visor.                                                      *)

LEMMA WritesText ==
  ASSUME SInv, VisorWrites, NEW x, NEW y, NEW t, NEW next, Prepared(x, y, t, next)
  PROVE  /\ CursorOK' /\ cursor_x' = x + Len(t) /\ cursor_y' = y /\ pc' = next
         /\ Spared(video, video', y * 80 + x, Len(t)) /\ Stands(video', y * 80 + x, t)
<1>1. Write(pc).at = <<x, y>> /\ Write(pc).text = t /\ Write(pc).next = next
  BY DEF Prepared, Call
<1>2. MonitorWrite(<<x, y>>, t) /\ pc' = next
  BY <1>1 DEF VisorWrites
<1>3. VideoOK
  BY DEF SInv, CursorOK
<1> QED
  BY <1>2, <1>3, WrittenWhole DEF Prepared, CursorOK

LEMMA NextOf ==
  ASSUME NEW l, NEW at, NEW t, NEW next, Write(l) = Call(at, t, next)
  PROVE  Write(l).next = next
BY DEF Call

LEMMA WritesNext ==
  ASSUME VisorWrites
  PROVE  /\ pc \in Writing /\ UNCHANGED <<exit, trap>>
         /\ pc = "entering" => pc' = "guest"
         /\ pc = "mode" => pc' = "paging"
         /\ pc = "paging" => pc' = "count"
         /\ pc = "count" => pc' = "exit"
         /\ pc = "exit" => pc' = "code"
         /\ pc = "code" => pc' = "info1"
         /\ pc = "info1" => pc' = "value1"
         /\ pc = "value1" => pc' = "info2"
         /\ pc = "info2" => pc' = "value2"
         /\ pc = "value2" => pc' = Dispatch(exit)
         /\ pc \in {"shutdown", "hlt", "nmi", "unknown code"} => pc' = "toilet"
         /\ pc = "unknown" => pc' = "unknown code"
         /\ pc = "toilet" => pc' = "toilet code"
         /\ pc = "toilet code" => pc' = "cr0"
         /\ pc = "cr0" => pc' = "cr0 value"
         /\ pc = "cr0 value" => pc' = "cr3"
         /\ pc = "cr3" => pc' = "cr3 value"
         /\ pc = "cr3 value" => pc' = "stop"
         /\ pc = "exception" => pc' = "exc cs"
         /\ pc = "exc cs" => pc' = "exc colon"
         /\ pc = "exc colon" => pc' = "exc ip"
         /\ pc = "exc ip" => pc' = "stop"
<1>1. pc \in Writing /\ UNCHANGED <<exit, trap>> /\ pc' = Write(pc).next
  BY DEF VisorWrites
<1>2. /\ pc = "entering" => pc' = "guest"
      /\ pc \in {"shutdown", "hlt", "nmi", "unknown code"} => pc' = "toilet"
      /\ pc = "unknown" => pc' = "unknown code"
      /\ pc = "toilet" => pc' = "toilet code"
      /\ pc = "toilet code" => pc' = "cr0"
      /\ pc = "cr0" => pc' = "cr0 value"
      /\ pc = "cr0 value" => pc' = "cr3"
      /\ pc = "cr3" => pc' = "cr3 value"
      /\ pc = "cr3 value" => pc' = "stop"
  <2>1. Write("entering").next = "guest"
    BY ReasonScript, NextOf
  <2>2. Write("shutdown").next = "toilet"
    BY ReasonScript, NextOf
  <2>3. Write("hlt").next = "toilet"
    BY ReasonScript, NextOf
  <2>4. Write("nmi").next = "toilet"
    BY ReasonScript, NextOf
  <2>5. Write("unknown").next = "unknown code"
    BY ReasonScript, NextOf
  <2>6. Write("unknown code").next = "toilet"
    BY ReasonScript, NextOf
  <2>7. Write("toilet").next = "toilet code"
    BY ToiletScript, NextOf
  <2>8. Write("toilet code").next = "cr0"
    BY ToiletScript, NextOf
  <2>9. Write("cr0").next = "cr0 value"
    BY ToiletScript, NextOf
  <2>10. Write("cr0 value").next = "cr3"
    BY ToiletScript, NextOf
  <2>11. Write("cr3").next = "cr3 value"
    BY ToiletScript, NextOf
  <2>12. Write("cr3 value").next = "stop"
    BY ToiletScript, NextOf
  <2> QED
    BY <1>1, <2>1, <2>2, <2>3, <2>4, <2>5, <2>6, <2>7, <2>8, <2>9, <2>10, <2>11, <2>12, Zenon
<1>3. /\ pc = "mode" => pc' = "paging"
      /\ pc = "paging" => pc' = "count"
      /\ pc = "count" => pc' = "exit"
      /\ pc = "exit" => pc' = "code"
      /\ pc = "code" => pc' = "info1"
      /\ pc = "info1" => pc' = "value1"
      /\ pc = "value1" => pc' = "info2"
      /\ pc = "info2" => pc' = "value2"
      /\ pc = "value2" => pc' = Dispatch(exit)
  <2>1. Write("mode").next = "paging"
    BY StatusScript, NextOf
  <2>2. Write("paging").next = "count"
    BY StatusScript, NextOf
  <2>3. Write("count").next = "exit"
    BY StatusScript, NextOf
  <2>4. Write("exit").next = "code"
    BY StatusScript, NextOf
  <2>5. Write("code").next = "info1"
    BY StatusScript, NextOf
  <2>6. Write("info1").next = "value1"
    BY StatusScript, NextOf
  <2>7. Write("value1").next = "info2"
    BY StatusScript, NextOf
  <2>8. Write("info2").next = "value2"
    BY StatusScript, NextOf
  <2>9. Write("value2").next = Dispatch(exit)
    BY StatusScript, NextOf
  <2> QED
    BY <1>1, <2>1, <2>2, <2>3, <2>4, <2>5, <2>6, <2>7, <2>8, <2>9, Zenon
<1>4. /\ pc = "exception" => pc' = "exc cs"
      /\ pc = "exc cs" => pc' = "exc colon"
      /\ pc = "exc colon" => pc' = "exc ip"
      /\ pc = "exc ip" => pc' = "stop"
  <2>1. Write("exception").next = "exc cs"
    BY ReportScript, NextOf
  <2>2. Write("exc cs").next = "exc colon"
    BY ReportScript, NextOf
  <2>3. Write("exc colon").next = "exc ip"
    BY ReportScript, NextOf
  <2>4. Write("exc ip").next = "stop"
    BY ReportScript, NextOf
  <2> QED
    BY <1>1, <2>1, <2>2, <2>3, <2>4, Zenon
<1> QED
  BY <1>1, <1>2, <1>3, <1>4, Zenon

LEMMA Dispatched ==
  ASSUME NEW e
  PROVE  /\ Dispatch(e) \in {"shutdown", "hlt", "nmi", "unknown", "guest"}
         /\ Dispatch(e) = "shutdown" => e.code = SHUTDOWN
         /\ Dispatch(e) = "hlt" => e.code = HLT
         /\ Dispatch(e) = "nmi" => e.code = NMI
         /\ Dispatch(e) = "unknown" => e.code = INVALID
<1> HIDE DEF SHUTDOWN, HLT, NMI, INVALID
<1>1. CASE e.code = SHUTDOWN
  BY <1>1, Zenon DEF Dispatch
<1>2. CASE e.code # SHUTDOWN /\ e.code = HLT /\ ~e.intf
  BY <1>2, Zenon DEF Dispatch
<1> QED
  BY <1>1, <1>2, SMT DEF Dispatch

LEMMA WritesControl ==
  ASSUME SInv, VisorWrites
  PROVE  ControlOK' /\ (pc \in Status => Count' = Count)
<1>1. gInterceptCount \in 0..MaxExits /\ MaxExits \in Nat /\ ControlOK
  BY ScreenAssumption, SMT DEF SInv, ControlOK
<1>2. gInterceptCount' = IF pc = "count" THEN gInterceptCount + 1 ELSE gInterceptCount
  BY DEF VisorWrites, Counted
<1>3. gInterceptCount' \in 0..MaxExits
  BY <1>1, <1>2, SMT DEF ControlOK
<1>4. /\ pc \in Report => pc' \in Report \cup {"stop"}
      /\ pc \notin Report => pc' \notin Report
      /\ pc' \in {"mode", "paging", "count"} => pc \in {"mode", "paging"}
      /\ pc' \in Writing \cup {"clear", "guest", "stop"} /\ pc' \notin {"clear", "entering"}
  BY WritesNext, Dispatched, Zenon DEF Report, Writing, Status, LastWords
<1>5. ControlOK'
  <2>1. UNCHANGED <<exit, trap>>
    BY DEF VisorWrites
  <2>2. (pc \in {"mode", "paging", "count"} => gInterceptCount < MaxExits)'
    <3>1. pc \in {"mode", "paging"} => gInterceptCount < MaxExits /\ gInterceptCount' = gInterceptCount
      BY <1>1, <1>2, Zenon DEF ControlOK
    <3> QED
      BY <1>4, <3>1, Zenon
  <2>3. (pc \in Report => trap # NoTrap)'
    BY <1>1, <1>4, <2>1, Zenon DEF ControlOK, NoTrap
  <2>4. (pc \notin Report \cup {"stop"} => trap = NoTrap)'
    <3>1. pc # "stop"
      BY WritesNext, Zenon DEF Writing, Status, LastWords, Report
    <3> QED
      BY <1>1, <1>4, <2>1, <3>1, Zenon DEF ControlOK, NoTrap
  <2>5. (exit \in Exits /\ trap \in Traps \cup {NoTrap})'
    BY <1>1, <2>1, Zenon DEF ControlOK, NoTrap, Exits, Dword
  <2> QED
    BY <1>3, <1>4, <2>2, <2>3, <2>4, <2>5, Zenon DEF ControlOK
<1>6. pc \in Status => Count' = Count
  BY <1>2, WritesNext, Dispatched, Zenon DEF Status, Count
<1> QED
  BY <1>5, <1>6

\* The visor writes text i of a line, the texts before it stand already.
LEMMA WritesLine ==
  ASSUME SInv, VisorWrites, NEW s, Ascending(s), Len(s) \in Nat, NEW i \in 1..Len(s),
         Legible(video, s, i - 1), NEW x, NEW y, y * 80 + x = s[i].at, NEW next,
         Prepared(x, y, s[i].text, next)
  PROVE  /\ Legible(video', s, i) /\ pc' = next
         /\ cursor_y' = y /\ cursor_x' = x + Len(s[i].text)
<1>1. /\ cursor_x' = x + Len(s[i].text) /\ cursor_y' = y /\ pc' = next
      /\ Spared(video, video', s[i].at, Len(s[i].text)) /\ Stands(video', s[i].at, s[i].text)
  BY WritesText
<1> QED
  BY <1>1, NextLegible, Zenon

\* What VisorLoop writes, text by text.
LEMMA WritesStatus ==
  ASSUME SInv, VisorWrites, pc \in Status
  PROVE  /\ StatusDue'
         /\ pc = "value2" => cursor_y' = 0 /\ cursor_x' <= 85
<1>0. PICK s : s = StatusLine(exit, Count)
  OBVIOUS
<1> DEFINE c == Begin(exit)
           a == Width(Count)
           b == Width(exit.code)
           d == Width(exit.info[1])
           f == Width(exit.info[2])
<1>1. exit \in Exits /\ Count \in Dword
  BY ScreenAssumption, DwordAssumption, SMT DEF SInv, ControlOK, Count, Dword
<1>2. Ascending(s)
  BY <1>0, <1>1, StatusAscends
<1>3. /\ Len(s) = 9 /\ c \in Nat /\ c <= 20
      /\ a \in Nat /\ a <= 8 /\ b \in Nat /\ b <= 8
      /\ d \in Nat /\ d <= 8 /\ f \in Nat /\ f <= 8
      /\ Item(s, 1, c, 1) /\ Item(s, 2, c + 1, 6) /\ Item(s, 3, c + 7, a)
      /\ Item(s, 4, c + 7 + a, 8) /\ Item(s, 5, c + 15 + a, b)
      /\ Item(s, 6, c + 15 + a + b, 9) /\ Item(s, 7, c + 24 + a + b, d)
      /\ Item(s, 8, c + 24 + a + b + d, 9) /\ Item(s, 9, c + 33 + a + b + d, f)
  BY <1>0, <1>1, StatusItems
<1>4. StatusLine(exit, Count)' = s
  BY <1>0, WritesControl DEF VisorWrites
<1>5. /\ pc = "mode" => Prepared(s[1].at, 0, s[1].text, "paging")
      /\ pc = "paging" => Prepared(s[2].at, 0, s[2].text, "count") /\ Legible(video, s, 1)
      /\ pc = "count" => Prepared(s[3].at, 0, s[3].text, "exit") /\ Legible(video, s, 2)
      /\ pc = "exit" => Prepared(s[4].at, 0, s[4].text, "code") /\ Legible(video, s, 3)
      /\ pc = "code" => Prepared(s[5].at, 0, s[5].text, "info1") /\ Legible(video, s, 4)
      /\ pc = "info1" => Prepared(s[6].at, 0, s[6].text, "value1") /\ Legible(video, s, 5)
      /\ pc = "value1" => Prepared(s[7].at, 0, s[7].text, "info2") /\ Legible(video, s, 6)
      /\ pc = "info2" => Prepared(s[8].at, 0, s[8].text, "value2") /\ Legible(video, s, 7)
      /\ pc = "value2" => Prepared(s[9].at, 0, s[9].text, Dispatch(exit))
                          /\ Legible(video, s, 8)
  <2>1. /\ pc = "mode" => Prepared(s[1].at, 0, s[1].text, "paging")
        /\ pc = "paging" => Prepared(s[2].at, 0, s[2].text, "count")
        /\ pc = "count" => Prepared(s[3].at, 0, s[3].text, "exit")
        /\ pc = "exit" => Prepared(s[4].at, 0, s[4].text, "code")
        /\ pc = "code" => Prepared(s[5].at, 0, s[5].text, "info1")
        /\ pc = "info1" => Prepared(s[6].at, 0, s[6].text, "value1")
        /\ pc = "value1" => Prepared(s[7].at, 0, s[7].text, "info2")
        /\ pc = "info2" => Prepared(s[8].at, 0, s[8].text, "value2")
        /\ pc = "value2" => Prepared(s[9].at, 0, s[9].text, Dispatch(exit))
    BY <1>0, StatusPrepared, ZenonT(30)
  <2>2. StatusDue
    BY Zenon DEF SInv
  <2>3. /\ pc = "paging" => Legible(video, s, 1)
        /\ pc = "count" => Legible(video, s, 2)
        /\ pc = "exit" => Legible(video, s, 3)
        /\ pc = "code" => Legible(video, s, 4)
        /\ pc = "info1" => Legible(video, s, 5)
        /\ pc = "value1" => Legible(video, s, 6)
        /\ pc = "info2" => Legible(video, s, 7)
        /\ pc = "value2" => Legible(video, s, 8)
    BY <1>0, <2>2, ZenonT(30) DEF StatusDue
  <2> QED
    BY <2>1, <2>3, ZenonT(30)
<1> HIDE DEF a, b, c, d, f
<1>6. /\ s[1].at = c /\ s[2].at = c + 1 /\ s[3].at = c + 7 /\ s[4].at = c + 7 + a
      /\ s[5].at = c + 15 + a /\ s[6].at = c + 15 + a + b /\ s[7].at = c + 24 + a + b
      /\ s[8].at = c + 24 + a + b + d /\ s[9].at = c + 33 + a + b + d
      /\ Len(s[1].text) = 1 /\ Len(s[2].text) = 6 /\ Len(s[3].text) = a
      /\ Len(s[4].text) = 8 /\ Len(s[5].text) = b /\ Len(s[6].text) = 9
      /\ Len(s[7].text) = d /\ Len(s[8].text) = 9 /\ Len(s[9].text) = f
  BY <1>3, Zenon DEF Item, Sized
<1>7. /\ s[1].at + Len(s[1].text) = s[2].at /\ s[2].at + Len(s[2].text) = s[3].at
      /\ s[3].at + Len(s[3].text) = s[4].at /\ s[4].at + Len(s[4].text) = s[5].at
      /\ s[5].at + Len(s[5].text) = s[6].at /\ s[6].at + Len(s[6].text) = s[7].at
      /\ s[7].at + Len(s[7].text) = s[8].at /\ s[8].at + Len(s[8].text) = s[9].at
      /\ s[9].at + Len(s[9].text) <= 85
  <2>1. /\ c \in Nat /\ c <= 20 /\ a \in Nat /\ a <= 8 /\ b \in Nat /\ b <= 8
        /\ d \in Nat /\ d <= 8 /\ f \in Nat /\ f <= 8
    BY <1>3
  <2>2. /\ c + 1 + 6 = c + 7 /\ c + 7 + a + 8 = c + 15 + a
        /\ c + 15 + a + b + 9 = c + 24 + a + b
        /\ c + 24 + a + b + d + 9 = c + 33 + a + b + d
        /\ c + 33 + a + b + d + f <= 85
    BY <2>1, SMTT(30)
  <2> QED
    BY <1>6, <2>2, ZenonT(30)
<1>8. ASSUME NEW i \in 1..9, Legible(video, s, i - 1), NEW next,
             Prepared(s[i].at, 0, s[i].text, next)
      PROVE  /\ Legible(video', s, i) /\ pc' = next
             /\ cursor_y' = 0 /\ cursor_x' = s[i].at + Len(s[i].text)
  <2>1. i \in 1..Len(s) /\ Len(s) \in Nat
    BY <1>3
  <2>2. s[i].at \in Nat
    BY <1>8 DEF Prepared
  <2>3. 0 * 80 + s[i].at = s[i].at
    BY <2>2, SMT
  <2> QED
    BY <1>2, <1>8, <2>1, <2>3, WritesLine, Zenon
<1>9. CASE pc = "mode"
  <2>1. Legible(video, s, 1 - 1)
    BY SMT DEF Legible
  <2>2. Legible(video', s, 1) /\ cursor_y' = 0 /\ cursor_x' = s[2].at /\ pc' = "paging"
    BY <1>5, <1>7, <1>8, <1>9, <2>1, SMTT(30)
  <2> QED
    BY <1>4, <1>9, <2>2, Zenon DEF StatusDue, CursorAt
<1>10. CASE pc = "paging"
  <2>1. Legible(video', s, 2) /\ cursor_y' = 0 /\ cursor_x' = s[3].at /\ pc' = "count"
    BY <1>5, <1>7, <1>8, <1>10, SMTT(30)
  <2> QED
    BY <1>4, <1>10, <2>1, Zenon DEF StatusDue, CursorAt
<1>11. CASE pc = "count"
  <2>1. Legible(video', s, 3) /\ cursor_y' = 0 /\ cursor_x' = s[4].at /\ pc' = "exit"
    BY <1>5, <1>7, <1>8, <1>11, SMTT(30)
  <2> QED
    BY <1>4, <1>11, <2>1, Zenon DEF StatusDue, CursorAt
<1>12. CASE pc = "exit"
  <2>1. Legible(video', s, 4) /\ cursor_y' = 0 /\ cursor_x' = s[5].at /\ pc' = "code"
    BY <1>5, <1>7, <1>8, <1>12, SMTT(30)
  <2> QED
    BY <1>4, <1>12, <2>1, Zenon DEF StatusDue, CursorAt
<1>13. CASE pc = "code"
  <2>1. Legible(video', s, 5) /\ cursor_y' = 0 /\ cursor_x' = s[6].at /\ pc' = "info1"
    BY <1>5, <1>7, <1>8, <1>13, SMTT(30)
  <2> QED
    BY <1>4, <1>13, <2>1, Zenon DEF StatusDue, CursorAt
<1>14. CASE pc = "info1"
  <2>1. Legible(video', s, 6) /\ cursor_y' = 0 /\ cursor_x' = s[7].at /\ pc' = "value1"
    BY <1>5, <1>7, <1>8, <1>14, SMTT(30)
  <2> QED
    BY <1>4, <1>14, <2>1, Zenon DEF StatusDue, CursorAt
<1>15. CASE pc = "value1"
  <2>1. Legible(video', s, 7) /\ cursor_y' = 0 /\ cursor_x' = s[8].at /\ pc' = "info2"
    BY <1>5, <1>7, <1>8, <1>15, SMTT(30)
  <2> QED
    BY <1>4, <1>15, <2>1, Zenon DEF StatusDue, CursorAt
<1>16. CASE pc = "info2"
  <2>1. Legible(video', s, 8) /\ cursor_y' = 0 /\ cursor_x' = s[9].at /\ pc' = "value2"
    BY <1>5, <1>7, <1>8, <1>16, SMTT(30)
  <2> QED
    BY <1>4, <1>16, <2>1, Zenon DEF StatusDue, CursorAt
<1>17. CASE pc = "value2"
  <2>1. Legible(video', s, 9) /\ cursor_y' = 0 /\ cursor_x' = s[9].at + Len(s[9].text)
        /\ pc' = Dispatch(exit)
    BY <1>5, <1>8, <1>17
  <2>2. pc' \in {"shutdown", "hlt", "nmi", "unknown", "guest"}
    BY <2>1, Dispatched
  <2>3. StatusDue'
    BY <1>4, <2>1, <2>2, Zenon DEF StatusDue, CursorAt
  <2> QED
    BY <1>7, <2>1, <2>3
<1> QED
  BY <1>9, <1>10, <1>11, <1>12, <1>13, <1>14, <1>15, <1>16, <1>17, Zenon DEF Status

LEMMA WritesOther ==
  ASSUME SInv, VisorWrites, pc \notin Status
  PROVE  StatusDue'
<1>1. pc = "entering" => gInterceptCount' = 0 /\ pc' = "guest"
  <2>1. pc = "entering" => gInterceptCount = 0
    BY DEF SInv, ControlOK
  <2> QED
    BY <2>1, WritesNext DEF VisorWrites, Counted
<1>2. pc # "entering" => pc' \notin {"paging", "count", "exit", "code", "info1", "value1", "info2",
                                      "value2", "guest"}
  BY WritesNext, Zenon DEF Status, Writing, LastWords, Report
<1>3. pc' = "guest" /\ gInterceptCount' > 0 => FALSE
  BY <1>1, <1>2, SMT
<1> QED
  BY <1>1, <1>2, <1>3, Zenon DEF StatusDue

LEMMA CodesDiffer ==
  /\ HLT # NMI /\ HLT # SHUTDOWN /\ HLT # INVALID
  /\ NMI # SHUTDOWN /\ NMI # INVALID /\ SHUTDOWN # INVALID
BY SMT DEF HLT, NMI, SHUTDOWN, INVALID

\* Where the reason is told, above row 3.
LEMMA ReasonPlaces ==
  /\ 1 * 80 + 0 = 80 /\ 2 * 80 + 0 = 160 /\ 2 * 80 + 19 = 179 /\ 0 + 19 = 19
  /\ 80 \in Nat /\ 160 \in Nat /\ 179 \in Nat
  /\ \A d \in 0..85 : d \in Nat
BY SMT

LEMMA ReasonTexts ==
  /\ Literal("Shutdown") \in Text /\ Len(Literal("Shutdown")) = 47
  /\ Literal("Halted") \in Text /\ Len(Literal("Halted")) = 27
  /\ Literal("Nmi") \in Text /\ Len(Literal("Nmi")) = 47
  /\ Literal("Unknown") \in Text /\ Len(Literal("Unknown")) = 19
BY LiteralSizes, Zenon DEF Sized

LEMMA ReasonBounds ==
  /\ 80 + Len(Literal("Halted")) <= 240 /\ 80 + Len(Literal("Nmi")) <= 240
  /\ 160 + Len(Literal("Unknown")) <= 179 /\ 160 + Len(Literal("Unknown")) <= 240
  /\ \A d \in 0..85 : d + Len(Literal("Shutdown")) <= 240
<1>1. \A n : n = 27 \/ n = 47 => 80 + n <= 240
  BY SMT
<1>2. \A n : n = 19 => 160 + n <= 179 /\ 160 + n <= 240
  BY SMT
<1>3. \A n : n = 47 => \A d \in 0..85 : d + n <= 240
  BY SMT
<1>4. 80 + Len(Literal("Halted")) <= 240
  BY <1>1, ReasonTexts
<1>5. 80 + Len(Literal("Nmi")) <= 240
  BY <1>1, ReasonTexts
<1>6. 160 + Len(Literal("Unknown")) <= 179 /\ 160 + Len(Literal("Unknown")) <= 240
  <2>1. PICK t : t = Literal("Unknown")
    OBVIOUS
  <2>2. Len(t) = 19
    BY <2>1, ReasonTexts, Zenon
  <2>3. 160 + Len(t) <= 179 /\ 160 + Len(t) <= 240
    BY <1>2, <2>2
  <2> QED
    BY <2>1, <2>3, Zenon
<1>7. \A d \in 0..85 : d + Len(Literal("Shutdown")) <= 240
  BY <1>3, ReasonTexts
<1> QED
  BY <1>4, <1>5, <1>6, <1>7

LEMMA ReasonSpared ==
  ASSUME SInv, Reason, UNCHANGED exit, NEW c \in Nat, NEW n \in Nat, c >= 240,
         Spared(video, video', c, n)
  PROVE  Reason'
<1>1. ASSUME NEW d \in Nat, NEW t \in Text, d + Len(t) <= 240, Stands(video, d, t)
      PROVE  Stands(video', d, t)
  <2>1. Len(t) \in Nat
    BY SMT DEF Text
  <2>2. d + Len(t) <= c
    BY <1>1, <2>1, SMT
  <2> QED
    BY <1>1, <2>2, StandsSpared, Zenon
<1>2. /\ Literal("Shutdown") \in Text /\ Literal("Halted") \in Text /\ Literal("Nmi") \in Text
      /\ Literal("Unknown") \in Text
      /\ 80 \in Nat /\ 160 \in Nat /\ 179 \in Nat
      /\ 80 + Len(Literal("Halted")) <= 240 /\ 80 + Len(Literal("Nmi")) <= 240
      /\ 160 + Len(Literal("Unknown")) <= 240
      /\ \A d \in 0..85 : d \in Nat /\ d + Len(Literal("Shutdown")) <= 240
  BY ReasonPlaces, ReasonTexts, ReasonBounds, Zenon
<1>3. Itoa(exit.code) \in Text /\ 179 + Len(Itoa(exit.code)) <= 240
  <2>1. exit.code \in Dword
    BY SMT DEF SInv, ControlOK, Exits
  <2>2. /\ Itoa(exit.code) \in Text /\ Len(Itoa(exit.code)) = Width(exit.code)
        /\ Width(exit.code) \in Nat /\ Width(exit.code) <= 8
    BY <2>1, NumberSizes, Zenon DEF Sized
  <2> QED
    BY <2>2, SMT
<1>4. (exit.code = SHUTDOWN => \E d \in 0..85 : Stands(video, d, Literal("Shutdown")))'
  BY <1>1, <1>2, Zenon DEF Reason
<1>5. (exit.code = HLT => Stands(video, 80, Literal("Halted")))'
  BY <1>1, <1>2, Zenon DEF Reason
<1>6. (exit.code = NMI => Stands(video, 80, Literal("Nmi")))'
  BY <1>1, <1>2, Zenon DEF Reason
<1>7. (exit.code = INVALID =>
         Stands(video, 160, Literal("Unknown")) /\ Stands(video, 179, Itoa(exit.code)))'
  BY <1>1, <1>2, <1>3, Zenon DEF Reason
<1> QED
  BY <1>4, <1>5, <1>6, <1>7, Zenon DEF Reason

LEMMA WritesReasonDue ==
  ASSUME SInv, VisorWrites
  PROVE  ReasonDue'
<1>1. UNCHANGED exit
  BY DEF VisorWrites
<1>2. CASE pc = "value2"
  <2>1. pc' = Dispatch(exit) /\ cursor_y' = 0 /\ cursor_x' <= 85
    BY <1>2, WritesNext, WritesStatus DEF Status
  <2>2. pc' # "unknown code"
    BY <2>1, Dispatched, Zenon
  <2> QED
    BY <1>1, <2>1, <2>2, Dispatched, Zenon DEF ReasonDue
<1>3. CASE pc = "unknown"
  <2>1. Prepared(0, 2, Literal("Unknown"), "unknown code")
    BY <1>3, LastWordsPrepared
  <2>2. /\ cursor_x' = 0 + Len(Literal("Unknown")) /\ cursor_y' = 2 /\ pc' = "unknown code"
        /\ Stands(video', 2 * 80 + 0, Literal("Unknown"))
    BY <2>1, WritesText
  <2>3. 0 + 19 = 19
    BY ReasonPlaces
  <2>4. cursor_x' = 19 /\ Stands(video', 160, Literal("Unknown"))
    BY <2>2, <2>3, ReasonPlaces, ReasonTexts, Zenon
  <2>5. exit.code = INVALID
    BY <1>3, Zenon DEF SInv, ReasonDue
  <2> QED
    BY <1>1, <2>2, <2>4, <2>5, Zenon DEF ReasonDue, CursorAt
<1>4. CASE pc \notin {"value2", "unknown"}
  <2>1. pc' \notin {"shutdown", "hlt", "nmi", "unknown", "unknown code"}
    BY <1>4, WritesNext, Zenon DEF Status, Writing, LastWords, Report
  <2> QED
    BY <2>1, Zenon DEF ReasonDue
<1> QED
  BY <1>2, <1>3, <1>4

LEMMA TextLength == \A t \in Text : Len(t) \in Nat
BY SMT DEF Text

LEMMA ShutdownPlace ==
  ASSUME SInv, cursor_x <= 85
  PROVE  cursor_x \in 0..85 /\ 0 * 80 + cursor_x = cursor_x
BY SMT DEF SInv, CursorOK

LEMMA UnknownStays ==
  ASSUME Stands(video, 160, Literal("Unknown")), NEW n \in Nat,
         Spared(video, video', 2 * 80 + 19, n)
  PROVE  Stands(video', 160, Literal("Unknown"))
<1>1. Spared(video, video', 179, n) /\ 179 \in Nat /\ 160 \in Nat
  <2>1. 2 * 80 + 19 = 179
    BY ReasonPlaces
  <2> QED
    BY <2>1, ReasonPlaces, Zenon
<1>2. PICK t : t = Literal("Unknown")
  OBVIOUS
<1>3. t \in Text /\ 160 + Len(t) <= 179 /\ Stands(video, 160, t)
  BY <1>2, ReasonTexts, ReasonBounds, Zenon
<1>4. Stands(video', 160, t)
  BY <1>1, <1>3, StandsSpared
<1> QED
  BY <1>2, <1>4, Zenon

LEMMA WritesReason ==
  ASSUME SInv, VisorWrites, pc \in {"shutdown", "hlt", "nmi", "unknown code"}
  PROVE  Reason'
<1>1. UNCHANGED exit
  BY DEF VisorWrites
<1>2. CASE pc = "shutdown"
  <2>1. Prepared(cursor_x, 0, Literal("Shutdown"), "toilet")
    BY <1>2, LastWordsPrepared
  <2>2. Stands(video', 0 * 80 + cursor_x, Literal("Shutdown"))
    BY <2>1, WritesText
  <2>3. exit.code = SHUTDOWN /\ cursor_x <= 85
    BY <1>2, Zenon DEF SInv, ReasonDue
  <2>4. cursor_x \in 0..85 /\ 0 * 80 + cursor_x = cursor_x
    BY <2>3, ShutdownPlace
  <2> QED
    BY <1>1, <2>2, <2>3, <2>4, CodesDiffer, Zenon DEF Reason
<1>3. CASE pc = "hlt"
  <2>1. Prepared(0, 1, Literal("Halted"), "toilet")
    BY <1>3, LastWordsPrepared
  <2>2. Stands(video', 1 * 80 + 0, Literal("Halted"))
    BY <2>1, WritesText
  <2>3. 1 * 80 + 0 = 80
    BY ReasonPlaces
  <2>4. exit.code = HLT
    BY <1>3, Zenon DEF SInv, ReasonDue
  <2> QED
    BY <1>1, <2>2, <2>3, <2>4, CodesDiffer, Zenon DEF Reason
<1>4. CASE pc = "nmi"
  <2>1. Prepared(0, 1, Literal("Nmi"), "toilet")
    BY <1>4, LastWordsPrepared
  <2>2. Stands(video', 1 * 80 + 0, Literal("Nmi"))
    BY <2>1, WritesText
  <2>3. 1 * 80 + 0 = 80
    BY ReasonPlaces
  <2>4. exit.code = NMI
    BY <1>4, Zenon DEF SInv, ReasonDue
  <2> QED
    BY <1>1, <2>2, <2>3, <2>4, CodesDiffer, Zenon DEF Reason
<1>5. CASE pc = "unknown code"
  <2>1. Prepared(19, 2, Itoa(exit.code), "toilet")
    BY <1>5, LastWordsPrepared
  <2>2. /\ Stands(video', 2 * 80 + 19, Itoa(exit.code))
        /\ Spared(video, video', 2 * 80 + 19, Len(Itoa(exit.code)))
    BY <2>1, WritesText
  <2>3. 2 * 80 + 19 = 179 /\ 160 \in Nat /\ 179 \in Nat
    BY ReasonPlaces
  <2>4. exit.code = INVALID /\ Stands(video, 160, Literal("Unknown"))
    BY <1>5, Zenon DEF SInv, ReasonDue
  <2>5. Len(Itoa(exit.code)) \in Nat
    BY <2>1, TextLength, Zenon DEF Prepared
  <2>6. Stands(video', 160, Literal("Unknown"))
    BY <2>2, <2>4, <2>5, UnknownStays, Zenon
  <2> QED
    BY <1>1, <2>2, <2>3, <2>4, <2>6, CodesDiffer, Zenon DEF Reason
<1> QED
  BY <1>2, <1>3, <1>4, <1>5, Zenon

LEMMA ToiletPlaces ==
  ASSUME NEW w \in Nat
  PROVE  /\ 15 * 80 + 0 = 1200 /\ 15 * 80 + 57 = 1257 /\ 17 * 80 + 0 = 1360
         /\ 17 * 80 + 11 = 1371 /\ 17 * 80 + (11 + w) = 1371 + w
         /\ 17 * 80 + (24 + w) = 1384 + w
         /\ 0 + 57 = 57 /\ 0 + 11 = 11 /\ (11 + w) + 13 = 24 + w
BY SMT

\* What InfiniteLoop writes, text by text.
LEMMA WritesToilet ==
  ASSUME SInv, VisorWrites, pc \in Toilet
  PROVE  ToiletDue'
<1> DEFINE w == Width(CR0)
<1>1. PICK s : s = ToiletLines(exit)
  OBVIOUS
<1>2. exit \in Exits /\ UNCHANGED exit
  BY SMT DEF SInv, ControlOK, VisorWrites
<1>3. Ascending(s) /\ ToiletLines(exit)' = s
  BY <1>1, <1>2, ToiletAscends
<1>4. /\ Len(s) = 6 /\ w \in Nat
      /\ Item(s, 1, 1200, 57) /\ Item(s, 2, 1257, Width(exit.code))
      /\ Item(s, 3, 1360, 11) /\ Item(s, 4, 1371, w)
      /\ Item(s, 5, 1371 + w, 13) /\ Item(s, 6, 1384 + w, Width(CR3))
  BY <1>1, <1>2, ToiletItems
<1>5. /\ pc = "toilet" => Prepared(0, 15, s[1].text, "toilet code")
      /\ pc = "toilet code" => Prepared(57, 15, s[2].text, "cr0") /\ Legible(video, s, 1)
      /\ pc = "cr0" => Prepared(0, 17, s[3].text, "cr0 value") /\ Legible(video, s, 2)
      /\ pc = "cr0 value" => Prepared(11, 17, s[4].text, "cr3") /\ Legible(video, s, 3)
      /\ pc = "cr3" => Prepared(11 + w, 17, s[5].text, "cr3 value") /\ Legible(video, s, 4)
      /\ pc = "cr3 value" => Prepared(24 + w, 17, s[6].text, "stop") /\ Legible(video, s, 5)
  BY <1>1, LastWordsPrepared, Zenon DEF SInv, ToiletDue
<1>6. Reason
  BY Zenon DEF SInv, ToiletDue
<1>7. ToiletDue' <=>
        /\ pc' \in Toilet \/ (pc' = "stop" /\ trap' = NoTrap) => Reason'
        /\ pc' = "toilet code" => Legible(video', s, 1) /\ cursor_y' = 15 /\ cursor_x' = 57
        /\ pc' = "cr0" => Legible(video', s, 2)
        /\ pc' = "cr0 value" => Legible(video', s, 3) /\ cursor_y' = 17 /\ cursor_x' = 11
        /\ pc' = "cr3" => Legible(video', s, 4) /\ cursor_y' = 17 /\ cursor_x' = 11 + w
        /\ pc' = "cr3 value" => Legible(video', s, 5) /\ cursor_y' = 17 /\ cursor_x' = 24 + w
        /\ pc' = "stop" /\ trap' = NoTrap => Legible(video', s, 6)
  BY <1>3, Zenon DEF ToiletDue, CursorAt, NoTrap
<1> HIDE DEF w
<1>8. /\ s[1].at = 1200 /\ s[2].at = 1257 /\ s[3].at = 1360 /\ s[4].at = 1371
      /\ s[5].at = 1371 + w /\ s[6].at = 1384 + w
      /\ Len(s[1].text) = 57 /\ Len(s[3].text) = 11 /\ Len(s[4].text) = w /\ Len(s[5].text) = 13
  BY <1>4 DEF Item, Sized
<1>9. \A i \in 1..6 : s[i].at >= 240
  <2>1. /\ s[1].at >= 240 /\ s[2].at >= 240 /\ s[3].at >= 240 /\ s[4].at >= 240
        /\ s[5].at >= 240 /\ s[6].at >= 240
    BY <1>4, <1>8, SMT
  <2>2. \A i \in 1..6 : i = 1 \/ i = 2 \/ i = 3 \/ i = 4 \/ i = 5 \/ i = 6
    BY SMT
  <2> QED
    BY <2>1, <2>2, Zenon
<1>10. ASSUME NEW i \in 1..6, NEW x, NEW y, y * 80 + x = s[i].at, NEW next,
              Prepared(x, y, s[i].text, next), Legible(video, s, i - 1)
       PROVE  /\ Legible(video', s, i) /\ pc' = next /\ Reason'
              /\ cursor_y' = y /\ cursor_x' = x + Len(s[i].text)
  <2>1. i \in 1..Len(s) /\ Len(s) \in Nat
    BY <1>4
  <2>2. /\ Legible(video', s, i) /\ pc' = next
        /\ cursor_y' = y /\ cursor_x' = x + Len(s[i].text)
    BY <1>3, <1>10, <2>1, WritesLine
  <2>3. Spared(video, video', s[i].at, Len(s[i].text))
    BY <1>10, WritesText
  <2>4. s[i].at \in Nat /\ s[i].text \in Text
    BY <1>3, <2>1, Zenon DEF Ascending
  <2>5. Reason'
    BY <1>2, <1>6, <1>9, <2>3, <2>4, TextLength, ReasonSpared, Zenon
  <2> QED
    BY <2>2, <2>5
<1>11. /\ 15 * 80 + 0 = s[1].at /\ 15 * 80 + 57 = s[2].at /\ 17 * 80 + 0 = s[3].at
       /\ 17 * 80 + 11 = s[4].at /\ 17 * 80 + (11 + w) = s[5].at
       /\ 17 * 80 + (24 + w) = s[6].at
       /\ 0 + Len(s[1].text) = 57 /\ 0 + Len(s[3].text) = 11
       /\ 11 + Len(s[4].text) = 11 + w /\ (11 + w) + Len(s[5].text) = 24 + w
       /\ 1 \in 1..6 /\ 2 \in 1..6 /\ 3 \in 1..6 /\ 4 \in 1..6 /\ 5 \in 1..6 /\ 6 \in 1..6
       /\ 2 - 1 = 1 /\ 3 - 1 = 2 /\ 4 - 1 = 3 /\ 5 - 1 = 4 /\ 6 - 1 = 5
  BY <1>4, <1>8, ToiletPlaces
<1>12. CASE pc = "toilet"
  <2>1. Legible(video, s, 1 - 1)
    BY SMT DEF Legible
  <2>2. /\ Legible(video', s, 1) /\ pc' = "toilet code" /\ Reason'
        /\ cursor_y' = 15 /\ cursor_x' = 0 + Len(s[1].text)
    BY <1>5, <1>10, <1>11, <1>12, <2>1, Zenon
  <2> QED
    BY <1>7, <1>11, <2>2, Zenon
<1>13. CASE pc = "toilet code"
  <2>0. Legible(video, s, 2 - 1)
    BY <1>5, <1>11, <1>13, Zenon
  <2>1. /\ Legible(video', s, 2) /\ pc' = "cr0" /\ Reason'
        /\ cursor_y' = 15 /\ cursor_x' = 57 + Len(s[2].text)
    BY <1>5, <1>10, <1>11, <1>13, <2>0, Zenon
  <2> QED
    BY <1>7, <2>1, Zenon
<1>14. CASE pc = "cr0"
  <2>1. /\ Legible(video', s, 3) /\ pc' = "cr0 value" /\ Reason'
        /\ cursor_y' = 17 /\ cursor_x' = 0 + Len(s[3].text)
    BY <1>5, <1>10, <1>11, <1>14, Zenon
  <2> QED
    BY <1>7, <1>11, <2>1, Zenon
<1>15. CASE pc = "cr0 value"
  <2>1. /\ Legible(video', s, 4) /\ pc' = "cr3" /\ Reason'
        /\ cursor_y' = 17 /\ cursor_x' = 11 + Len(s[4].text)
    BY <1>5, <1>10, <1>11, <1>15, Zenon
  <2> QED
    BY <1>7, <1>11, <2>1, Zenon
<1>16. CASE pc = "cr3"
  <2>1. /\ Legible(video', s, 5) /\ pc' = "cr3 value" /\ Reason'
        /\ cursor_y' = 17 /\ cursor_x' = (11 + w) + Len(s[5].text)
    BY <1>5, <1>10, <1>11, <1>16, Zenon
  <2> QED
    BY <1>7, <1>11, <2>1, Zenon
<1>17. CASE pc = "cr3 value"
  <2>0. Legible(video, s, 6 - 1)
    BY <1>5, <1>11, <1>17, Zenon
  <2>1. /\ Legible(video', s, 6) /\ pc' = "stop" /\ Reason'
        /\ cursor_y' = 17 /\ cursor_x' = (24 + w) + Len(s[6].text)
    BY <1>5, <1>10, <1>11, <1>17, <2>0, Zenon
  <2> QED
    BY <1>7, <2>1, Zenon
<1> QED
  BY <1>12, <1>13, <1>14, <1>15, <1>16, <1>17, Zenon DEF Toilet

LEMMA ReportPlaces ==
  ASSUME NEW w \in Nat
  PROVE  /\ 16 * 80 + 0 = 1280 /\ 16 * 80 + 50 = 1330
         /\ 16 * 80 + (50 + w) = 1330 + w /\ 16 * 80 + (51 + w) = 1331 + w
         /\ 0 + 50 = 50 /\ (50 + w) + 1 = 51 + w
BY SMT

\* What the handler of an exception writes, text by text.
LEMMA WritesReport ==
  ASSUME SInv, VisorWrites, pc \in Report
  PROVE  ReportDue'
<1> DEFINE w == Width(Told[1])
<1>1. PICK s : s = ReportLine(Told)
  OBVIOUS
<1>2. Told \in Dword \X Dword /\ UNCHANGED <<trap, Told>>
  BY TrapDwords DEF SInv, VisorWrites, Told
<1>3. Ascending(s) /\ ReportLine(Told)' = s
  BY <1>1, <1>2, ReportAscends
<1>4. /\ Len(s) = 4 /\ w \in Nat
      /\ Item(s, 1, 1280, 50) /\ Item(s, 2, 1330, w)
      /\ Item(s, 3, 1330 + w, 1) /\ Item(s, 4, 1331 + w, Width(Told[2]))
  BY <1>1, <1>2, ReportItems
<1>5. /\ pc = "exception" => Prepared(0, 16, s[1].text, "exc cs")
      /\ pc = "exc cs" => Prepared(50, 16, s[2].text, "exc colon") /\ Legible(video, s, 1)
      /\ pc = "exc colon" => Prepared(50 + w, 16, s[3].text, "exc ip") /\ Legible(video, s, 2)
      /\ pc = "exc ip" => Prepared(51 + w, 16, s[4].text, "stop") /\ Legible(video, s, 3)
  BY <1>1, ReportPrepared, Zenon DEF SInv, ReportDue
<1>6. ReportDue' <=>
        /\ pc' = "exc cs" => Legible(video', s, 1) /\ cursor_y' = 16 /\ cursor_x' = 50
        /\ pc' = "exc colon" => Legible(video', s, 2) /\ cursor_y' = 16 /\ cursor_x' = 50 + w
        /\ pc' = "exc ip" => Legible(video', s, 3) /\ cursor_y' = 16 /\ cursor_x' = 51 + w
        /\ pc' = "stop" /\ trap' # NoTrap => Legible(video', s, 4)
  BY <1>2, <1>3, Zenon DEF ReportDue, CursorAt, NoTrap
<1> HIDE DEF w
<1>7. /\ s[1].at = 1280 /\ s[2].at = 1330 /\ s[3].at = 1330 + w /\ s[4].at = 1331 + w
      /\ Len(s[1].text) = 50 /\ Len(s[2].text) = w /\ Len(s[3].text) = 1
  BY <1>4 DEF Item, Sized
<1>8. ASSUME NEW i \in 1..4, NEW x, NEW y, y * 80 + x = s[i].at, NEW next,
             Prepared(x, y, s[i].text, next), Legible(video, s, i - 1)
      PROVE  /\ Legible(video', s, i) /\ pc' = next
             /\ cursor_y' = y /\ cursor_x' = x + Len(s[i].text)
  <2>1. i \in 1..Len(s) /\ Len(s) \in Nat
    BY <1>4
  <2> QED
    BY <1>3, <1>8, <2>1, WritesLine
<1>9. /\ 16 * 80 + 0 = s[1].at /\ 16 * 80 + 50 = s[2].at
      /\ 16 * 80 + (50 + w) = s[3].at /\ 16 * 80 + (51 + w) = s[4].at
      /\ 0 + Len(s[1].text) = 50 /\ 50 + Len(s[2].text) = 50 + w
      /\ (50 + w) + Len(s[3].text) = 51 + w
      /\ 1 \in 1..4 /\ 2 \in 1..4 /\ 3 \in 1..4 /\ 4 \in 1..4
      /\ 2 - 1 = 1 /\ 3 - 1 = 2 /\ 4 - 1 = 3
  BY <1>4, <1>7, ReportPlaces
<1>10. CASE pc = "exception"
  <2>1. Legible(video, s, 1 - 1)
    BY SMT DEF Legible
  <2>2. /\ Legible(video', s, 1) /\ pc' = "exc cs"
        /\ cursor_y' = 16 /\ cursor_x' = 0 + Len(s[1].text)
    BY <1>5, <1>8, <1>9, <1>10, <2>1, Zenon
  <2> QED
    BY <1>6, <1>9, <2>2, Zenon
<1>11. CASE pc = "exc cs"
  <2>1. /\ Legible(video', s, 2) /\ pc' = "exc colon"
        /\ cursor_y' = 16 /\ cursor_x' = 50 + Len(s[2].text)
    BY <1>5, <1>8, <1>9, <1>11, Zenon
  <2> QED
    BY <1>6, <1>9, <2>1, Zenon
<1>12. CASE pc = "exc colon"
  <2>1. /\ Legible(video', s, 3) /\ pc' = "exc ip"
        /\ cursor_y' = 16 /\ cursor_x' = (50 + w) + Len(s[3].text)
    BY <1>5, <1>8, <1>9, <1>12, Zenon
  <2> QED
    BY <1>6, <1>9, <2>1, Zenon
<1>13. CASE pc = "exc ip"
  <2>1. /\ Legible(video', s, 4) /\ pc' = "stop"
        /\ cursor_y' = 16 /\ cursor_x' = (51 + w) + Len(s[4].text)
    BY <1>5, <1>8, <1>9, <1>13, Zenon
  <2> QED
    BY <1>6, <2>1, Zenon
<1> QED
  BY <1>10, <1>11, <1>12, <1>13, Zenon DEF Report

LEMMA WritesInv ==
  ASSUME SInv, VisorWrites
  PROVE  SInv'
<1>1. pc \in Writing /\ trap' = trap
  BY WritesNext
<1>2. PICK x, y, t, next : Prepared(x, y, t, next)
  BY <1>1, AlwaysFits
<1>3. CursorOK'
  BY <1>2, WritesText
<1>4. ControlOK' /\ ReasonDue'
  BY WritesControl, WritesReasonDue
<1>5. StatusDue'
  BY WritesStatus, WritesOther
<1>6. pc \notin Report => trap = NoTrap
  <2>1. pc # "stop"
    BY <1>1, Zenon DEF Writing, Status, LastWords, Report
  <2> QED
    BY <2>1, Zenon DEF SInv, ControlOK, NoTrap
<1>7. pc \in Report => trap # NoTrap
  BY Zenon DEF SInv, ControlOK, NoTrap
<1>8. ToiletDue'
  <2>1. CASE pc \in Toilet
    BY <2>1, WritesToilet
  <2>2. CASE pc \in {"shutdown", "hlt", "nmi", "unknown code"}
    <3>1. Reason' /\ pc' = "toilet"
      BY <2>2, WritesReason, WritesNext, Zenon
    <3> QED
      BY <3>1, Zenon DEF ToiletDue
  <2>3. CASE pc \notin Toilet \cup {"shutdown", "hlt", "nmi", "unknown code"}
    <3>1. pc' \notin Toilet /\ (pc' = "stop" => pc \in Report)
      BY <1>1, <2>3, WritesNext, Dispatched, Zenon DEF Toilet, Writing, Status, LastWords, Report
    <3>2. ~(pc' = "stop" /\ trap' = NoTrap)
      BY <1>1, <1>7, <3>1, Zenon
    <3> QED
      BY <3>1, <3>2, Zenon DEF ToiletDue, Toilet, NoTrap
  <2> QED
    BY <2>1, <2>2, <2>3, Zenon
<1>9. ReportDue'
  <2>1. CASE pc \in Report
    BY <2>1, WritesReport
  <2>2. CASE pc \notin Report
    <3>1. pc' \notin Report
      BY <1>1, <2>2, WritesNext, Dispatched, Zenon DEF Writing, Status, LastWords, Report
    <3>2. trap' = NoTrap
      BY <1>1, <1>6, <2>2, Zenon
    <3> QED
      BY <3>1, <3>2, Zenon DEF ReportDue, Report, NoTrap
  <2> QED
    BY <2>1, <2>2
<1> QED
  BY <1>3, <1>4, <1>5, <1>8, <1>9 DEF SInv
-----------------------------------------------------------------------------
(* The other steps, and the invariant.                                      *)

LEMMA TrapsCounted ==
  ASSUME SInv, HostException
  PROVE  gInterceptCount' \in 0..MaxExits /\ trap' # NoTrap /\ trap' \in Traps
<1>1. gInterceptCount \in 0..MaxExits /\ (pc = "count" => gInterceptCount < MaxExits)
  BY Zenon DEF SInv, ControlOK
<1>2. gInterceptCount' = IF pc = "count" THEN gInterceptCount + 1 ELSE gInterceptCount
  BY DEF HostException, Counted
<1>3. gInterceptCount' \in 0..MaxExits
  BY <1>1, <1>2, ScreenAssumption, SMT
<1>4. trap' \in Traps
  BY DEF HostException
<1>5. trap' # NoTrap
  <2>1. trap' \in [cs : 1..(Word - 1), ip : 0..MaxDword, err : (0..(Word - 1)) \cup {NoCode}]
    BY <1>4, ScreenAssumption, Zenon
  <2>2. trap'.cs # 0
    BY <2>1, SMT
  <2> QED
    BY <2>2, SMT DEF NoTrap
<1> QED
  BY <1>3, <1>4, <1>5

LEMMA ExceptionInv ==
  ASSUME SInv, HostException
  PROVE  SInv'
<1>1. pc \in Writing /\ pc' = "exception" /\ exit' = exit
  BY DEF HostException
<1>2. PICK x, y, t, next : Prepared(x, y, t, next)
  BY <1>1, AlwaysFits
<1>3. Write(pc).at = <<x, y>> /\ Write(pc).text = t
  BY <1>2 DEF Prepared, Call
<1>4. PICK n \in 0..(Len(t) - 1) : MonitorWriteCut(<<x, y>>, t, n)
  BY <1>3 DEF HostException
<1>5. VideoOK /\ cursorLocation \in 0..(Word - 1)
  BY Zenon DEF SInv, CursorOK
<1>6. VideoOK' /\ cursor_x' \in 0..159 /\ cursor_y' \in 0..(Rows - 1) /\ UNCHANGED cursorLocation
  BY <1>2, <1>4, <1>5, WrittenCut DEF Prepared
<1>7. CursorOK'
  BY <1>5, <1>6, Zenon DEF CursorOK
<1>8. ControlOK'
  <2>1. exit \in Exits
    BY Zenon DEF SInv, ControlOK
  <2>2. (exit \in Exits)'
    BY <1>1, <2>1, Zenon DEF Exits, Dword
  <2> QED
    BY <1>1, <2>2, TrapsCounted, Zenon DEF ControlOK, Writing, Report, NoTrap
<1>9. StatusDue' /\ ReasonDue' /\ ToiletDue' /\ ReportDue'
  BY <1>1, Zenon DEF StatusDue, ReasonDue, ToiletDue, ReportDue, Toilet
<1> QED
  BY <1>7, <1>8, <1>9 DEF SInv

LEMMA ClearInv ==
  ASSUME SInv, MonitorClear
  PROVE  SInv'
<1>1. /\ pc = "clear" /\ pc' = "entering" /\ cursor_x' = 0 /\ cursor_y' = 0 /\ cursorLocation' = 0
      /\ video' = [c \in DOMAIN video \ OnScreen |-> video[c]]
      /\ UNCHANGED <<gInterceptCount, exit, trap>>
  BY DEF MonitorClear
<1>2. VideoOK'
  <2>1. VideoOK
    BY DEF SInv, CursorOK
  <2> QED
    BY <1>1, <2>1, Zenon DEF VideoOK, OnScreen
<1>3. 0 \in 0..159 /\ 0 \in 0..(Rows - 1) /\ 0 \in 0..(Word - 1)
  BY SMT DEF Rows, Word
<1>4. CursorOK'
  BY <1>1, <1>2, <1>3, Zenon DEF CursorOK
<1>5. ControlOK'
  <2>1. /\ gInterceptCount \in 0..MaxExits /\ gInterceptCount = 0 /\ exit \in Exits
        /\ trap = NoTrap
    BY <1>1, Zenon DEF SInv, ControlOK, Report
  <2> QED
    BY <1>1, <2>1, Zenon DEF ControlOK, Report, Writing, Exits, Dword, NoTrap
<1>6. StatusDue' /\ ReasonDue' /\ ToiletDue' /\ ReportDue'
  BY <1>1, Zenon DEF StatusDue, ReasonDue, ToiletDue, ReportDue, Toilet
<1> QED
  BY <1>4, <1>5, <1>6 DEF SInv

LEMMA ExitsKnown ==
  [mode : Modes, code : Codes \cup {HLT, NMI, SHUTDOWN, INVALID}, info : Infos,
   intf : BOOLEAN] \subseteq Exits
<1>1. 0..(Word - 1) \subseteq Dword
  <2>1. Word \in Nat /\ MaxDword \in Nat /\ Word <= MaxDword
    BY DwordAssumption, SMT DEF Word
  <2> QED
    BY <2>1, SMT DEF Dword
<1>2. {HLT, NMI, SHUTDOWN, INVALID} \subseteq Dword
  <2>1. MaxDword \in Nat /\ 65536 <= MaxDword
    BY DwordAssumption, SMT DEF Word
  <2> QED
    BY <2>1, SMT DEF HLT, NMI, SHUTDOWN, INVALID, Dword
<1>3. Codes \subseteq Dword
  BY <1>1, ScreenAssumption, Zenon
<1>4. Codes \cup {HLT, NMI, SHUTDOWN, INVALID} \subseteq Dword
  BY <1>2, <1>3, Zenon
<1>5. Modes \subseteq [pe : BOOLEAN, pg : BOOLEAN] /\ Infos \subseteq Dword \X Dword
  BY ScreenAssumption DEF Dword
<1> DEFINE All == Codes \cup {HLT, NMI, SHUTDOWN, INVALID}
<1> HIDE DEF All
<1>6. [mode : Modes, code : All, info : Infos, intf : BOOLEAN] \subseteq Exits
  BY <1>4, <1>5, SMT DEF Exits, All
<1> QED
  BY <1>6 DEF All

LEMMA GuestInv ==
  ASSUME SInv, GuestExits
  PROVE  SInv'
<1>1. /\ pc = "guest" /\ pc' = "mode" /\ gInterceptCount < MaxExits
      /\ UNCHANGED <<cursor_x, cursor_y, cursorLocation, video, gInterceptCount, trap>>
  BY DEF GuestExits, cursor
<1>2. exit' \in Exits
  BY ExitsKnown DEF GuestExits
<1>3. CursorOK'
  BY <1>1, Zenon DEF SInv, CursorOK, VideoOK, OnScreen, Chars
<1>4. ControlOK'
  <2>1. gInterceptCount \in 0..MaxExits /\ trap = NoTrap
    BY <1>1, Zenon DEF SInv, ControlOK, Report
  <2> QED
    BY <1>1, <1>2, <2>1, Zenon DEF ControlOK, Report, Status, Writing, Exits, Dword, NoTrap
<1>5. StatusDue' /\ ReasonDue' /\ ToiletDue' /\ ReportDue'
  BY <1>1, Zenon DEF StatusDue, ReasonDue, ToiletDue, ReportDue, Toilet
<1> QED
  BY <1>3, <1>4, <1>5 DEF SInv

LEMMA InitInv == Init => SInv
<1> SUFFICES ASSUME Init
             PROVE  SInv
  OBVIOUS
<1>1. /\ cursor_x = 0 /\ cursor_y = 0 /\ cursorLocation = 0
      /\ video = [c \in 80..94 |-> [of |-> "Visor loaded", k |-> c]]
      /\ gInterceptCount = 0 /\ exit = NoExit /\ trap = NoTrap /\ pc = "clear"
  BY DEF Init
<1>2. 0 \in 0..159 /\ 0 \in 0..(Rows - 1) /\ 0 \in 0..(Word - 1)
  BY SMT DEF Rows, Word
<1>3. VideoOK
  <2>1. \A c \in 80..94 : c \in Nat /\ c \in OnScreen
    BY SMT DEF OnScreen, Rows, Columns
  <2>2. \A c \in 80..94 : [of |-> "Visor loaded", k |-> c] \in Chars
    BY <2>1, Zenon DEF Chars
  <2> QED
    BY <1>1, <2>1, <2>2, Zenon DEF VideoOK
<1>4. CursorOK
  BY <1>1, <1>2, <1>3, Zenon DEF CursorOK
<1>5. ControlOK
  <2>1. 0 \in 0..MaxExits /\ 0 \in Dword
    BY ScreenAssumption, DwordAssumption, SMT DEF Dword
  <2>2. NoExit \in Exits
    BY <2>1, SMT DEF NoExit, Exits
  <2> QED
    BY <1>1, <2>1, <2>2, Zenon DEF ControlOK, Report
<1>6. StatusDue /\ ReasonDue /\ ToiletDue /\ ReportDue
  BY <1>1, Zenon DEF StatusDue, ReasonDue, ToiletDue, ReportDue, Toilet
<1> QED
  BY <1>4, <1>5, <1>6 DEF SInv

LEMMA StutterInv ==
  ASSUME SInv, UNCHANGED vars
  PROVE  SInv'
<1>1. UNCHANGED <<cursor_x, cursor_y, cursorLocation, video, gInterceptCount, exit, trap, pc>>
  BY DEF vars, cursor
<1>2. CursorOK' /\ ControlOK'
  BY <1>1, Zenon DEF SInv, CursorOK, VideoOK, OnScreen, Chars, ControlOK, Exits, Dword, NoTrap
<1>3. Count' = Count
  BY <1>1 DEF Count
<1>4. StatusDue' /\ ReasonDue'
  <2>1. StatusLine(exit, Count)' = StatusLine(exit, Count)
    BY <1>1, <1>3
  <2>2. StatusDue'
    BY <1>1, <2>1, Zenon DEF SInv, StatusDue, CursorAt
  <2>3. ReasonDue'
    BY <1>1, Zenon DEF SInv, ReasonDue, CursorAt
  <2> QED
    BY <2>2, <2>3
<1>5. Reason => Reason'
  BY <1>1, Zenon DEF Reason
<1>6. ToiletDue'
  BY <1>1, <1>5, Zenon DEF SInv, ToiletDue, CursorAt, NoTrap
<1>7. ReportDue'
  <2>1. Told' = Told
    BY <1>1 DEF Told
  <2> QED
    BY <1>1, <2>1, Zenon DEF SInv, ReportDue, CursorAt, NoTrap
<1> QED
  BY <1>2, <1>4, <1>6, <1>7 DEF SInv

(* The invariant of VisorLoop, InfiniteLoop and host_isr_handler as they    *)
(* write: what stands already, and where the cursor is, at every string.    *)
THEOREM ScreenInvariant == Spec => []SInv
<1>1. Init => SInv
  BY InitInv
<1>2. SInv /\ [Next]_vars => SInv'
  BY ClearInv, WritesInv, GuestInv, ExceptionInv, StutterInv DEF Next
<1> QED
  BY <1>1, <1>2, PTL DEF Spec
-----------------------------------------------------------------------------
(* What can be read.                                                        *)

LEMMA ReadsLiteral ==
  ASSUME NEW t \in DOMAIN Literals, NEW c, Stands(video, c, Literal(t))
  PROVE  Reads(c, t)
<1>1. \A k \in 1..Literals[t] : Literal(t)[k] = [of |-> t, k |-> k]
  BY LiteralText
<1>2. Len(Literal(t)) = Literals[t]
  BY LiteralText
<1>3. \A k \in 1..Literals[t] : ShownIn(video, c + k - 1) = Literal(t)[k]
  BY <1>2, Zenon DEF Stands
<1> QED
  BY <1>1, <1>3, Zenon DEF Reads, Shown, ShownIn

LEMMA ReadsItoa ==
  ASSUME NEW v \in Dword, NEW c, Stands(video, c, Itoa(v))
  PROVE  ReadsNumber(c, v)
<1>1. \A k \in 1..Width(v) : Itoa(v)[k] = Digit((v \div Place[Width(v) + 1 - k]) % 16)
  BY ItoaPlaces
<1>2. Len(Itoa(v)) = Width(v)
  BY ItoaPlaces
<1>3. \A k \in 1..Width(v) : ShownIn(video, c + k - 1) = Itoa(v)[k]
  BY <1>2, Zenon DEF Stands
<1> QED
  BY <1>1, <1>3, Zenon DEF ReadsNumber, Shown, ShownIn

LEMMA StandsAt ==
  ASSUME NEW s, NEW i, NEW c, NEW t, s[i] = At(c, t), Stands(video, s[i].at, s[i].text)
  PROVE  Stands(video, c, t)
BY DEF At

(* The cursor stays on the screen, so the visor never scrolls, and no cell  *)
(* behind the screen is written.                                            *)
THEOREM ScreenTypeCorrect == Spec => []TypeOK
<1>1. SInv => TypeOK
  BY Zenon DEF SInv, CursorOK, VideoOK, ControlOK, TypeOK
<1> QED
  BY <1>1, ScreenInvariant, PTL

(* When the guest goes on, the line about its latest exit can be read.      *)
THEOREM StatusAlwaysShown == Spec => []StatusShown
<1>1. ASSUME SInv, pc = "guest", gInterceptCount > 0
      PROVE  StatusShown
  <2> DEFINE s == StatusLine(exit, gInterceptCount)
  <2>1. exit \in Exits /\ gInterceptCount \in Dword
    BY <1>1, ScreenAssumption, DwordAssumption, SMT DEF SInv, ControlOK, Dword
  <2>2. Legible(video, s, 9)
    BY <1>1, Zenon DEF SInv, StatusDue, Count
  <2>3. exit.code \in Dword /\ exit.info[1] \in Dword /\ exit.info[2] \in Dword
    BY <2>1, SMT DEF Exits
  <2>4. 1 \in 1..9 /\ 2 \in 1..9 /\ 3 \in 1..9 /\ 4 \in 1..9 /\ 5 \in 1..9 /\ 6 \in 1..9
        /\ 7 \in 1..9 /\ 8 \in 1..9 /\ 9 \in 1..9
    BY SMT
  <2>5. /\ Stands(video, s[1].at, s[1].text) /\ Stands(video, s[2].at, s[2].text)
        /\ Stands(video, s[3].at, s[3].text) /\ Stands(video, s[4].at, s[4].text)
        /\ Stands(video, s[5].at, s[5].text) /\ Stands(video, s[6].at, s[6].text)
        /\ Stands(video, s[7].at, s[7].text) /\ Stands(video, s[8].at, s[8].text)
        /\ Stands(video, s[9].at, s[9].text)
    BY <2>2, <2>4, Zenon DEF Legible
  <2> DEFINE c0 == IF exit.mode.pe THEN 1 ELSE 20
             c1 == c0 + 1
             c2 == c1 + 6
             c3 == c2 + Width(gInterceptCount)
             c4 == c3 + 8
             c5 == c4 + Width(exit.code)
             c6 == c5 + 9
             c7 == c6 + Width(exit.info[1])
             t0 == IF exit.mode.pe THEN "P" ELSE "R"
             t1 == IF exit.mode.pg THEN "G" ELSE "n"
  <2>6. s = <<At(c0, Literal(t0)), At(c1, Literal(t1)), At(c2, Itoa(gInterceptCount)),
              At(c3, Literal("Exit")), At(c4, Itoa(exit.code)), At(c5, Literal("Info1")),
              At(c6, Itoa(exit.info[1])), At(c7, Literal("Info2")),
              At(c7 + 9, Itoa(exit.info[2]))>>
    BY DEF StatusLine
  <2>7. t0 \in DOMAIN Literals /\ t1 \in DOMAIN Literals
    BY LiteralNames, Zenon
  <2>8. "Exit" \in DOMAIN Literals /\ "Info1" \in DOMAIN Literals /\ "Info2" \in DOMAIN Literals
    BY LiteralNames, Zenon
  <2>9. StatusShown <=>
          /\ Reads(c0, t0) /\ Reads(c1, t1) /\ ReadsNumber(c2, gInterceptCount)
          /\ Reads(c3, "Exit") /\ ReadsNumber(c4, exit.code)
          /\ Reads(c5, "Info1") /\ ReadsNumber(c6, exit.info[1])
          /\ Reads(c7, "Info2") /\ ReadsNumber(c7 + 9, exit.info[2])
    BY <1>1, Zenon DEF StatusShown
  <2> HIDE DEF s, c0, c1, c2, c3, c4, c5, c6, c7, t0, t1
  <2>10. /\ s[1] = At(c0, Literal(t0)) /\ s[2] = At(c1, Literal(t1))
         /\ s[3] = At(c2, Itoa(gInterceptCount)) /\ s[4] = At(c3, Literal("Exit"))
         /\ s[5] = At(c4, Itoa(exit.code)) /\ s[6] = At(c5, Literal("Info1"))
         /\ s[7] = At(c6, Itoa(exit.info[1])) /\ s[8] = At(c7, Literal("Info2"))
         /\ s[9] = At(c7 + 9, Itoa(exit.info[2]))
    BY <2>6
  <2>11. /\ Stands(video, c0, Literal(t0)) /\ Stands(video, c1, Literal(t1))
         /\ Stands(video, c2, Itoa(gInterceptCount)) /\ Stands(video, c3, Literal("Exit"))
         /\ Stands(video, c4, Itoa(exit.code)) /\ Stands(video, c5, Literal("Info1"))
         /\ Stands(video, c6, Itoa(exit.info[1])) /\ Stands(video, c7, Literal("Info2"))
         /\ Stands(video, c7 + 9, Itoa(exit.info[2]))
    BY <2>5, <2>10, StandsAt, ZenonT(30)
  <2> QED
    BY <2>1, <2>3, <2>7, <2>8, <2>9, <2>11, ReadsLiteral, ReadsItoa, Zenon
<1>2. SInv => StatusShown
  BY <1>1, Zenon DEF StatusShown
<1> QED
  BY <1>2, ScreenInvariant, PTL

(* When the visor gives up, its reason, the exit code and the guest's       *)
(* control registers can all be read.                                       *)
THEOREM LastWordsAlwaysShown == Spec => []LastWordsShown
<1>1. ASSUME SInv, pc = "stop", trap = NoTrap
      PROVE  /\ Reads(Row(15), "Toilet") /\ ReadsNumber(Row(15) + 57, exit.code)
             /\ Reads(Row(17), "CR0value") /\ ReadsNumber(Row(17) + 11, CR0)
             /\ Reads(Row(17) + 11 + Width(CR0), "CR3value")
             /\ ReadsNumber(Row(17) + 11 + Width(CR0) + 13, CR3)
  <2> DEFINE s == ToiletLines(exit)
             w == Width(CR0)
  <2>1. exit.code \in Dword /\ CR0 \in Dword /\ CR3 \in Dword
    BY <1>1, ScreenAssumption, SMT DEF SInv, ControlOK, Exits, Dword
  <2>2. Legible(video, s, 6)
    BY <1>1, Zenon DEF SInv, ToiletDue, NoTrap
  <2>3. 1 \in 1..6 /\ 2 \in 1..6 /\ 3 \in 1..6 /\ 4 \in 1..6 /\ 5 \in 1..6 /\ 6 \in 1..6
    BY SMT
  <2>4. /\ Stands(video, s[1].at, s[1].text) /\ Stands(video, s[2].at, s[2].text)
        /\ Stands(video, s[3].at, s[3].text) /\ Stands(video, s[4].at, s[4].text)
        /\ Stands(video, s[5].at, s[5].text) /\ Stands(video, s[6].at, s[6].text)
    BY <2>2, <2>3, Zenon DEF Legible
  <2>5. s = <<At(1200, Literal("Toilet")), At(1257, Itoa(exit.code)),
              At(1360, Literal("CR0value")), At(1371, Itoa(CR0)),
              At(1371 + w, Literal("CR3value")), At(1371 + w + 13, Itoa(CR3))>>
    BY DEF ToiletLines
  <2>6. w \in Nat
    BY <2>1, NumberSizes
  <2> DEFINE c1 == Row(15)
             c2 == Row(15) + 57
             c3 == Row(17)
             c4 == Row(17) + 11
             c5 == c4 + w
             c6 == c5 + 13
  <2>7. /\ c1 = 1200 /\ c2 = 1257 /\ c3 = 1360 /\ c4 = 1371
        /\ c5 = 1371 + w /\ c6 = 1371 + w + 13
    BY <2>6, SMT DEF Row, Columns
  <2> HIDE DEF s, w, c1, c2, c3, c4, c5, c6
  <2>8. /\ s[1] = At(c1, Literal("Toilet")) /\ s[2] = At(c2, Itoa(exit.code))
        /\ s[3] = At(c3, Literal("CR0value")) /\ s[4] = At(c4, Itoa(CR0))
        /\ s[5] = At(c5, Literal("CR3value")) /\ s[6] = At(c6, Itoa(CR3))
    BY <2>5, <2>7
  <2>9. /\ Stands(video, c1, Literal("Toilet")) /\ Stands(video, c2, Itoa(exit.code))
        /\ Stands(video, c3, Literal("CR0value")) /\ Stands(video, c4, Itoa(CR0))
        /\ Stands(video, c5, Literal("CR3value")) /\ Stands(video, c6, Itoa(CR3))
    BY <2>4, <2>8, StandsAt, Zenon
  <2>10. /\ "Toilet" \in DOMAIN Literals /\ "CR0value" \in DOMAIN Literals
         /\ "CR3value" \in DOMAIN Literals
    BY LiteralNames, Zenon
  <2>11. /\ Reads(c1, "Toilet") /\ ReadsNumber(c2, exit.code)
         /\ Reads(c3, "CR0value") /\ ReadsNumber(c4, CR0)
         /\ Reads(c5, "CR3value") /\ ReadsNumber(c6, CR3)
    BY <2>1, <2>9, <2>10, ReadsLiteral, ReadsItoa, Zenon
  <2> QED
    BY <2>11, Zenon DEF w, c1, c2, c3, c4, c5, c6
<1>2. ASSUME SInv, pc = "stop", trap = NoTrap
      PROVE  /\ exit.code = HLT => Reads(Row(1), "Halted")
             /\ exit.code = NMI => Reads(Row(1), "Nmi")
             /\ exit.code = SHUTDOWN => \E c \in 0..(2 * Columns) : Reads(c, "Shutdown")
             /\ exit.code = INVALID =>
                  Reads(Row(2), "Unknown") /\ ReadsNumber(Row(2) + 19, exit.code)
  <2>1. Reason
    BY <1>2, Zenon DEF SInv, ToiletDue, NoTrap
  <2>2. exit.code \in Dword
    BY <1>2, SMT DEF SInv, ControlOK, Exits
  <2>3. /\ "Halted" \in DOMAIN Literals /\ "Nmi" \in DOMAIN Literals
        /\ "Shutdown" \in DOMAIN Literals /\ "Unknown" \in DOMAIN Literals
    BY LiteralNames, Zenon
  <2>4. Row(1) = 80 /\ Row(2) = 160 /\ Row(2) + 19 = 179
    BY SMT DEF Row, Columns
  <2> DEFINE d == Row(2) + 19
  <2>5. /\ exit.code = HLT => Stands(video, Row(1), Literal("Halted"))
        /\ exit.code = NMI => Stands(video, Row(1), Literal("Nmi"))
        /\ exit.code = SHUTDOWN => \E c \in 0..(2 * Columns) : Stands(video, c, Literal("Shutdown"))
        /\ exit.code = INVALID =>
             Stands(video, Row(2), Literal("Unknown")) /\ Stands(video, d, Itoa(exit.code))
    <3>1. /\ exit.code = HLT => Stands(video, Row(1), Literal("Halted"))
          /\ exit.code = NMI => Stands(video, Row(1), Literal("Nmi"))
      BY <2>1, <2>4 DEF Reason
    <3>2. exit.code = SHUTDOWN => \E c \in 0..(2 * Columns) : Stands(video, c, Literal("Shutdown"))
      <4>1. \A c \in 0..85 : c \in 0..(2 * Columns)
        BY SMT DEF Columns
      <4>2. exit.code = SHUTDOWN => \E c \in 0..85 : Stands(video, c, Literal("Shutdown"))
        BY <2>1, Zenon DEF Reason
      <4> QED
        BY <4>1, <4>2, Zenon
    <3>3. exit.code = INVALID => Stands(video, Row(2), Literal("Unknown"))
      BY <2>1, <2>4 DEF Reason
    <3>4. exit.code = INVALID => Stands(video, d, Itoa(exit.code))
      BY <2>1, <2>4 DEF Reason
    <3> QED
      BY <3>1, <3>2, <3>3, <3>4, Zenon
  <2> HIDE DEF d
  <2>6. exit.code = HLT => Reads(Row(1), "Halted")
    BY <2>3, <2>5, ReadsLiteral, Zenon
  <2>7. exit.code = NMI => Reads(Row(1), "Nmi")
    BY <2>3, <2>5, ReadsLiteral, Zenon
  <2>8. exit.code = SHUTDOWN => \E c \in 0..(2 * Columns) : Reads(c, "Shutdown")
    BY <2>3, <2>5, ReadsLiteral, Zenon
  <2>9. exit.code = INVALID => Reads(Row(2), "Unknown") /\ ReadsNumber(d, exit.code)
    BY <2>2, <2>3, <2>5, ReadsLiteral, ReadsItoa, Zenon
  <2> QED
    BY <2>6, <2>7, <2>8, <2>9, Zenon DEF d
<1>3. SInv => LastWordsShown
  BY <1>1, <1>2, Zenon DEF LastWordsShown
<1> QED
  BY <1>3, ScreenInvariant, PTL

(* The report of an exception in the visor can be read in full, whatever it *)
(* broke into: CS and EIP, or EIP and the error code if there is one.       *)
THEOREM ReportAlwaysShown == Spec => []ReportShown
<1>1. ASSUME SInv, pc = "stop", trap # NoTrap
      PROVE  LET c == Row(16) + 50 + Width(Told[1])
             IN  /\ Reads(Row(16), "Exception") /\ ReadsNumber(Row(16) + 50, Told[1])
                 /\ Reads(c, "Colon") /\ ReadsNumber(c + 1, Told[2])
  <2> DEFINE s == ReportLine(Told)
             w == Width(Told[1])
  <2>1. Told[1] \in Dword /\ Told[2] \in Dword
    BY <1>1, TrapDwords, SMT DEF SInv
  <2>2. Legible(video, s, 4)
    BY <1>1, Zenon DEF SInv, ReportDue, NoTrap
  <2>3. 1 \in 1..4 /\ 2 \in 1..4 /\ 3 \in 1..4 /\ 4 \in 1..4
    BY SMT
  <2>4. /\ Stands(video, s[1].at, s[1].text) /\ Stands(video, s[2].at, s[2].text)
        /\ Stands(video, s[3].at, s[3].text) /\ Stands(video, s[4].at, s[4].text)
    BY <2>2, <2>3, Zenon DEF Legible
  <2>5. s = <<At(1280, Literal("Exception")), At(1330, Itoa(Told[1])),
              At(1330 + w, Literal("Colon")), At(1330 + w + 1, Itoa(Told[2]))>>
    BY DEF ReportLine
  <2>6. w \in Nat
    BY <2>1, NumberSizes
  <2> DEFINE c1 == Row(16)
             c2 == Row(16) + 50
             c3 == Row(16) + 50 + w
             c4 == c3 + 1
  <2>7. c1 = 1280 /\ c2 = 1330 /\ c3 = 1330 + w /\ c4 = 1330 + w + 1
    BY <2>6, SMT DEF Row, Columns
  <2> HIDE DEF s, w, c1, c2, c3, c4
  <2>8. /\ s[1] = At(c1, Literal("Exception")) /\ s[2] = At(c2, Itoa(Told[1]))
        /\ s[3] = At(c3, Literal("Colon")) /\ s[4] = At(c4, Itoa(Told[2]))
    BY <2>5, <2>7
  <2>9. /\ Stands(video, c1, Literal("Exception")) /\ Stands(video, c2, Itoa(Told[1]))
        /\ Stands(video, c3, Literal("Colon")) /\ Stands(video, c4, Itoa(Told[2]))
    BY <2>4, <2>8, StandsAt, Zenon
  <2>10. "Exception" \in DOMAIN Literals /\ "Colon" \in DOMAIN Literals
    BY LiteralNames, Zenon
  <2>11. /\ Reads(c1, "Exception") /\ ReadsNumber(c2, Told[1])
         /\ Reads(c3, "Colon") /\ ReadsNumber(c4, Told[2])
    BY <2>1, <2>9, <2>10, ReadsLiteral, ReadsItoa, Zenon
  <2> QED
    BY <2>11, Zenon DEF w, c1, c2, c3, c4
<1>2. ASSUME SInv, trap # NoTrap
      PROVE  /\ Told[1] = IF trap.err = NoCode THEN trap.cs ELSE trap.ip % Word
             /\ Told[2] = IF trap.err = NoCode THEN trap.ip % Word ELSE trap.err
  <2>1. trap \in [cs : 1..(Word - 1), ip : 0..MaxDword, err : (0..(Word - 1)) \cup {NoCode}]
    BY <1>2, ScreenAssumption, Zenon DEF SInv, ControlOK
  <2>2. /\ trap.cs \in Nat /\ trap.cs < Word
        /\ trap.err # NoCode => trap.err \in Nat /\ trap.err < Word
    <3>1. /\ trap.cs \in 1..(Word - 1)
          /\ trap.err \in (0..(Word - 1)) \cup {NoCode}
      BY <2>1, SMT
    <3>2. /\ \A c \in 0..(Word - 1) : c \in Nat /\ c < Word
          /\ \A c \in 1..(Word - 1) : c \in Nat /\ c < Word
      BY SMT DEF Word
    <3> QED
      BY <3>1, <3>2, Zenon
  <2>3. trap.cs % Word = trap.cs /\ (trap.err # NoCode => trap.err % Word = trap.err)
    BY <2>2, LowWord, Zenon
  <2> QED
    BY <2>3, SMT DEF Told, ExcCS, ExcIP, At4, At8
<1>3. SInv => ReportShown
  BY <1>1, <1>2, Zenon DEF ReportShown
<1> QED
  BY <1>3, ScreenInvariant, PTL
=============================================================================
