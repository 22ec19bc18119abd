----------------------------- MODULE VmmProofs ------------------------------
(***************************************************************************)
(* Proofs about the page tables (module Vmm), for any number of processes, *)
(* any size of the tables and any layout of memory that keeps the halves   *)
(* of the address space apart.                                             *)
(***************************************************************************)
EXTENDS Vmm, TLAPS

USE Zenon

-----------------------------------------------------------------------------
(* The numbers of the levels.                                              *)
LEMMA Numbers ==
    /\ 0 \in Nat /\ 1 \in Nat /\ 1 \in Nat \ {0} /\ 3 \in 0 .. 3 /\ 1 \in 1 .. 1
    /\ 0 # 3 /\ 1 # 0 /\ 0 < 3 /\ 1 < 3 /\ 2 < 3 /\ ~(3 < 3) /\ 3 > 0 /\ 1 > 0 /\ ~(0 > 0)
<1> QED
    BY SMT

(* Division, as the SMT solver does not know it for divisors that are not  *)
(* numerals.                                                               *)
LEMMA Div ==
    ASSUME NEW a \in Nat, NEW n \in Nat \ {0}
    PROVE  /\ a \div n \in Nat /\ a % n \in 0 .. n - 1
           /\ a = n * (a \div n) + (a % n)
<1> QED
    BY SMT

(* The quotient and the remainder are the only ones.                       *)
LEMMA DivUnique ==
    ASSUME NEW a \in Nat, NEW n \in Nat \ {0}, NEW q \in Nat, NEW r \in 0 .. n - 1,
           a = n * q + r
    PROVE  a \div n = q /\ a % n = r
<1> QED
    BY SMT

(* Dividing by a product is dividing twice.                                *)
LEMMA DivDiv ==
    ASSUME NEW a \in Nat, NEW m \in Nat \ {0}, NEW n \in Nat \ {0}
    PROVE  a \div (m * n) = (a \div m) \div n
<1> DEFINE q == a \div m  r == a % m  s == q \div n  t == q % n
<1>1. /\ q \in Nat /\ r \in 0 .. m - 1 /\ a = m * q + r
      /\ s \in Nat /\ t \in 0 .. n - 1 /\ q = n * s + t
    BY Div
<1> HIDE DEF q, r, s, t
<1>2. m * n \in Nat \ {0}
    BY SMT
<1>3. a = (m * n) * s + (m * t + r)
    BY <1>1, SMT
<1>4. m * t + r \in 0 .. (m * n) - 1
    <2>1. m * t <= m * (n - 1)
        BY <1>1, SMT
    <2> QED
        BY <1>1, <2>1, SMT
<1>5. a \div (m * n) = s
    BY <1>1, <1>2, <1>3, <1>4, DivUnique, SMT
<1> QED
    BY <1>5 DEF q, s

(* The indices are the digits of a page, most significant first.           *)
LEMMA Digits ==
    ASSUME NEW v \in Pages
    PROVE  /\ v \in Nat
           /\ \A l \in 0 .. 3 : Index(v, l) \in 0 .. ENTRIES - 1
           /\ v = ENTRIES * (ENTRIES * (ENTRIES * Index(v, 3) + Index(v, 2)) + Index(v, 1)) + Index(v, 0)
<1> DEFINE E == ENTRIES
           a == v \div E  b == a \div E  c == b \div E
<1>1. E \in Nat \ {0} /\ v \in Nat /\ v < E * E * E * E
    BY VmmAssumption, SMT DEF Pages
<1>2. /\ a \in Nat /\ v % E \in 0 .. E - 1 /\ v = E * a + (v % E)
      /\ b \in Nat /\ a % E \in 0 .. E - 1 /\ a = E * b + (a % E)
      /\ c \in Nat /\ b % E \in 0 .. E - 1 /\ b = E * c + (b % E)
    <2> HIDE DEF E
    <2>1. a \in Nat /\ v % E \in 0 .. E - 1 /\ v = E * a + (v % E)
        BY <1>1, Div
    <2> HIDE DEF a
    <2>2. b \in Nat /\ a % E \in 0 .. E - 1 /\ a = E * b + (a % E)
        BY <1>1, <2>1, Div
    <2> HIDE DEF b
    <2>3. c \in Nat /\ b % E \in 0 .. E - 1 /\ b = E * c + (b % E)
        BY <1>1, <2>2, Div
    <2> QED
        BY <2>1, <2>2, <2>3
<1>3. E * E \in Nat \ {0} /\ v \div (E * E) = b /\ v \div (E * E * E) = c
    <2> HIDE DEF E
    <2>1. E * E \in Nat \ {0}
        BY <1>1, SMT
    <2>2. v \div (E * E) = b
        BY <1>1, DivDiv
    <2>3. v \div (E * E * E) = (v \div (E * E)) \div E
        BY <1>1, <2>1, DivDiv
    <2> QED
        BY <2>1, <2>2, <2>3
<1>4. /\ Index(v, 0) = v % E /\ Index(v, 1) = a % E
      /\ Index(v, 2) = b % E /\ Index(v, 3) = c % E
    BY <1>3, SMT DEF Index
<1>5. c \in 0 .. E - 1 /\ c % E = c
    <2> HIDE DEF E, a, b, c
    <2>1. SUFFICES ASSUME c >= E PROVE FALSE
        BY <1>1, <1>2, SMT
    <2>2. b >= E * E
        <3>1. E * c >= E * E
            BY <1>1, <1>2, <2>1, SMT
        <3> QED
            BY <1>1, <1>2, <3>1, SMT
    <2>3. a >= E * E * E
        <3>1. E * b >= E * (E * E)
            BY <1>1, <1>2, <2>2, SMT
        <3> QED
            BY <1>1, <1>2, <3>1, SMT
    <2>4. v >= E * E * E * E
        <3>1. E * a >= E * (E * E * E)
            BY <1>1, <1>2, <2>3, SMT
        <3> QED
            BY <1>1, <1>2, <3>1, SMT
    <2> QED
        BY <1>1, <1>2, <2>4, SMT
<1>6. \A l \in 0 .. 3 : Index(v, l) \in 0 .. E - 1
    BY <1>1, <1>2, <1>4, <1>5, SMT
<1> QED
    BY <1>1, <1>2, <1>4, <1>5, <1>6

(* So two pages with the same indices are the same page.                   *)
LEMMA SamePage ==
    ASSUME NEW v \in Pages, NEW w \in Pages, \A l \in 0 .. 3 : Index(v, l) = Index(w, l)
    PROVE  v = w
<1>1. /\ Index(v, 0) = Index(w, 0) /\ Index(v, 1) = Index(w, 1)
      /\ Index(v, 2) = Index(w, 2) /\ Index(v, 3) = Index(w, 3)
    BY SMT
<1> QED
    BY <1>1, Digits

-----------------------------------------------------------------------------
(***************************************************************************)
(* The shape of the tables.                                                *)
(***************************************************************************)
Maps == Procs \cup {"kernel"}
Slot == 0 .. ENTRIES - 1
Upper(e) == 2 * e >= ENTRIES
Flag == {"PRESENT", "WRITE", "USER", "NX"}
Entry == [page : Nat, flags : SUBSET Flag]
Table == [Slot -> Entry]

(* The place of a table: whose it is, its level, and the table and the     *)
(* slot that lead to it.  The code keeps none of it.                       *)
Place == [own : Maps, lvl : 0 .. 3, up : Nat, ix : Nat]

TypesOf(ts, g) ==
    /\ ts \in Seq(Table) /\ Len(ts) > 0
    /\ g \in [1 .. Len(ts) -> Place]

(* Where an entry above the last level leads, and the rights it has: the   *)
(* upper half of every top table leads to the kernel's tables, as the      *)
(* kernel's top table does, and has no USER once the kernel uses it.       *)
Linked(ts, g, loaded) ==
    \A b \in 1 .. Len(ts), e \in Slot :
        g[b].lvl > 0 /\ ts[b][e] # Zero =>
            LET n == ts[b][e].page
                shared == g[b].lvl = 3 /\ Upper(e)
            IN  /\ n \in 1 .. Len(ts) /\ g[n].lvl = g[b].lvl - 1 /\ g[n].ix = e
                /\ g[n].own = IF shared THEN "kernel" ELSE g[b].own
                /\ g[n].up = IF shared THEN 1 ELSE b
                /\ ts[b][e].flags = {"PRESENT", "WRITE"} \cup
                                    (IF shared /\ loaded THEN {} ELSE {"USER"})

(* The top tables: the kernel's is the first, has no lower half, and the   *)
(* others, which are there only when it is in use, share its upper half.   *)
Tops(ts, g, loaded) ==
    /\ g[1].own = "kernel" /\ g[1].lvl = 3
    /\ \A e \in Slot : ~Upper(e) => ts[1][e] = Zero
    /\ \A b \in 1 .. Len(ts) : g[b].lvl = 3 /\ b # 1 =>
            loaded /\ \A e \in Slot : Upper(e) => ts[b][e] = ts[1][e]

(* What the kernel maps is not for users.                                  *)
KernelLeaves(ts, g) ==
    \A b \in 1 .. Len(ts), e \in Slot :
        g[b].lvl = 0 /\ g[b].own = "kernel" => "USER" \notin ts[b][e].flags

Tree(ts, g, loaded) ==
    TypesOf(ts, g) /\ Linked(ts, g, loaded) /\ Tops(ts, g, loaded) /\ KernelLeaves(ts, g)

(* The table of the last level that a page map has for a page, or 0, and   *)
(* what the processor finds.                                               *)
Third(ts, r, v) == ts[r][Index(v, 3)]
Second(ts, r, v) == ts[Third(ts, r, v).page][Index(v, 2)]
First(ts, r, v) == ts[Second(ts, r, v).page][Index(v, 1)]
Leaf(ts, r, v) ==
    IF Absent(Third(ts, r, v)) \/ Absent(Second(ts, r, v)) \/ Absent(First(ts, r, v))
    THEN 0 ELSE First(ts, r, v).page
View(ts, r, v) ==
    IF Leaf(ts, r, v) = 0 \/ Absent(ts[Leaf(ts, r, v)][Index(v, 0)])
    THEN NoMap ELSE ts[Leaf(ts, r, v)][Index(v, 0)]

(* The indices of a page are slots, and its half is that of its top index. *)
LEMMA Slots ==
    ASSUME NEW v \in Pages
    PROVE  /\ Index(v, 0) \in Slot /\ Index(v, 1) \in Slot
           /\ Index(v, 2) \in Slot /\ Index(v, 3) \in Slot
           /\ v \in High <=> Upper(Index(v, 3))
           /\ v \in Low <=> ~Upper(Index(v, 3))
<1> QED
    BY Digits, SMTT(30) DEF Slot, High, Low, Upper

(* An entry above the last level that is absent is zero.                   *)
LEMMA Step ==
    ASSUME NEW ts, NEW g, NEW loaded, Tree(ts, g, loaded),
           NEW b \in 1 .. Len(ts), NEW e \in Slot, g[b].lvl > 0
    PROVE  /\ ts[b][e] \in Entry
           /\ Absent(ts[b][e]) <=> ts[b][e] = Zero
           /\ ~Absent(ts[b][e]) =>
                LET n == ts[b][e].page
                    shared == g[b].lvl = 3 /\ Upper(e)
                IN  /\ n \in 1 .. Len(ts) /\ g[n].lvl = g[b].lvl - 1 /\ g[n].ix = e
                    /\ g[n].own = IF shared THEN "kernel" ELSE g[b].own
                    /\ g[n].up = IF shared THEN 1 ELSE b
                    /\ ts[b][e].flags = {"PRESENT", "WRITE"} \cup
                                        (IF shared /\ loaded THEN {} ELSE {"USER"})
<1>1. ts[b] \in Table
    BY SMT DEF Tree, TypesOf
<1>2. ts[b][e] \in Entry
    BY <1>1 DEF Table
<1>3. ts[b][e] = Zero => Absent(ts[b][e])
    BY SMT DEF Zero, Absent
<1>4. ts[b][e] # Zero => "PRESENT" \in ts[b][e].flags
    BY SMTT(30) DEF Tree, Linked
<1> QED
    BY <1>2, <1>3, <1>4, SMT DEF Tree, Linked, Absent

(* Where one entry leads, as Linked has it for all.                        *)
Link(ts, g, loaded, b, e) ==
    LET n == ts[b][e].page
        shared == g[b].lvl = 3 /\ Upper(e)
    IN  /\ n \in 1 .. Len(ts) /\ g[n].lvl = g[b].lvl - 1 /\ g[n].ix = e
        /\ g[n].own = IF shared THEN "kernel" ELSE g[b].own
        /\ g[n].up = IF shared THEN 1 ELSE b
        /\ ts[b][e].flags = {"PRESENT", "WRITE"} \cup (IF shared /\ loaded THEN {} ELSE {"USER"})

(* Where an entry above the last level leads.                              *)
LEMMA LinkOf ==
    ASSUME NEW ts, NEW g, NEW loaded, Tree(ts, g, loaded),
           NEW b \in 1 .. Len(ts), NEW e \in Slot, g[b].lvl > 0, ts[b][e] # Zero
    PROVE  Link(ts, g, loaded, b, e)
<1>1. Linked(ts, g, loaded)
    BY DEF Tree
<1> QED
    BY <1>1, SMT DEF Linked, Link

(* The same of an entry that is present.                                   *)
Entered(ts, g, b, e) ==
    b \in 1 .. Len(ts) /\ e \in Slot /\ g[b].lvl > 0 /\ ~Absent(ts[b][e])

(* An entry that is present leads to a table.                              *)
LEMMA StepLink ==
    ASSUME NEW ts, NEW g, NEW loaded, Tree(ts, g, loaded), NEW b, NEW e, Entered(ts, g, b, e)
    PROVE  Link(ts, g, loaded, b, e)
<1>1. b \in 1 .. Len(ts) /\ e \in Slot /\ g[b].lvl > 0 /\ ~Absent(ts[b][e])
    BY DEF Entered
<1>2. Absent(Zero)
    BY DEF Absent, Zero
<1> QED
    BY <1>1, <1>2, LinkOf

(* The table of the last level, and the way there.                         *)
LEMMA LeafPlace ==
    ASSUME NEW ts, NEW g, NEW loaded, Tree(ts, g, loaded),
           NEW r \in 1 .. Len(ts), g[r].lvl = 3, NEW v \in Pages, Leaf(ts, r, v) # 0
    PROVE  LET b == Leaf(ts, r, v)
               c == Second(ts, r, v).page
               d == Third(ts, r, v).page
           IN  /\ b \in 1 .. Len(ts) /\ g[b].lvl = 0 /\ g[b].ix = Index(v, 1) /\ g[b].up = c
               /\ c \in 1 .. Len(ts) /\ g[c].lvl = 1 /\ g[c].ix = Index(v, 2) /\ g[c].up = d
               /\ d \in 1 .. Len(ts) /\ g[d].lvl = 2 /\ g[d].ix = Index(v, 3)
               /\ g[d].up = IF v \in High THEN 1 ELSE r
               /\ g[b].own = IF v \in High THEN "kernel" ELSE g[r].own
               /\ ~Absent(Third(ts, r, v)) /\ ~Absent(Second(ts, r, v)) /\ ~Absent(First(ts, r, v))
               /\ b = First(ts, r, v).page
               /\ Third(ts, r, v).flags = {"PRESENT", "WRITE"} \cup
                        (IF v \in High /\ loaded THEN {} ELSE {"USER"})
               /\ Second(ts, r, v).flags = {"PRESENT", "WRITE", "USER"}
               /\ First(ts, r, v).flags = {"PRESENT", "WRITE", "USER"}
<1> DEFINE b == Leaf(ts, r, v)
           c == Second(ts, r, v).page
           d == Third(ts, r, v).page
<1>1. /\ ~Absent(Third(ts, r, v)) /\ ~Absent(Second(ts, r, v)) /\ ~Absent(First(ts, r, v))
      /\ b = First(ts, r, v).page
    BY DEF Leaf
<1>2. /\ d \in 1 .. Len(ts) /\ g[d].lvl = 2 /\ g[d].ix = Index(v, 3)
      /\ g[d].up = IF v \in High THEN 1 ELSE r
      /\ g[d].own = IF v \in High THEN "kernel" ELSE g[r].own
      /\ Third(ts, r, v).flags = {"PRESENT", "WRITE"} \cup
                        (IF v \in High /\ loaded THEN {} ELSE {"USER"})
    <2>1. /\ Index(v, 3) \in Slot /\ (v \in High <=> Upper(Index(v, 3)))
          /\ g[r].lvl > 0 /\ g[r].lvl - 1 = 2
        BY Slots, SMT
    <2>2. Entered(ts, g, r, Index(v, 3))
        BY <1>1, <2>1 DEF Entered, Third
    <2>3. Link(ts, g, loaded, r, Index(v, 3))
        BY <2>2, StepLink
    <2> QED
        BY <2>1, <2>3 DEF Link, Third
<1>3. /\ c \in 1 .. Len(ts) /\ g[c].lvl = 1 /\ g[c].ix = Index(v, 2) /\ g[c].up = d
      /\ g[c].own = g[d].own
      /\ Second(ts, r, v).flags = {"PRESENT", "WRITE", "USER"}
    <2>1. Second(ts, r, v) = ts[d][Index(v, 2)] /\ Index(v, 2) \in Slot
        BY Slots DEF Second
    <2>2. c = ts[d][Index(v, 2)].page
        BY <2>1
    <2> HIDE DEF c, d
    <2>3. g[d].lvl > 0 /\ ~(g[d].lvl = 3) /\ g[d].lvl - 1 = 1
        BY <1>2, SMT
    <2>4. Entered(ts, g, d, Index(v, 2))
        BY <1>1, <1>2, <2>1, <2>3 DEF Entered
    <2>5. Link(ts, g, loaded, d, Index(v, 2))
        BY <2>4, StepLink
    <2>6. {"PRESENT", "WRITE"} \cup {"USER"} = {"PRESENT", "WRITE", "USER"}
        OBVIOUS
    <2> QED
        BY <2>1, <2>2, <2>3, <2>5, <2>6 DEF Link
<1>4. /\ b \in 1 .. Len(ts) /\ g[b].lvl = 0 /\ g[b].ix = Index(v, 1) /\ g[b].up = c
      /\ g[b].own = g[c].own
      /\ First(ts, r, v).flags = {"PRESENT", "WRITE", "USER"}
    <2>1. First(ts, r, v) = ts[c][Index(v, 1)] /\ Index(v, 1) \in Slot
        BY Slots DEF First
    <2>2. b = ts[c][Index(v, 1)].page
        BY <1>1, <2>1
    <2> HIDE DEF b, c, d
    <2>3. g[c].lvl > 0 /\ ~(g[c].lvl = 3) /\ g[c].lvl - 1 = 0
        BY <1>3, SMT
    <2>4. Entered(ts, g, c, Index(v, 1))
        BY <1>1, <1>3, <2>1, <2>3 DEF Entered
    <2>5. Link(ts, g, loaded, c, Index(v, 1))
        BY <2>4, StepLink
    <2>6. {"PRESENT", "WRITE"} \cup {"USER"} = {"PRESENT", "WRITE", "USER"}
        OBVIOUS
    <2> QED
        BY <2>1, <2>2, <2>3, <2>5, <2>6 DEF Link
<1> QED
    BY <1>1, <1>2, <1>3, <1>4

(* Top table r has a table of the last level for page v, and whose that is.*)
Leads(ts, g, r, v) == r \in 1 .. Len(ts) /\ g[r].lvl = 3 /\ v \in Pages /\ Leaf(ts, r, v) # 0
LeafIs(ts, g, r, v) ==
    /\ Leaf(ts, r, v) \in 1 .. Len(ts) /\ g[Leaf(ts, r, v)].lvl = 0
    /\ g[Leaf(ts, r, v)].own = IF v \in High THEN "kernel" ELSE g[r].own

(* A table of the last level belongs to the kernel or to the map's process.*)
LEMMA LeafOf ==
    ASSUME NEW ts, NEW g, NEW loaded, Tree(ts, g, loaded), NEW r, NEW v, Leads(ts, g, r, v)
    PROVE  LeafIs(ts, g, r, v)
<1>1. r \in 1 .. Len(ts) /\ g[r].lvl = 3 /\ v \in Pages /\ Leaf(ts, r, v) # 0
    BY DEF Leads
<1>2. /\ Leaf(ts, r, v) \in 1 .. Len(ts) /\ g[Leaf(ts, r, v)].lvl = 0
      /\ g[Leaf(ts, r, v)].own = IF v \in High THEN "kernel" ELSE g[r].own
    BY <1>1, LeafPlace, SMT
<1> QED
    BY <1>2 DEF LeafIs

(* Only one page of one map has a given entry of the last level; a page of *)
(* the kernel's half has it in every map.                                  *)
LEMMA OneWay ==
    ASSUME NEW ts, NEW g, NEW loaded, Tree(ts, g, loaded),
           NEW r \in 1 .. Len(ts), g[r].lvl = 3, NEW v \in Pages, Leaf(ts, r, v) # 0,
           NEW q \in 1 .. Len(ts), g[q].lvl = 3, NEW w \in Pages,
           Leaf(ts, q, w) = Leaf(ts, r, v), Index(w, 0) = Index(v, 0)
    PROVE  w = v /\ (v \in Low => q = r)
<1> DEFINE Way(k, x) ==
        LET b == Leaf(ts, k, x)
            c == Second(ts, k, x).page
            d == Third(ts, k, x).page
        IN  /\ g[b].ix = Index(x, 1) /\ g[b].up = c
            /\ g[c].ix = Index(x, 2) /\ g[c].up = d
            /\ g[d].ix = Index(x, 3) /\ g[d].up = IF x \in High THEN 1 ELSE k
<1>a. Way(r, v) /\ Way(q, w)
    <2>1. Way(r, v)
        BY LeafPlace, SMT
    <2>2. Way(q, w)
        BY LeafPlace, SMT
    <2> QED
        BY <2>1, <2>2
<1>1. /\ Index(w, 1) = Index(v, 1) /\ Index(w, 2) = Index(v, 2) /\ Index(w, 3) = Index(v, 3)
      /\ g[Third(ts, q, w).page].up = g[Third(ts, r, v).page].up
    BY <1>a
<1>2. w = v
    <2>1. \A l \in 0 .. 3 : Index(v, l) = Index(w, l)
        BY <1>1, SMT
    <2> QED
        BY <2>1, SamePage
<1> QED
    BY <1>a, <1>1, <1>2 DEF Low

(* The same, of maps that share an entry.                                  *)
Shares(ts, q, w, r, v) == Leaf(ts, q, w) = Leaf(ts, r, v) /\ Index(w, 0) = Index(v, 0)
SameEnd(q, w, r, v) == w = v /\ (v \in Low => q = r)
(* Maps that share an entry of the last level share its page.              *)
LEMMA OneEnd ==
    ASSUME NEW ts, NEW g, NEW loaded, Tree(ts, g, loaded), NEW r, NEW v, NEW q, NEW w,
           Leads(ts, g, r, v), Leads(ts, g, q, w), Shares(ts, q, w, r, v)
    PROVE  SameEnd(q, w, r, v)
<1>1. /\ r \in 1 .. Len(ts) /\ g[r].lvl = 3 /\ v \in Pages /\ Leaf(ts, r, v) # 0
      /\ q \in 1 .. Len(ts) /\ g[q].lvl = 3 /\ w \in Pages
      /\ Leaf(ts, q, w) = Leaf(ts, r, v) /\ Index(w, 0) = Index(v, 0)
    BY DEF Leads, Shares
<1>2. w = v /\ (v \in Low => q = r)
    BY <1>1, OneWay, SMT
<1> QED
    BY <1>2 DEF SameEnd

(* The kernel's half is the same in every map, and the kernel has no other.*)
LEMMA Halves ==
    ASSUME NEW ts, NEW g, NEW loaded, Tree(ts, g, loaded),
           NEW r \in 1 .. Len(ts), g[r].lvl = 3, NEW v \in Pages
    PROVE  /\ v \in High => Leaf(ts, r, v) = Leaf(ts, 1, v)
           /\ v \in Low => Leaf(ts, 1, v) = 0
<1>1. v \in High => Third(ts, r, v) = Third(ts, 1, v)
    BY Slots DEF Tree, Tops, Third
<1>2. v \in Low => Absent(Third(ts, 1, v))
    BY Slots, SMT DEF Tree, Tops, Third, Absent, Zero
<1> QED
    BY <1>1, <1>2 DEF Leaf, First, Second

(* A walk that finds every level present ends at a table.                  *)
LEMMA PresentLeaf ==
    ASSUME NEW ts, NEW g, NEW loaded, Tree(ts, g, loaded),
           NEW r \in 1 .. Len(ts), g[r].lvl = 3, NEW v \in Pages,
           ~Absent(Third(ts, r, v)), ~Absent(Second(ts, r, v)), ~Absent(First(ts, r, v))
    PROVE  First(ts, r, v).page \in 1 .. Len(ts) /\ First(ts, r, v).page # 0
<1> DEFINE d == Third(ts, r, v).page
           c == Second(ts, r, v).page
           b == First(ts, r, v).page
<1>1. d \in 1 .. Len(ts) /\ g[d].lvl = 2
    <2>1. Index(v, 3) \in Slot /\ g[r].lvl > 0 /\ g[r].lvl - 1 = 2
        BY Slots, SMT
    <2>2. Entered(ts, g, r, Index(v, 3))
        BY <2>1 DEF Entered, Third
    <2>3. Link(ts, g, loaded, r, Index(v, 3))
        BY <2>2, StepLink
    <2> QED
        BY <2>1, <2>3 DEF Link, Third
<1>2. c = ts[d][Index(v, 2)].page /\ ~Absent(ts[d][Index(v, 2)])
    BY DEF Second
<1>3. b = ts[c][Index(v, 1)].page /\ ~Absent(ts[c][Index(v, 1)])
    BY DEF First
<1> HIDE DEF b, c, d
<1>4. c \in 1 .. Len(ts) /\ g[c].lvl = 1
    <2>1. Index(v, 2) \in Slot /\ g[d].lvl > 0 /\ g[d].lvl - 1 = 1
        BY <1>1, Slots, SMT
    <2>2. Entered(ts, g, d, Index(v, 2))
        BY <1>1, <1>2, <2>1 DEF Entered
    <2>3. Link(ts, g, loaded, d, Index(v, 2))
        BY <2>2, StepLink
    <2> QED
        BY <1>2, <2>1, <2>3 DEF Link
<1>5. b \in 1 .. Len(ts)
    <2>1. Index(v, 1) \in Slot /\ g[c].lvl > 0
        BY <1>4, Slots, SMT
    <2>2. Entered(ts, g, c, Index(v, 1))
        BY <1>3, <1>4, <2>1 DEF Entered
    <2>3. Link(ts, g, loaded, c, Index(v, 1))
        BY <2>2, StepLink
    <2> QED
        BY <1>3, <2>3 DEF Link
<1>6. b # 0
    BY <1>5, SMT
<1> QED
    BY <1>5, <1>6 DEF b

(* Walk, in any tables.                                                    *)
WalkIn(ts, root, v) ==
    LET pml4e == ts[root][Index(v, 3)]
        pdpte == ts[pml4e.page][Index(v, 2)]
        pde == ts[pdpte.page][Index(v, 1)]
        pte == ts[pde.page][Index(v, 0)]
        above == pml4e.flags \cap pdpte.flags \cap pde.flags
    IN  IF root = 0 \/ Absent(pml4e) \/ Absent(pdpte) \/ Absent(pde) \/ Absent(pte)
        THEN NoMap
        ELSE [page |-> pte.page, flags |-> (pte.flags \cap above) \cup (pte.flags \cap {"NX"})]

(* The processor's walk ends in the entry of the last level, with all the  *)
(* rights that entry has: above it only USER is ever missing, and only     *)
(* where the entry has no USER either.                                     *)
LEMMA WalkIsView ==
    ASSUME NEW ts, NEW g, NEW loaded, Tree(ts, g, loaded),
           NEW r \in 1 .. Len(ts), g[r].lvl = 3, NEW v \in Pages
    PROVE  WalkIn(ts, r, v) = View(ts, r, v)
<1> DEFINE b == Leaf(ts, r, v)
           pte == ts[b][Index(v, 0)]
           above == Third(ts, r, v).flags \cap Second(ts, r, v).flags
                        \cap First(ts, r, v).flags
<1>0. r # 0
    BY SMT DEF Tree, TypesOf
<1>1. CASE b = 0
    <2>1. Absent(Third(ts, r, v)) \/ Absent(Second(ts, r, v)) \/ Absent(First(ts, r, v))
        BY <1>1, PresentLeaf DEF Leaf
    <2>2. WalkIn(ts, r, v) = NoMap
        BY <2>1 DEF WalkIn, Third, Second, First
    <2> QED
        BY <1>1, <2>2 DEF View
<1>2. CASE b # 0
    <2>1. /\ b \in 1 .. Len(ts) /\ g[b].lvl = 0
          /\ g[b].own = IF v \in High THEN "kernel" ELSE g[r].own
          /\ ~Absent(Third(ts, r, v)) /\ ~Absent(Second(ts, r, v)) /\ ~Absent(First(ts, r, v))
          /\ b = First(ts, r, v).page
          /\ above = {"PRESENT", "WRITE"} \cup (IF v \in High /\ loaded THEN {} ELSE {"USER"})
        <3>1. /\ Third(ts, r, v).flags = {"PRESENT", "WRITE"} \cup
                        (IF v \in High /\ loaded THEN {} ELSE {"USER"})
              /\ Second(ts, r, v).flags = {"PRESENT", "WRITE", "USER"}
              /\ First(ts, r, v).flags = {"PRESENT", "WRITE", "USER"}
            BY <1>2, LeafPlace, SMT
        <3>2. above = {"PRESENT", "WRITE"} \cup (IF v \in High /\ loaded THEN {} ELSE {"USER"})
            BY <3>1
        <3> QED
            BY <1>2, <3>2, LeafPlace, SMTT(30)
    <2>2. pte \in Entry /\ (v \in High => "USER" \notin pte.flags)
        <3> HIDE DEF b
        <3>1. ts[b] \in Table /\ Index(v, 0) \in Slot
            BY <2>1, Slots, SMT DEF Tree, TypesOf
        <3> QED
            BY <2>1, <3>1 DEF Table, Tree, KernelLeaves
    <2>3. WalkIn(ts, r, v) = IF Absent(pte) THEN NoMap
                       ELSE [page |-> pte.page, flags |-> (pte.flags \cap above) \cup (pte.flags \cap {"NX"})]
        BY <1>0, <2>1 DEF WalkIn, Third, Second, First
    <2>4. (pte.flags \cap above) \cup (pte.flags \cap {"NX"}) = pte.flags
        <3> HIDE DEF pte, above
        <3>1. pte.flags \subseteq Flag
            BY <2>2 DEF Entry
        <3> QED
            BY <2>1, <2>2, <3>1 DEF Flag
    <2>5. [page |-> pte.page, flags |-> pte.flags] = pte
        <3> HIDE DEF pte
        <3> QED
            BY <2>2 DEF Entry
    <2>6. View(ts, r, v) = IF Absent(pte) THEN NoMap ELSE pte
        BY <1>2 DEF View
    <2> HIDE DEF pte, above
    <2> QED
        BY <2>3, <2>4, <2>5, <2>6
<1> QED
    BY <1>1, <1>2

-----------------------------------------------------------------------------
(***************************************************************************)
(* get_next_page_map.                                                      *)
(***************************************************************************)

(* What get_next_page_map takes and returns.                               *)
At(ts, b) == [tables |-> ts, base |-> b]

(* At most one table is new; it is empty, and slot e of table b leads to   *)
(* it.  Nothing else changes.                                              *)
Grown(ts, us, b, e) ==
    \/ us = ts /\ ts[b][e] # Zero
    \/ /\ Len(us) = Len(ts) + 1
       /\ ts[b][e] = Zero /\ us[b][e].page = Len(us)
       /\ us[Len(us)] = ZeroTable
       /\ \A c \in 1 .. Len(ts), f \in Slot : c # b \/ f # e => us[c][f] = ts[c][f]

(* The places of the tables there were do not change.                      *)
Kept(g, h, ts) == \A c \in 1 .. Len(ts) : h[c] = g[c]

(* What allocate_map leaves.                                               *)
LEMMA Allocated ==
    ASSUME NEW ts \in Seq(Table), NEW b \in 1 .. Len(ts), NEW e \in Slot, ts[b][e] = Zero
    PROVE  LET at == allocate_map([tables |-> ts, base |-> b], e)
           IN  /\ at = [tables |-> at.tables, base |-> at.base]
               /\ at.tables \in Seq(Table) /\ at.base = Len(ts) + 1
               /\ at.tables[b][e] = [page |-> at.base, flags |-> {"PRESENT", "WRITE", "USER"}]
               /\ Grown(ts, at.tables, b, e) /\ Len(at.tables) = Len(ts) + 1
<1> DEFINE new == Len(ts) + 1
           entry == [page |-> new, flags |-> {"PRESENT", "WRITE", "USER"}]
           us == [ts EXCEPT ![b][e] = entry]
           at == allocate_map([tables |-> ts, base |-> b], e)
<1>1. at = [tables |-> Append(us, ZeroTable), base |-> new]
    BY DEF allocate_map
<1>2. Len(ts) \in Nat /\ entry \in Entry
    BY SMT DEF Entry, Flag
<1>3. ZeroTable \in Table
    <2>1. Zero \in Entry
        BY DEF Zero, Entry, Flag
    <2> QED
        BY <2>1 DEF ZeroTable, Table, Slot
<1> HIDE DEF entry
<1>4. us \in Seq(Table) /\ Len(us) = Len(ts)
    <2>1. ts[b] \in Table
        BY SMT
    <2>2. [ts[b] EXCEPT ![e] = entry] \in Table
        BY <1>2, <2>1 DEF Table
    <2>3. us = [ts EXCEPT ![b] = [ts[b] EXCEPT ![e] = entry]]
        OBVIOUS
    <2> QED
        BY <2>2, <2>3, SMT
<1>5. us[b][e] = entry /\ \A c \in 1 .. Len(ts), f \in Slot : c # b \/ f # e => us[c][f] = ts[c][f]
    <2>1. \A c \in 1 .. Len(ts) : ts[c] \in Table /\ c \in DOMAIN ts
        BY SMT
    <2> QED
        BY <2>1 DEF Table
<1> HIDE DEF us
<1>6. /\ Append(us, ZeroTable) \in Seq(Table) /\ Len(Append(us, ZeroTable)) = new
      /\ Append(us, ZeroTable)[new] = ZeroTable
      /\ \A c \in 1 .. Len(ts) : Append(us, ZeroTable)[c] = us[c]
    BY <1>2, <1>3, <1>4, SMT
<1>7. entry.page = new
    BY DEF entry
<1>8. Grown(ts, Append(us, ZeroTable), b, e)
    BY <1>2, <1>5, <1>6, <1>7 DEF Grown
<1>9. Append(us, ZeroTable)[b][e] = entry
    BY <1>5, <1>6
<1> DEFINE ws == Append(us, ZeroTable)
<1>10. at = [tables |-> ws, base |-> new] /\ Len(ws) = new /\ ws \in Seq(Table)
    BY <1>1, <1>6
<1>11. Grown(ts, ws, b, e) /\ ws[b][e] = [page |-> new, flags |-> {"PRESENT", "WRITE", "USER"}]
    BY <1>8, <1>9 DEF entry
<1> HIDE DEF ws, at
<1>12. at.tables = ws /\ at.base = new
    BY <1>10
<1> HIDE DEF new
<1>13. /\ at = [tables |-> at.tables, base |-> at.base]
      /\ at.tables \in Seq(Table) /\ at.base = new
      /\ at.tables[b][e] = [page |-> at.base, flags |-> {"PRESENT", "WRITE", "USER"}]
      /\ Grown(ts, at.tables, b, e) /\ Len(at.tables) = new
    BY <1>10, <1>11, <1>12
<1> QED
    BY <1>13 DEF at, new

(* Where get_next_page_map is called: a process's map only ever has lower  *)
(* pages mapped, and the kernel's only upper ones, before processes exist. *)
Roundable(ts, g, loaded, b, e) ==
    /\ b \in 1 .. Len(ts) /\ e \in Slot /\ g[b].lvl > 0
    /\ g[b].lvl = 3 => (Upper(e) <=> g[b].own = "kernel") /\ (Upper(e) => b = 1)
    /\ g[b].own = "kernel" => ~loaded
Advanced(ts, g, loaded, b, e, at) ==
    /\ at = At(at.tables, at.base)
    /\ Grown(ts, at.tables, b, e)
    /\ at.base \in 1 .. Len(at.tables) /\ Len(ts) <= Len(at.tables)
    /\ at.tables[b][e].page = at.base /\ ~Absent(at.tables[b][e])
    /\ \E h : /\ Tree(at.tables, h, loaded) /\ Kept(g, h, ts)
              /\ h[at.base].lvl = g[b].lvl - 1 /\ h[at.base].own = g[b].own

(* The table get_next_page_map returns has the place that goes with the    *)
(* slot, and the tables keep their shape.                                  *)
LEMMA NextPageMap ==
    ASSUME NEW ts, NEW g, NEW loaded, Tree(ts, g, loaded),
           NEW b, NEW e, Roundable(ts, g, loaded, b, e),
           NEW at, at = get_next_page_map(At(ts, b), e)
    PROVE  Advanced(ts, g, loaded, b, e, at)
<1> SUFFICES ASSUME b \in 1 .. Len(ts), e \in Slot, g[b].lvl > 0,
                    g[b].lvl = 3 => (Upper(e) <=> g[b].own = "kernel") /\ (Upper(e) => b = 1),
                    g[b].own = "kernel" => ~loaded
             PROVE  /\ at = At(at.tables, at.base)
                    /\ Grown(ts, at.tables, b, e)
                    /\ at.base \in 1 .. Len(at.tables) /\ Len(ts) <= Len(at.tables)
                    /\ at.tables[b][e].page = at.base /\ ~Absent(at.tables[b][e])
                    /\ \E h : /\ Tree(at.tables, h, loaded) /\ Kept(g, h, ts)
                              /\ h[at.base].lvl = g[b].lvl - 1 /\ h[at.base].own = g[b].own
    BY DEF Roundable, Advanced
<1>0. ts \in Seq(Table) /\ Len(ts) \in Nat /\ g \in [1 .. Len(ts) -> Place]
    BY SMT DEF Tree, TypesOf
<1>1. CASE ts[b][e] # Zero
    <2>1. ~Absent(ts[b][e])
        BY <1>1, Step, SMT
    <2>2. at = [tables |-> ts, base |-> ts[b][e].page]
        BY <2>1 DEF get_next_page_map, Absent, At
    <2>3. Grown(ts, ts, b, e) /\ Kept(g, g, ts)
        BY <1>1 DEF Grown, Kept
    <2>4. /\ ts[b][e].page \in 1 .. Len(ts) /\ g[ts[b][e].page].lvl = g[b].lvl - 1
          /\ g[ts[b][e].page].own = g[b].own
        BY <2>1, Step, SMT
    <2>5. at.tables = ts /\ at.base = ts[b][e].page /\ at = At(at.tables, at.base)
        BY <2>2, SMT DEF At
    <2>6. Len(ts) <= Len(ts)
        BY <1>0, SMT
    <2> QED
        BY <2>1, <2>3, <2>4, <2>5, <2>6
<1>2. CASE ts[b][e] = Zero
    <2> DEFINE us == at.tables
               n == Len(ts) + 1
               h == [c \in 1 .. n |-> IF c = n
                        THEN [own |-> g[b].own, lvl |-> g[b].lvl - 1, up |-> b, ix |-> e]
                        ELSE g[c]]
    <2>1. at = allocate_map([tables |-> ts, base |-> b], e)
        BY <1>2, SMT DEF get_next_page_map, Zero, At
    <2>2. /\ at = [tables |-> us, base |-> n] /\ us \in Seq(Table) /\ at.base = n
          /\ us[b][e] = [page |-> n, flags |-> {"PRESENT", "WRITE", "USER"}]
          /\ Grown(ts, us, b, e) /\ Len(us) = n
        <3>1. LET al == allocate_map([tables |-> ts, base |-> b], e)
              IN  /\ al = [tables |-> al.tables, base |-> al.base]
                  /\ al.tables \in Seq(Table) /\ al.base = n
                  /\ al.tables[b][e] = [page |-> al.base, flags |-> {"PRESENT", "WRITE", "USER"}]
                  /\ Grown(ts, al.tables, b, e) /\ Len(al.tables) = n
            BY <1>0, <1>2, Allocated
        <3> HIDE DEF n
        <3> QED
            BY <2>1, <3>1
    <2>3. /\ us[n] = ZeroTable
          /\ \A c \in 1 .. Len(ts), f \in Slot : c # b \/ f # e => us[c][f] = ts[c][f]
        BY <1>2, <2>2 DEF Grown
    <2>p. /\ us[b][e].page = n /\ us[b][e].flags = {"PRESENT", "WRITE", "USER"}
          /\ ~Absent(us[b][e]) /\ us[b][e] # Zero
        BY <2>2, SMT DEF Absent, Zero
    <2> HIDE DEF us
    <2>4. h \in [1 .. n -> Place] /\ Kept(g, h, ts) /\ h[b] = g[b]
        <3>1. g[b] \in Place /\ e \in Nat /\ b \in Nat
            BY <1>0, SMT DEF Slot
        <3>2. [own |-> g[b].own, lvl |-> g[b].lvl - 1, up |-> b, ix |-> e] \in Place
            BY <3>1, SMT DEF Place
        <3>3. \A c \in 1 .. n : c # n => c \in 1 .. Len(ts) /\ g[c] \in Place
            BY <1>0, SMT
        <3>4. \A c \in 1 .. Len(ts) : c \in 1 .. n /\ c # n
            BY <1>0, SMT
        <3> QED
            BY <3>2, <3>3, <3>4 DEF Kept
    <2>5. h[n].own = g[b].own /\ h[n].lvl = g[b].lvl - 1 /\ h[n].up = b /\ h[n].ix = e
        BY <1>0, SMT
    <2>6. TypesOf(us, h)
        BY <1>0, <2>2, <2>4, SMT DEF TypesOf
    <2>o. \A c \in 1 .. n : (c \in 1 .. Len(ts) /\ h[c] = g[c]) \/ c = n
        BY <1>0, <2>4, SMT DEF Kept
    <2> HIDE DEF h
    <2>z. \A f \in Slot : us[n][f] = Zero
        BY <2>3 DEF ZeroTable, Slot
    <2>7. Linked(us, h, loaded)
        <3> SUFFICES ASSUME NEW c \in 1 .. n, NEW f \in Slot, h[c].lvl > 0, us[c][f] # Zero
                     PROVE  LET m == us[c][f].page
                                shared == h[c].lvl = 3 /\ Upper(f)
                            IN  /\ m \in 1 .. n /\ h[m].lvl = h[c].lvl - 1 /\ h[m].ix = f
                                /\ h[m].own = IF shared THEN "kernel" ELSE h[c].own
                                /\ h[m].up = IF shared THEN 1 ELSE c
                                /\ us[c][f].flags = {"PRESENT", "WRITE"} \cup
                                                    (IF shared /\ loaded THEN {} ELSE {"USER"})
            BY <2>2, SMT DEF Linked
        <3>1. c \in 1 .. Len(ts) /\ h[c] = g[c]
            BY <2>o, <2>z
        <3>2. CASE c = b /\ f = e
            <4>1. us[c][f].page = n /\ us[c][f].flags = {"PRESENT", "WRITE", "USER"}
                BY <2>p, <3>2
            <4>2. n \in 1 .. n
                BY <1>0, SMT
            <4> QED
                BY <2>4, <2>5, <3>2, <4>1, <4>2
        <3>3. CASE ~(c = b /\ f = e)
            <4>1. us[c][f] = ts[c][f] /\ g[c].lvl > 0
                BY <2>3, <3>1, <3>3
            <4>2. ~Absent(ts[c][f])
                BY <3>1, <4>1, Step, SMT
            <4> DEFINE m == ts[c][f].page
                       shared == g[c].lvl = 3 /\ Upper(f)
            <4>3. /\ m \in 1 .. Len(ts) /\ g[m].lvl = g[c].lvl - 1 /\ g[m].ix = f
                  /\ g[m].own = IF shared THEN "kernel" ELSE g[c].own
                  /\ g[m].up = IF shared THEN 1 ELSE c
                  /\ ts[c][f].flags = {"PRESENT", "WRITE"} \cup
                                        (IF shared /\ loaded THEN {} ELSE {"USER"})
                BY <3>1, <4>1, <4>2, Step, ZenonT(40)
            <4>4. m \in 1 .. n /\ h[m] = g[m]
                BY <1>0, <2>4, <4>3, SMT DEF Kept
            <4> QED
                BY <3>1, <4>1, <4>3, <4>4
        <3> QED
            BY <3>2, <3>3, ZenonT(40)
    <2>8. Tops(us, h, loaded)
        <3>1. 1 \in 1 .. Len(ts) /\ h[1] = g[1]
            BY <1>0, <2>4, SMT DEF Kept
        <3>2. h[1].own = "kernel" /\ h[1].lvl = 3
            BY <3>1 DEF Tree, Tops
        <3>3. \A f \in Slot : ~Upper(f) => us[1][f] = Zero
            BY <2>3, <3>1, <3>2 DEF Tree, Tops
        <3>4. \A c \in 1 .. n : h[c].lvl = 3 /\ c # 1 => c \in 1 .. Len(ts) /\ g[c].lvl = 3
            <4>1. g[b].lvl \in 0 .. 3
                BY <1>0 DEF Place
            <4> QED
                BY <2>5, <2>o, <4>1, SMT
        <3>5. \A c \in 1 .. Len(ts) : g[c].lvl = 3 /\ c # 1 =>
                loaded /\ \A f \in Slot : Upper(f) => us[c][f] = us[1][f]
            <4> SUFFICES ASSUME NEW c \in 1 .. Len(ts), g[c].lvl = 3, c # 1, NEW f \in Slot, Upper(f)
                         PROVE  us[c][f] = us[1][f]
                BY DEF Tree, Tops
            <4>1. loaded /\ ts[c][f] = ts[1][f]
                BY DEF Tree, Tops
            <4>2. ~(c = b /\ f = e)
                OBVIOUS
            <4>3. ~(1 = b /\ f = e)
                BY <4>1, <3>1, <3>2
            <4> QED
                BY <2>3, <3>1, <4>1, <4>2, <4>3
        <3> QED
            BY <2>2, <3>2, <3>3, <3>4, <3>5 DEF Tops
    <2>9. KernelLeaves(us, h)
        <3> SUFFICES ASSUME NEW c \in 1 .. n, NEW f \in Slot, h[c].lvl = 0, h[c].own = "kernel"
                     PROVE  "USER" \notin us[c][f].flags
            BY <2>2 DEF KernelLeaves
        <3>1. CASE c = n
            BY <2>z, <3>1, SMT DEF Zero
        <3>2. CASE c # n
            <4>1. c \in 1 .. Len(ts) /\ h[c] = g[c] /\ c # b
                BY <2>4, <2>o, <3>2, SMT
            <4> QED
                BY <2>3, <4>1 DEF Tree, KernelLeaves
        <3> QED
            BY <3>1, <3>2
    <2>10. Tree(us, h, loaded)
        BY <2>6, <2>7, <2>8, <2>9 DEF Tree
    <2>11. n \in 1 .. n /\ Len(ts) <= n
        BY <1>0, SMT
    <2> QED
        BY <2>2, <2>p, <2>4, <2>5, <2>10, <2>11, ZenonT(40) DEF us, At
<1> QED
    BY <1>1, <1>2

(* Entries that lead somewhere stay.                                       *)
LEMMA GrownKeeps ==
    ASSUME NEW ts, NEW us, NEW b, NEW e, Grown(ts, us, b, e),
           NEW c \in 1 .. Len(ts), NEW f \in Slot, ts[c][f] # Zero
    PROVE  us[c][f] = ts[c][f]
<1> QED
    BY DEF Grown

(* A new table shows no page to anyone: it is empty.                       *)
LEMMA GrownView ==
    ASSUME NEW ts, NEW us, NEW g, NEW h, NEW loaded, Tree(ts, g, loaded), Tree(us, h, loaded),
           Kept(g, h, ts), NEW b \in 1 .. Len(ts), NEW e \in Slot, g[b].lvl > 0,
           Grown(ts, us, b, e), NEW r \in 1 .. Len(ts), g[r].lvl = 3, NEW v \in Pages
    PROVE  View(us, r, v) = View(ts, r, v)
<1>1. CASE us = ts
    BY <1>1
<1>2. CASE us # ts
    <2> DEFINE n == Len(us)
    <2>1. /\ ts[b][e] = Zero /\ us[b][e].page = n /\ \A f \in Slot : us[n][f] = Zero
          /\ \A c \in 1 .. Len(ts), f \in Slot : c # b \/ f # e => us[c][f] = ts[c][f]
        BY <1>2 DEF Grown, ZeroTable, Slot
    <2> HIDE DEF n
    <2>s. /\ Index(v, 0) \in Slot /\ Index(v, 1) \in Slot
          /\ Index(v, 2) \in Slot /\ Index(v, 3) \in Slot
        BY Slots
    <2>z. Absent(Zero)
        BY DEF Absent, Zero
    <2> DEFINE d == Third(ts, r, v).page
               c == Second(ts, r, v).page
               a == First(ts, r, v).page
    <2>2. CASE r = b /\ Index(v, 3) = e
        <3>1. Third(ts, r, v) = Zero /\ Third(us, r, v).page = n
            BY <2>1, <2>2 DEF Third
        <3>2. Second(us, r, v) = Zero
            BY <2>1, <2>s, <3>1 DEF Second
        <3> QED
            BY <2>z, <3>1, <3>2 DEF View, Leaf
    <2>3. CASE ~(r = b /\ Index(v, 3) = e)
        <3>1. Third(us, r, v) = Third(ts, r, v)
            BY <2>1, <2>3, <2>s DEF Third
        <3>2. CASE Absent(Third(ts, r, v))
            BY <3>1, <3>2 DEF View, Leaf
        <3>3. CASE ~Absent(Third(ts, r, v))
            <4>1. d \in 1 .. Len(ts) /\ g[d].lvl = 2
                BY <2>s, <3>3, Step, SMT DEF Third
            <4>2. Second(ts, r, v) = ts[d][Index(v, 2)] /\ Second(us, r, v) = us[d][Index(v, 2)]
                BY <3>1 DEF Second
            <4>c. c = ts[d][Index(v, 2)].page
                BY <4>2
            <4>3. CASE d = b /\ Index(v, 2) = e
                <5>1. Second(ts, r, v) = Zero /\ Second(us, r, v).page = n
                    BY <2>1, <4>2, <4>3
                <5>2. First(us, r, v) = Zero
                    BY <2>1, <2>s, <5>1 DEF First
                <5> QED
                    BY <2>z, <5>1, <5>2 DEF View, Leaf
            <4>4. CASE ~(d = b /\ Index(v, 2) = e)
                <5>1. Second(us, r, v) = Second(ts, r, v)
                    BY <2>1, <2>s, <4>1, <4>2, <4>4
                <5>2. CASE Absent(Second(ts, r, v))
                    BY <5>1, <5>2 DEF View, Leaf
                <5>3. CASE ~Absent(Second(ts, r, v))
                    <6>1. c \in 1 .. Len(ts) /\ g[c].lvl = 1
                        <7> HIDE DEF c, d
                        <7>1. g[d].lvl > 0 /\ g[d].lvl - 1 = 1
                            BY <4>1, SMT
                        <7>2. Entered(ts, g, d, Index(v, 2))
                            BY <2>s, <4>1, <4>2, <5>3, <7>1 DEF Entered
                        <7>3. Link(ts, g, loaded, d, Index(v, 2))
                            BY <7>2, StepLink
                        <7> QED
                            BY <4>c, <7>1, <7>3 DEF Link
                    <6>2. First(ts, r, v) = ts[c][Index(v, 1)] /\ First(us, r, v) = us[c][Index(v, 1)]
                        BY <5>1 DEF First
                    <6>3. a = ts[c][Index(v, 1)].page
                        BY <6>2
                    <6>4. CASE c = b /\ Index(v, 1) = e
                        <7>1. First(ts, r, v) = Zero /\ First(us, r, v).page = n
                            BY <2>1, <6>2, <6>4
                        <7>2. Leaf(ts, r, v) = 0
                            BY <2>z, <7>1 DEF Leaf
                        <7>3. Leaf(us, r, v) = 0 \/ Leaf(us, r, v) = n
                            BY <7>1 DEF Leaf
                        <7> QED
                            BY <2>1, <2>s, <2>z, <7>2, <7>3, ZenonT(40) DEF View
                    <6>5. CASE ~(c = b /\ Index(v, 1) = e)
                        <7>1. First(us, r, v) = First(ts, r, v)
                            BY <2>1, <2>s, <6>1, <6>2, <6>5
                        <7>2. Leaf(us, r, v) = Leaf(ts, r, v)
                            BY <3>1, <5>1, <7>1 DEF Leaf
                        <7>3. CASE Leaf(ts, r, v) = 0
                            BY <7>2, <7>3 DEF View
                        <7>4. CASE Leaf(ts, r, v) # 0
                            <8>1. Leaf(ts, r, v) \in 1 .. Len(ts) /\ g[Leaf(ts, r, v)].lvl = 0
                                <9>1. Leads(ts, g, r, v)
                                    BY <7>4 DEF Leads
                                <9>2. LeafIs(ts, g, r, v)
                                    BY <9>1, LeafOf
                                <9> QED
                                    BY <9>2 DEF LeafIs
                            <8>2. us[Leaf(ts, r, v)][Index(v, 0)] = ts[Leaf(ts, r, v)][Index(v, 0)]
                                BY <2>1, <2>s, <8>1, SMT
                            <8> QED
                                BY <7>2, <8>2 DEF View
                        <7> QED
                            BY <7>3, <7>4
                    <6> QED
                        BY <6>4, <6>5
                <5> QED
                    BY <5>2, <5>3
            <4> QED
                BY <4>3, <4>4
        <3> QED
            BY <3>2, <3>3
    <2> QED
        BY <2>2, <2>3
<1> QED
    BY <1>1, <1>2

(* Entries that lead where they should make linked tables.                 *)
LEMMA Links ==
    ASSUME NEW ts, NEW g, NEW loaded,
           \A b \in 1 .. Len(ts), e \in Slot : g[b].lvl > 0 /\ ts[b][e] # Zero => Link(ts, g, loaded, b, e)
    PROVE  Linked(ts, g, loaded)
<1> QED
    BY DEF Linked, Link

(* Tables that differ only in rights at the top show the same pages.       *)
Rightless(ts, g, us, r, v) ==
    /\ r \in 1 .. Len(ts) /\ g[r].lvl = 3 /\ v \in Pages
    /\ Third(us, r, v).page = Third(ts, r, v).page
    /\ Absent(Third(us, r, v)) <=> Absent(Third(ts, r, v))
    /\ \A c \in 1 .. Len(ts), f \in Slot : g[c].lvl < 3 => us[c][f] = ts[c][f]
ViewKept(ts, us, r, v) == View(us, r, v) = View(ts, r, v)
(* Tables that differ only in rights at the top show the same pages.       *)
LEMMA SameView ==
    ASSUME NEW ts, NEW g, NEW loaded, Tree(ts, g, loaded),
           NEW us, NEW r, NEW v, Rightless(ts, g, us, r, v)
    PROVE  ViewKept(ts, us, r, v)
<1>r. /\ r \in 1 .. Len(ts) /\ g[r].lvl = 3 /\ v \in Pages
      /\ Third(us, r, v).page = Third(ts, r, v).page
      /\ Absent(Third(us, r, v)) <=> Absent(Third(ts, r, v))
      /\ \A c \in 1 .. Len(ts), f \in Slot : g[c].lvl < 3 => us[c][f] = ts[c][f]
    BY DEF Rightless
<1> USE <1>r
<1> SUFFICES View(us, r, v) = View(ts, r, v)
    BY DEF ViewKept
<1>s. /\ Index(v, 0) \in Slot /\ Index(v, 1) \in Slot
      /\ Index(v, 2) \in Slot /\ Index(v, 3) \in Slot
    BY Slots
<1>l. 0 < 3 /\ 1 < 3 /\ 2 < 3
    BY Numbers
<1> DEFINE d == Third(ts, r, v).page
           c == Second(ts, r, v).page
<1>1. CASE Absent(Third(ts, r, v))
    BY <1>1 DEF View, Leaf
<1>2. CASE ~Absent(Third(ts, r, v))
    <2>1. d \in 1 .. Len(ts) /\ g[d].lvl = 2
        BY <1>s, <1>2, Step, SMT DEF Third
    <2>2. Second(us, r, v) = us[d][Index(v, 2)] /\ Second(ts, r, v) = ts[d][Index(v, 2)]
        BY DEF Second
    <2>3. c = ts[d][Index(v, 2)].page
        BY <2>2
    <2> HIDE DEF d
    <2>4. Second(us, r, v) = Second(ts, r, v)
        BY <1>s, <1>l, <2>1, <2>2
    <2>5. CASE Absent(Second(ts, r, v))
        BY <2>4, <2>5 DEF View, Leaf
    <2>6. CASE ~Absent(Second(ts, r, v))
        <3>1. First(us, r, v) = us[c][Index(v, 1)] /\ First(ts, r, v) = ts[c][Index(v, 1)]
            BY <2>4, ZenonT(40) DEF First
        <3> HIDE DEF c
        <3>2. c \in 1 .. Len(ts) /\ g[c].lvl = 1
            BY <1>s, <2>1, <2>2, <2>3, <2>6, Step, SMT
        <3>3. First(us, r, v) = First(ts, r, v)
            BY <1>s, <1>l, <3>1, <3>2
        <3>4. Leaf(us, r, v) = Leaf(ts, r, v)
            BY <2>4, <3>3 DEF Leaf
        <3>5. CASE Leaf(ts, r, v) = 0
            BY <3>4, <3>5 DEF View
        <3>6. CASE Leaf(ts, r, v) # 0
            <4>1. Leaf(ts, r, v) \in 1 .. Len(ts) /\ g[Leaf(ts, r, v)].lvl = 0
                <5>1. Leads(ts, g, r, v)
                    BY <3>6 DEF Leads
                <5>2. LeafIs(ts, g, r, v)
                    BY <5>1, LeafOf
                <5> QED
                    BY <5>2 DEF LeafIs
            <4>2. us[Leaf(ts, r, v)][Index(v, 0)] = ts[Leaf(ts, r, v)][Index(v, 0)]
                BY <1>s, <1>l, <4>1
            <4> QED
                BY <3>4, <4>2 DEF View
        <3> QED
            BY <3>5, <3>6
    <2> QED
        BY <2>5, <2>6, ZenonT(40)
<1> QED
    BY <1>1, <1>2

-----------------------------------------------------------------------------
Store(ts, b, e, pte) == [ts EXCEPT ![b][e] = pte]

(* Writing an entry of the last level: the tables keep their shape, and    *)
(* only the pages that have this entry are seen differently.               *)
Storable(ts, g, b, e, pte) ==
    /\ b \in 1 .. Len(ts) /\ e \in Slot /\ g[b].lvl = 0 /\ pte \in Entry
    /\ g[b].own = "kernel" => "USER" \notin pte.flags
StoredAs(ts, g, loaded, b, e, pte, us) ==
    /\ Tree(us, g, loaded) /\ Len(us) = Len(ts)
    /\ \A c \in 1 .. Len(ts), f \in Slot :
            us[c][f] = IF c = b /\ f = e THEN pte ELSE ts[c][f]
    /\ \A r \in 1 .. Len(ts), v \in Pages : g[r].lvl = 3 =>
            View(us, r, v) = IF Leaf(ts, r, v) = b /\ Index(v, 0) = e
                             THEN (IF Absent(pte) THEN NoMap ELSE pte)
                             ELSE View(ts, r, v)
(* A store of an entry of the last level is such a write.                  *)
LEMMA Stored ==
    ASSUME NEW ts, NEW g, NEW loaded, Tree(ts, g, loaded),
           NEW b, NEW e, NEW pte, Storable(ts, g, b, e, pte),
           NEW us, us = Store(ts, b, e, pte)
    PROVE  StoredAs(ts, g, loaded, b, e, pte, us)
<1>s. /\ b \in 1 .. Len(ts) /\ e \in Slot /\ g[b].lvl = 0 /\ pte \in Entry
      /\ g[b].own = "kernel" => "USER" \notin pte.flags
    BY DEF Storable
<1> USE <1>s
<1>0. ts \in Seq(Table) /\ Len(ts) \in Nat /\ Len(ts) > 0 /\ g \in [1 .. Len(ts) -> Place]
    BY SMT DEF Tree, TypesOf
<1>1. us \in Seq(Table) /\ Len(us) = Len(ts)
    <2>1. ts[b] \in Table
        BY <1>0, SMT
    <2>2. [ts[b] EXCEPT ![e] = pte] \in Table
        BY <2>1 DEF Table
    <2>3. us = [ts EXCEPT ![b] = [ts[b] EXCEPT ![e] = pte]]
        BY DEF Store
    <2> QED
        BY <1>0, <2>2, <2>3, SMT
<1>2. \A c \in 1 .. Len(ts), f \in Slot : us[c][f] = IF c = b /\ f = e THEN pte ELSE ts[c][f]
    <2>1. \A c \in 1 .. Len(ts) : ts[c] \in Table /\ c \in DOMAIN ts
        BY <1>0, SMT
    <2> QED
        BY <2>1 DEF Table, Store
<1>3. \A c \in 1 .. Len(ts), f \in Slot : g[c].lvl > 0 => us[c][f] = ts[c][f]
    BY <1>2, SMT
<1>4. Linked(us, g, loaded)
    <2> SUFFICES ASSUME NEW c \in 1 .. Len(us), NEW f \in Slot, g[c].lvl > 0, us[c][f] # Zero
                 PROVE  Link(us, g, loaded, c, f)
        BY Links
    <2>1. c \in 1 .. Len(ts) /\ us[c][f] = ts[c][f]
        BY <1>1, <1>3
    <2>2. Link(ts, g, loaded, c, f)
        BY <2>1, LinkOf
    <2> QED
        BY <1>1, <2>1, <2>2 DEF Link
<1>5. Tops(us, g, loaded)
    <2>1. 1 \in 1 .. Len(ts)
        BY <1>0, SMTT(30)
    <2> QED
        BY <1>1, <1>3, <2>1, SMT DEF Tree, Tops
<1>6. KernelLeaves(us, g)
    BY <1>1, <1>2, SMT DEF Tree, KernelLeaves
<1>7. Tree(us, g, loaded)
    BY <1>0, <1>1, <1>4, <1>5, <1>6 DEF Tree, TypesOf
<1>8. ASSUME NEW r \in 1 .. Len(ts), NEW v \in Pages, g[r].lvl = 3
      PROVE  View(us, r, v) = IF Leaf(ts, r, v) = b /\ Index(v, 0) = e
                              THEN (IF Absent(pte) THEN NoMap ELSE pte)
                              ELSE View(ts, r, v)
    <2>s. /\ Index(v, 0) \in Slot /\ Index(v, 1) \in Slot
          /\ Index(v, 2) \in Slot /\ Index(v, 3) \in Slot
        BY Slots
    <2>1. Third(us, r, v) = Third(ts, r, v)
        BY <1>3, <1>8, <2>s, SMT DEF Third
    <2>2. Leaf(us, r, v) = Leaf(ts, r, v)
        <3>1. CASE Absent(Third(ts, r, v))
            BY <2>1, <3>1 DEF Leaf
        <3>2. CASE ~Absent(Third(ts, r, v))
            <4> DEFINE d == Third(ts, r, v).page
                       c == Second(ts, r, v).page
            <4>1. d \in 1 .. Len(ts) /\ g[d].lvl = 2
                <5>1. g[r].lvl > 0 /\ g[r].lvl - 1 = 2
                    BY <1>8, SMT
                <5>2. Entered(ts, g, r, Index(v, 3))
                    BY <1>8, <2>s, <3>2, <5>1 DEF Entered, Third
                <5>3. Link(ts, g, loaded, r, Index(v, 3))
                    BY <5>2, StepLink
                <5> QED
                    BY <5>1, <5>3 DEF Link, Third
            <4>2. Second(us, r, v) = us[d][Index(v, 2)] /\ Second(ts, r, v) = ts[d][Index(v, 2)]
                BY <2>1 DEF Second
            <4>3. c = ts[d][Index(v, 2)].page
                BY <4>2
            <4> HIDE DEF d
            <4>4. Second(us, r, v) = Second(ts, r, v)
                BY <1>3, <2>s, <4>1, <4>2, SMT
            <4>5. CASE Absent(Second(ts, r, v))
                BY <2>1, <4>4, <4>5 DEF Leaf
            <4>6. CASE ~Absent(Second(ts, r, v))
                <5>1. First(us, r, v) = us[c][Index(v, 1)] /\ First(ts, r, v) = ts[c][Index(v, 1)]
                    BY <4>4 DEF First
                <5> HIDE DEF c
                <5>2. c \in 1 .. Len(ts) /\ g[c].lvl = 1
                    <6>1. g[d].lvl > 0 /\ g[d].lvl - 1 = 1
                        BY <4>1, SMT
                    <6>2. Entered(ts, g, d, Index(v, 2))
                        BY <2>s, <4>1, <4>2, <4>6, <6>1 DEF Entered
                    <6>3. Link(ts, g, loaded, d, Index(v, 2))
                        BY <6>2, StepLink
                    <6> QED
                        BY <4>3, <6>1, <6>3 DEF Link
                <5>3. First(us, r, v) = First(ts, r, v)
                    BY <1>3, <2>s, <5>1, <5>2, SMT
                <5> QED
                    BY <2>1, <4>4, <5>3 DEF Leaf
            <4> QED
                BY <4>5, <4>6
        <3> QED
            BY <3>1, <3>2
    <2>3. CASE Leaf(ts, r, v) = 0
        <3>1. Leaf(ts, r, v) # b
            BY <1>0, <2>3, SMT
        <3> QED
            BY <2>2, <2>3, <3>1 DEF View
    <2>4. CASE Leaf(ts, r, v) # 0
        <3>1. Leaf(ts, r, v) \in 1 .. Len(ts)
            <4>1. Leads(ts, g, r, v)
                BY <1>8, <2>4 DEF Leads
            <4>2. LeafIs(ts, g, r, v)
                BY <4>1, LeafOf
            <4> QED
                BY <4>2 DEF LeafIs
        <3>2. us[Leaf(ts, r, v)][Index(v, 0)] =
                 IF Leaf(ts, r, v) = b /\ Index(v, 0) = e THEN pte ELSE ts[Leaf(ts, r, v)][Index(v, 0)]
            BY <1>2, <2>s, <3>1
        <3> QED
            BY <2>2, <2>4, <3>2 DEF View
    <2> QED
        BY <2>3, <2>4
<1> QED
    BY <1>1, <1>2, <1>7, <1>8 DEF StoredAs

-----------------------------------------------------------------------------
(***************************************************************************)
(* map_page.                                                               *)
(***************************************************************************)

(* The tables after map_page of page v in the map with top table r.        *)
Mapped(ts, r, v, pte) ==
    LET pdpt == get_next_page_map([tables |-> ts, base |-> r], Index(v, 3))
        pd   == get_next_page_map(pdpt, Index(v, 2))
        pt   == get_next_page_map(pd, Index(v, 1))
    IN  [pt.tables EXCEPT ![pt.base][Index(v, 0)] = pte]

(* What is at the last level afterwards.                                   *)
LastLevel(ts, us, h, m, pte) ==
    \A c \in 1 .. Len(us), f \in Slot : h[c].lvl = 0 =>
        \/ us[c][f] = pte /\ h[c].own = m
        \/ us[c][f] = Zero
        \/ c \in 1 .. Len(ts) /\ us[c][f] = ts[c][f]

(* A round of get_next_page_map, as seen from the tables before map_page.  *)
Round(ts, g, us, h, loaded) ==
    /\ Tree(us, h, loaded) /\ Kept(g, h, ts) /\ Len(ts) <= Len(us)
    /\ \A q \in 1 .. Len(ts), w \in Pages : g[q].lvl = 3 => View(us, q, w) = View(ts, q, w)
    /\ \A c \in 1 .. Len(us), f \in Slot :
            h[c].lvl = 0 => us[c][f] = Zero \/ (c \in 1 .. Len(ts) /\ us[c][f] = ts[c][f])
    /\ \A c \in 1 .. Len(ts), f \in Slot : ts[c][f] # Zero => us[c][f] = ts[c][f]

(* What a round returns, from slot e of table b.                           *)
Found(ts, g, loaded, b, e, at, lvl) ==
    /\ at = At(at.tables, at.base)
    /\ at.base \in 1 .. Len(at.tables)
    /\ at.tables[b][e].page = at.base /\ ~Absent(at.tables[b][e])
    /\ \E h : /\ Round(ts, g, at.tables, h, loaded)
              /\ h[at.base].lvl = lvl /\ h[at.base].own = g[b].own

(* One round, and what it returns.                                         *)
LEMMA OneRound ==
    ASSUME NEW ts, NEW g, NEW loaded, Tree(ts, g, loaded),
           NEW b, NEW e, Roundable(ts, g, loaded, b, e),
           NEW at, at = get_next_page_map(At(ts, b), e)
    PROVE  Found(ts, g, loaded, b, e, at, g[b].lvl - 1)
<1> DEFINE us == at.tables
<1>0. b \in 1 .. Len(ts) /\ e \in Slot /\ g[b].lvl > 0
    BY DEF Roundable
<1>a. Advanced(ts, g, loaded, b, e, at)
    BY NextPageMap
<1>1. /\ at = At(at.tables, at.base)
      /\ Grown(ts, us, b, e)
      /\ at.base \in 1 .. Len(us) /\ Len(ts) <= Len(us)
      /\ us[b][e].page = at.base /\ ~Absent(us[b][e])
      /\ \E h : /\ Tree(us, h, loaded) /\ Kept(g, h, ts)
                /\ h[at.base].lvl = g[b].lvl - 1 /\ h[at.base].own = g[b].own
    BY <1>a DEF Advanced
<1>2. PICK h : /\ Tree(us, h, loaded) /\ Kept(g, h, ts)
               /\ h[at.base].lvl = g[b].lvl - 1 /\ h[at.base].own = g[b].own
    BY <1>1
<1> HIDE DEF us
<1>3. \A q \in 1 .. Len(ts), w \in Pages : g[q].lvl = 3 => View(us, q, w) = View(ts, q, w)
    BY <1>0, <1>1, <1>2, GrownView, SMT
<1>4. \A c \in 1 .. Len(us), f \in Slot :
            h[c].lvl = 0 => us[c][f] = Zero \/ (c \in 1 .. Len(ts) /\ us[c][f] = ts[c][f])
    <2> SUFFICES ASSUME NEW c \in 1 .. Len(us), NEW f \in Slot, h[c].lvl = 0, us[c][f] # Zero
                 PROVE  c \in 1 .. Len(ts) /\ us[c][f] = ts[c][f]
        OBVIOUS
    <2>1. CASE us = ts
        BY <2>1
    <2>2. CASE us # ts
        <3>1. /\ Len(us) = Len(ts) + 1 /\ us[Len(us)] = ZeroTable
              /\ \A k \in 1 .. Len(ts), j \in Slot : k # b \/ j # e => us[k][j] = ts[k][j]
            BY <1>1, <2>2 DEF Grown
        <3>2. c # Len(us)
            <4>1. ZeroTable[f] = Zero
                BY DEF ZeroTable, Slot
            <4> QED
                BY <3>1, <4>1
        <3>3. c \in 1 .. Len(ts)
            <4>1. Len(ts) \in Nat
                BY SMT DEF Tree, TypesOf
            <4> QED
                BY <3>1, <3>2, <4>1, SMTT(30)
        <3>4. c # b
            BY <1>0, <1>2, <3>3, SMTT(30) DEF Kept
        <3> QED
            BY <3>1, <3>3, <3>4
    <2> QED
        BY <2>1, <2>2
<1>5. \A c \in 1 .. Len(ts), f \in Slot : ts[c][f] # Zero => us[c][f] = ts[c][f]
    BY <1>0, <1>1, GrownKeeps, SMT
<1>6. Round(ts, g, us, h, loaded)
    BY <1>1, <1>2, <1>3, <1>4, <1>5 DEF Round
<1> QED
    BY <1>1, <1>2, <1>6 DEF us, Found

(* Rounds compose.                                                         *)
LEMMA Rounds ==
    ASSUME NEW ts, NEW g, NEW us, NEW h, NEW ws, NEW k, NEW loaded, Tree(ts, g, loaded),
           Round(ts, g, us, h, loaded), Round(us, h, ws, k, loaded)
    PROVE  Round(ts, g, ws, k, loaded)
<1>1. Len(ts) \in Nat /\ Len(us) \in Nat /\ Len(ws) \in Nat
    BY SMTT(30) DEF Tree, TypesOf, Round
<1>2. \A c \in 1 .. Len(ts) : c \in 1 .. Len(us) /\ h[c] = g[c] /\ k[c] = g[c]
    BY <1>1, SMT DEF Round, Kept
<1>3. \A q \in 1 .. Len(ts), w \in Pages : g[q].lvl = 3 => View(ws, q, w) = View(ts, q, w)
    BY <1>2 DEF Round
<1>4. \A c \in 1 .. Len(ws), f \in Slot :
            k[c].lvl = 0 => ws[c][f] = Zero \/ (c \in 1 .. Len(ts) /\ ws[c][f] = ts[c][f])
    BY <1>2, SMTT(30) DEF Round, Kept
<1>5. \A c \in 1 .. Len(ts), f \in Slot : ts[c][f] # Zero => ws[c][f] = ts[c][f]
    BY <1>2, SMT DEF Round
<1> QED
    BY <1>1, <1>2, <1>3, <1>4, <1>5, SMTT(30) DEF Round, Kept

(* A round of get_next_page_map finds a table one level down.              *)
LEMMA FoundBelow ==
    ASSUME NEW ts, NEW g, NEW loaded, Tree(ts, g, loaded),
           NEW b \in 1 .. Len(ts), NEW e \in Slot,
           NEW l \in 1 .. 3, g[b].lvl = l,
           l = 3 => (Upper(e) <=> g[b].own = "kernel") /\ (Upper(e) => b = 1),
           g[b].own = "kernel" => ~loaded
    PROVE  Found(ts, g, loaded, b, e, get_next_page_map(At(ts, b), e), l - 1)
<1>1. g[b].lvl > 0
    BY SMT
<1>2. Roundable(ts, g, loaded, b, e)
    BY <1>1 DEF Roundable
<1>3. Found(ts, g, loaded, b, e, get_next_page_map(At(ts, b), e), g[b].lvl - 1)
    BY <1>2, OneRound
<1> QED
    BY <1>3

(* There is a table.                                                       *)
LEMMA TreeSize ==
    ASSUME NEW ts, NEW g, NEW loaded, Tree(ts, g, loaded)
    PROVE  Len(ts) \in Nat /\ Len(ts) > 0
<1>1. ts \in Seq(Table) /\ Len(ts) > 0
    BY DEF Tree, TypesOf
<1> QED
    BY <1>1, SMT

(* What was there before a round is there after it.                        *)
LEMMA RoundKeeps ==
    ASSUME NEW ts, NEW g, NEW us, NEW h, NEW loaded, Tree(ts, g, loaded), Round(ts, g, us, h, loaded)
    PROVE  /\ Tree(us, h, loaded) /\ \A c \in 1 .. Len(ts) : c \in 1 .. Len(us) /\ h[c] = g[c]
           /\ \A c \in 1 .. Len(ts), f \in Slot : ~Absent(ts[c][f]) => us[c][f] = ts[c][f]
<1>1. Tree(us, h, loaded) /\ Kept(g, h, ts) /\ Len(ts) <= Len(us)
    BY DEF Round
<1>2. Len(ts) \in Nat /\ Len(us) \in Nat
    BY <1>1, TreeSize
<1>3. \A c \in 1 .. Len(ts) : c \in 1 .. Len(us)
    BY <1>1, <1>2, SMT
<1>4. Absent(Zero)
    BY DEF Absent, Zero
<1>5. \A c \in 1 .. Len(ts), f \in Slot : ~Absent(ts[c][f]) => us[c][f] = ts[c][f]
    BY <1>4 DEF Round
<1> QED
    BY <1>1, <1>3, <1>5 DEF Kept

(* The tables that are there before a round are there after it.            *)
Extends(ts, g, us, h) == \A c \in 1 .. Len(ts) : c \in 1 .. Len(us) /\ h[c] = g[c]
(* A round of get_next_page_map extends the tables.                        *)
LEMMA RoundExtends ==
    ASSUME NEW ts, NEW g, NEW us, NEW h, NEW loaded, Tree(ts, g, loaded), Round(ts, g, us, h, loaded)
    PROVE  Extends(ts, g, us, h)
<1>1. \A c \in 1 .. Len(ts) : c \in 1 .. Len(us) /\ h[c] = g[c]
    BY RoundKeeps, SMT
<1> QED
    BY <1>1 DEF Extends

(* The entries that are there before a round are there after it.           *)
Keeps(ts, us) == \A c \in 1 .. Len(ts), f \in Slot : ~Absent(ts[c][f]) => us[c][f] = ts[c][f]
(* A round of get_next_page_map keeps the entries.                         *)
LEMMA RoundEntries ==
    ASSUME NEW ts, NEW g, NEW us, NEW h, NEW loaded, Round(ts, g, us, h, loaded)
    PROVE  Keeps(ts, us)
<1>1. Absent(Zero)
    BY DEF Absent, Zero
<1> QED
    BY <1>1 DEF Round, Keeps

(* map_page of page v in the map with top table r, by the kernel or by a   *)
(* process in its own half.                                                *)
Mappable(ts, g, loaded, r, v) ==
    /\ r \in 1 .. Len(ts) /\ g[r].lvl = 3 /\ v \in Pages
    /\ v \in High <=> g[r].own = "kernel"
    /\ v \in High => r = 1 /\ ~loaded
Ends(ts, g, loaded, r, v, pt) ==
    /\ pt.base \in 1 .. Len(pt.tables) /\ Leaf(pt.tables, r, v) = pt.base
    /\ \E h : /\ Round(ts, g, pt.tables, h, loaded)
              /\ h[pt.base].lvl = 0 /\ h[pt.base].own = g[r].own

(* Three rounds from a top table end at the table of the last level.       *)
LEMMA ThreeRounds ==
    ASSUME NEW ts, NEW g, NEW loaded, Tree(ts, g, loaded),
           NEW r, NEW v, Mappable(ts, g, loaded, r, v),
           NEW pdpt, pdpt = get_next_page_map(At(ts, r), Index(v, 3)),
           NEW pd, pd = get_next_page_map(pdpt, Index(v, 2)),
           NEW pt, pt = get_next_page_map(pd, Index(v, 1))
    PROVE  Ends(ts, g, loaded, r, v, pt)
<1>m. /\ r \in 1 .. Len(ts) /\ g[r].lvl = 3 /\ v \in Pages
      /\ v \in High <=> g[r].own = "kernel"
      /\ v \in High => r = 1 /\ ~loaded
    BY DEF Mappable
<1> USE <1>m
<1> DEFINE i3 == Index(v, 3)  i2 == Index(v, 2)  i1 == Index(v, 1)
<1>s. /\ i1 \in Slot /\ i2 \in Slot /\ i3 \in Slot /\ (v \in High <=> Upper(i3))
    BY Slots
<1>l. 3 \in 1 .. 3 /\ 2 \in 1 .. 3 /\ 1 \in 1 .. 3 /\ 3 - 1 = 2 /\ 2 - 1 = 1 /\ 1 - 1 = 0 /\ 2 # 3 /\ 1 # 3
    BY SMT
<1>a. pdpt = get_next_page_map(At(ts, r), i3) /\ pd = get_next_page_map(pdpt, i2)
      /\ pt = get_next_page_map(pd, i1)
    OBVIOUS
<1> HIDE DEF i3, i2, i1
<1>1. Found(ts, g, loaded, r, i3, pdpt, 2)
    <2>1. Found(ts, g, loaded, r, i3, get_next_page_map(At(ts, r), i3), 3 - 1)
        BY <1>s, <1>l, FoundBelow
    <2> QED
        BY <1>l, <1>a, <2>1
<1>2. PICK g2 : /\ Round(ts, g, pdpt.tables, g2, loaded)
                /\ g2[pdpt.base].lvl = 2 /\ g2[pdpt.base].own = g[r].own
    BY <1>1 DEF Found
<1>3. /\ Tree(pdpt.tables, g2, loaded) /\ r \in 1 .. Len(pdpt.tables)
      /\ pdpt.base \in 1 .. Len(pdpt.tables) /\ pdpt = At(pdpt.tables, pdpt.base)
    <2>1. Tree(pdpt.tables, g2, loaded) /\ r \in 1 .. Len(pdpt.tables)
        BY <1>2, RoundKeeps
    <2> QED
        BY <1>1, <2>1 DEF Found
<1>4. Found(pdpt.tables, g2, loaded, pdpt.base, i2, pd, 1)
    <2>1. g2[pdpt.base].own = "kernel" => ~loaded
        BY <1>2
    <2>2. Found(pdpt.tables, g2, loaded, pdpt.base, i2,
                get_next_page_map(At(pdpt.tables, pdpt.base), i2), 2 - 1)
        BY <1>s, <1>l, <1>2, <1>3, <2>1, FoundBelow
    <2> QED
        BY <1>l, <1>a, <1>3, <2>2
<1>5. PICK g1 : /\ Round(pdpt.tables, g2, pd.tables, g1, loaded)
                /\ g1[pd.base].lvl = 1 /\ g1[pd.base].own = g2[pdpt.base].own
    BY <1>4 DEF Found
<1>6. /\ Tree(pd.tables, g1, loaded) /\ r \in 1 .. Len(pd.tables) /\ pdpt.base \in 1 .. Len(pd.tables)
      /\ pd.base \in 1 .. Len(pd.tables) /\ pd = At(pd.tables, pd.base)
    <2>1. /\ Tree(pd.tables, g1, loaded) /\ r \in 1 .. Len(pd.tables)
          /\ pdpt.base \in 1 .. Len(pd.tables)
        BY <1>3, <1>5, RoundKeeps, ZenonT(40)
    <2> QED
        BY <1>4, <2>1 DEF Found
<1>7. Found(pd.tables, g1, loaded, pd.base, i1, pt, 0)
    <2>1. g1[pd.base].own = "kernel" => ~loaded
        BY <1>2, <1>5
    <2>2. Found(pd.tables, g1, loaded, pd.base, i1,
                get_next_page_map(At(pd.tables, pd.base), i1), 1 - 1)
        BY <1>s, <1>l, <1>5, <1>6, <2>1, FoundBelow
    <2> QED
        BY <1>l, <1>a, <1>6, <2>2
<1>8. PICK h : /\ Round(pd.tables, g1, pt.tables, h, loaded)
               /\ h[pt.base].lvl = 0 /\ h[pt.base].own = g1[pd.base].own
    BY <1>7 DEF Found
<1>9. Round(ts, g, pt.tables, h, loaded)
    <2>1. Round(pdpt.tables, g2, pt.tables, h, loaded)
        BY <1>3, <1>5, <1>8, Rounds
    <2> QED
        BY <1>2, <2>1, Rounds
<1>10. Third(pt.tables, r, v).page = pdpt.base /\ ~Absent(Third(pt.tables, r, v))
    <2>1. pdpt.tables[r][i3].page = pdpt.base /\ ~Absent(pdpt.tables[r][i3])
        BY <1>1 DEF Found
    <2>2. pd.tables[r][i3] = pdpt.tables[r][i3]
        <3>1. Keeps(pdpt.tables, pd.tables)
            BY <1>5, RoundEntries
        <3> QED
            BY <1>s, <1>3, <2>1, <3>1 DEF Keeps
    <2>3. pt.tables[r][i3] = pd.tables[r][i3]
        <3>1. Keeps(pd.tables, pt.tables)
            BY <1>8, RoundEntries
        <3> QED
            BY <1>s, <1>6, <2>1, <2>2, <3>1 DEF Keeps
    <2> QED
        BY <2>1, <2>2, <2>3 DEF Third, i3
<1>11. Second(pt.tables, r, v).page = pd.base /\ ~Absent(Second(pt.tables, r, v))
    <2>1. pd.tables[pdpt.base][i2].page = pd.base /\ ~Absent(pd.tables[pdpt.base][i2])
        BY <1>4 DEF Found
    <2>2. pt.tables[pdpt.base][i2] = pd.tables[pdpt.base][i2]
        <3>1. Keeps(pd.tables, pt.tables)
            BY <1>8, RoundEntries
        <3> QED
            BY <1>s, <1>6, <2>1, <3>1 DEF Keeps
    <2> QED
        BY <1>10, <2>1, <2>2 DEF Second, i2
<1>12. First(pt.tables, r, v).page = pt.base /\ ~Absent(First(pt.tables, r, v))
    <2>1. pt.tables[pd.base][i1].page = pt.base /\ ~Absent(pt.tables[pd.base][i1])
        BY <1>7 DEF Found
    <2> QED
        BY <1>11, <2>1 DEF First, i1
<1>13. Leaf(pt.tables, r, v) = pt.base
    BY <1>10, <1>11, <1>12 DEF Leaf
<1>14. pt.base \in 1 .. Len(pt.tables)
    BY <1>7 DEF Found
<1>15. h[pt.base].own = g[r].own
    BY <1>2, <1>5, <1>8
<1> QED
    BY <1>8, <1>9, <1>13, <1>14, <1>15 DEF Ends

(* map_page changes what its map shows at its page, and nothing else.      *)
Writable(v, pte) == pte \in Entry /\ (v \in High => "USER" \notin pte.flags)
PageMapped(ts, g, loaded, r, v, pte, us) ==
    \E h :
        /\ Tree(us, h, loaded) /\ Kept(g, h, ts) /\ Len(ts) <= Len(us)
        /\ LastLevel(ts, us, h, g[r].own, pte)
        /\ \A q \in 1 .. Len(ts), w \in Pages : g[q].lvl = 3 =>
                View(us, q, w) = IF w = v /\ (q = r \/ v \in High)
                                 THEN (IF Absent(pte) THEN NoMap ELSE pte)
                                 ELSE View(ts, q, w)

(* map_page maps the page in any tables of this shape.                     *)
LEMMA MapPage ==
    ASSUME NEW ts, NEW g, NEW loaded, Tree(ts, g, loaded), NEW r, NEW v, NEW pte,
           Mappable(ts, g, loaded, r, v), Writable(v, pte)
    PROVE  PageMapped(ts, g, loaded, r, v, pte, Mapped(ts, r, v, pte))
<1>m. /\ r \in 1 .. Len(ts) /\ g[r].lvl = 3 /\ v \in Pages
      /\ v \in High <=> g[r].own = "kernel"
      /\ v \in High => r = 1 /\ ~loaded
      /\ pte \in Entry
      /\ v \in High => "USER" \notin pte.flags
    BY DEF Mappable, Writable
<1> USE <1>m
<1> DEFINE i0 == Index(v, 0)
           pdpt == get_next_page_map(At(ts, r), Index(v, 3))
           pd   == get_next_page_map(pdpt, Index(v, 2))
           pt   == get_next_page_map(pd, Index(v, 1))
           us   == Store(pt.tables, pt.base, i0, pte)
<1>s. i0 \in Slot
    BY Slots
<1>u. Mapped(ts, r, v, pte) = us
    BY DEF Mapped, Store, At
<1>5. /\ pt.base \in 1 .. Len(pt.tables) /\ Leaf(pt.tables, r, v) = pt.base
      /\ \E h : /\ Round(ts, g, pt.tables, h, loaded)
                /\ h[pt.base].lvl = 0 /\ h[pt.base].own = g[r].own
    <2>1. Ends(ts, g, loaded, r, v, pt)
        BY ThreeRounds
    <2> QED
        BY <2>1 DEF Ends
<1> HIDE DEF pt
<1>6. PICK h : /\ Round(ts, g, pt.tables, h, loaded)
               /\ h[pt.base].lvl = 0 /\ h[pt.base].own = g[r].own
    BY <1>5
<1> DEFINE vs == pt.tables
<1>8. /\ Tree(vs, h, loaded) /\ Kept(g, h, ts) /\ Len(ts) <= Len(vs)
      /\ \A q \in 1 .. Len(ts) : q \in 1 .. Len(vs) /\ h[q] = g[q]
    <2>1. Tree(vs, h, loaded) /\ Kept(g, h, ts) /\ Len(ts) <= Len(vs)
        BY <1>6 DEF Round
    <2> QED
        <3>1. Tree(ts, g, loaded) /\ Round(ts, g, vs, h, loaded)
            BY <1>6
        <3> HIDE DEF vs
        <3>2. Extends(ts, g, vs, h)
            BY <3>1, RoundExtends
        <3> QED
            BY <2>1, <3>2 DEF Extends
<1>9. Leaf(vs, r, v) = pt.base
    BY <1>5
<1>10. h[pt.base].own = "kernel" => "USER" \notin pte.flags
    BY <1>6
<1>11. /\ Tree(us, h, loaded) /\ Len(us) = Len(vs)
       /\ \A c \in 1 .. Len(vs), f \in Slot :
            us[c][f] = IF c = pt.base /\ f = i0 THEN pte ELSE vs[c][f]
       /\ \A q \in 1 .. Len(vs), w \in Pages : h[q].lvl = 3 =>
            View(us, q, w) = IF Leaf(vs, q, w) = pt.base /\ Index(w, 0) = i0
                             THEN (IF Absent(pte) THEN NoMap ELSE pte)
                             ELSE View(vs, q, w)
    <2> DEFINE B == pt.base
    <2>1. /\ Tree(vs, h, loaded) /\ B \in 1 .. Len(vs) /\ i0 \in Slot /\ h[B].lvl = 0
          /\ (h[B].own = "kernel" => "USER" \notin pte.flags) /\ us = Store(vs, B, i0, pte)
        BY <1>s, <1>5, <1>6, <1>8, <1>10
    <2> HIDE DEF i0, B, vs, us
    <2>2. /\ Tree(us, h, loaded) /\ Len(us) = Len(vs)
          /\ \A c \in 1 .. Len(vs), f \in Slot :
               us[c][f] = IF c = B /\ f = i0 THEN pte ELSE vs[c][f]
          /\ \A q \in 1 .. Len(vs), w \in Pages : h[q].lvl = 3 =>
               View(us, q, w) = IF Leaf(vs, q, w) = B /\ Index(w, 0) = i0
                                THEN (IF Absent(pte) THEN NoMap ELSE pte)
                                ELSE View(vs, q, w)
        <3>1. Storable(vs, h, B, i0, pte)
            BY <2>1 DEF Storable
        <3>2. StoredAs(vs, h, loaded, B, i0, pte, us)
            BY <2>1, <3>1, Stored
        <3> QED
            BY <3>2 DEF StoredAs
    <2> QED
        BY <2>2 DEF B
<1> HIDE DEF us, vs
<1>12. LastLevel(ts, us, h, g[r].own, pte)
    <2> SUFFICES ASSUME NEW c \in 1 .. Len(vs), NEW f \in Slot, h[c].lvl = 0
                 PROVE  \/ us[c][f] = pte /\ h[c].own = g[r].own
                        \/ us[c][f] = Zero
                        \/ c \in 1 .. Len(ts) /\ us[c][f] = ts[c][f]
        BY <1>11 DEF LastLevel
    <2>1. vs[c][f] = Zero \/ (c \in 1 .. Len(ts) /\ vs[c][f] = ts[c][f])
        BY <1>6 DEF Round, vs
    <2>2. CASE c = pt.base /\ f = i0
        BY <1>6, <1>11, <2>2
    <2>3. CASE ~(c = pt.base /\ f = i0)
        <3>1. us[c][f] = vs[c][f]
            BY <1>11, <2>3
        <3> QED
            BY <2>1, <3>1
    <2> QED
        BY <2>2, <2>3
<1>13. ASSUME NEW q \in 1 .. Len(ts), NEW w \in Pages, g[q].lvl = 3
       PROVE  View(us, q, w) = IF w = v /\ (q = r \/ v \in High)
                               THEN (IF Absent(pte) THEN NoMap ELSE pte)
                               ELSE View(ts, q, w)
    <2>1. q \in 1 .. Len(vs) /\ h[q].lvl = 3 /\ r \in 1 .. Len(vs) /\ h[r].lvl = 3
        BY <1>8, <1>13, ZenonT(40)
    <2>2. pt.base # 0
        <3>1. Len(vs) \in Nat
            BY <1>8, TreeSize
        <3> QED
            BY <1>5, <3>1, SMT DEF vs
    <2>3. (Leaf(vs, q, w) = pt.base /\ Index(w, 0) = i0) <=> (w = v /\ (q = r \/ v \in High))
        <3>1. ASSUME Leaf(vs, q, w) = pt.base, Index(w, 0) = i0 PROVE w = v /\ (q = r \/ v \in High)
            <4>1. w = v /\ (v \in Low => q = r)
                <5>1. Leads(vs, h, r, v) /\ Leads(vs, h, q, w)
                    BY <1>9, <2>1, <2>2, <3>1 DEF Leads
                <5>2. Shares(vs, q, w, r, v)
                    BY <1>9, <3>1 DEF Shares
                <5>3. SameEnd(q, w, r, v)
                    BY <1>8, <5>1, <5>2, OneEnd
                <5> QED
                    BY <5>3 DEF SameEnd
            <4> QED
                BY <4>1 DEF Low
        <3>2. ASSUME w = v, q = r \/ v \in High PROVE Leaf(vs, q, w) = pt.base /\ Index(w, 0) = i0
            BY <1>8, <1>9, <2>1, <3>2, Halves, SMT
        <3> QED
            BY <3>1, <3>2
    <2>4. View(vs, q, w) = View(ts, q, w)
        BY <1>6, <1>13 DEF Round, vs
    <2> QED
        BY <1>11, <2>1, <2>3, <2>4
<1>14. PageMapped(ts, g, loaded, r, v, pte, us)
    BY <1>8, <1>11, <1>12, <1>13 DEF PageMapped
<1> QED
    BY <1>u, <1>14

-----------------------------------------------------------------------------
(***************************************************************************)
(* What map_section still has to do.                                       *)
(***************************************************************************)

Job == [v : Nat, p : Nat, n : Nat, flags : SUBSET Flag]

(* The pages and the page frames of a job.                                 *)
PageOf(j, i) == (j.v \div PAGE_SIZE) + i
FrameOf(j, i) == (j.p \div PAGE_SIZE) + i
Over(j, vs, fs) == \A i \in 0 .. j.n - 1 : PageOf(j, i) \in vs /\ FrameOf(j, i) \in fs

KernelJob(j) ==
    /\ j \in Job /\ Over(j, High, Nat)
    /\ j.n > 0 => j.p % PAGE_SIZE = 0 /\ j.flags \in KernelRights
UserJob(j, own) ==
    /\ j \in Job /\ Over(j, Low, own)
    /\ j.n > 0 => j.flags \in UserRights

Rest(j) == IF j.n = 1 THEN Idle ELSE Section(j.v + PAGE_SIZE, j.p + PAGE_SIZE, j.n - 1, j.flags)

(* Nothing to do is a job of either kind.                                  *)
LEMMA IdleJob ==
    /\ Idle \in Job /\ Idle.n = 0 /\ KernelJob(Idle) /\ \A own : UserJob(Idle, own)
<1>1. Idle \in Job /\ Idle.n = 0
    BY SMT DEF Idle, Section, Job
<1>2. \A i \in 0 .. Idle.n - 1 : FALSE
    BY <1>1, SMT
<1>3. ~(Idle.n > 0)
    BY <1>1, SMT
<1> QED
    BY <1>1, <1>2, <1>3 DEF KernelJob, UserJob, Over

(* The rest of a job is over the same pages and frames.                    *)
LEMMA RestOver ==
    ASSUME NEW j \in Job, j.n > 0, NEW vs, NEW fs, Over(j, vs, fs)
    PROVE  /\ Rest(j) \in Job /\ Over(Rest(j), vs, fs)
           /\ Rest(j).n > 0 => Rest(j).flags = j.flags /\ Rest(j).p = j.p + PAGE_SIZE
           /\ j.v \div PAGE_SIZE \in vs /\ j.p \div PAGE_SIZE \in fs
<1>1. j.v \in Nat /\ j.p \in Nat /\ j.n \in Nat /\ j.flags \in SUBSET Flag
    BY DEF Job
<1>2. j.v \div PAGE_SIZE \in vs /\ j.p \div PAGE_SIZE \in fs
    <2>1. 0 \in 0 .. j.n - 1 /\ PageOf(j, 0) = j.v \div PAGE_SIZE /\ FrameOf(j, 0) = j.p \div PAGE_SIZE
        BY <1>1, SMT DEF PageOf, FrameOf, PAGE_SIZE
    <2> QED
        BY <2>1 DEF Over
<1>3. CASE j.n = 1
    <2>1. Rest(j) = Idle
        BY <1>3 DEF Rest
    <2>2. Over(Idle, vs, fs)
        BY IdleJob, SMT DEF Over
    <2>3. ~(Idle.n > 0)
        BY IdleJob, SMT
    <2> QED
        BY <1>2, <2>1, <2>2, <2>3, IdleJob
<1>4. CASE j.n # 1
    <2> DEFINE k == Section(j.v + PAGE_SIZE, j.p + PAGE_SIZE, j.n - 1, j.flags)
    <2>1. Rest(j) = k
        BY <1>4 DEF Rest
    <2>2. /\ k.v = j.v + PAGE_SIZE /\ k.p = j.p + PAGE_SIZE /\ k.n = j.n - 1
          /\ k.flags = j.flags
        BY DEF Section
    <2>3. k \in Job
        BY <1>1, <1>4, SMT DEF Section, Job, PAGE_SIZE
    <2> HIDE DEF k
    <2>4. \A i \in 0 .. k.n - 1 :
            i + 1 \in 0 .. j.n - 1 /\ PageOf(k, i) = PageOf(j, i + 1) /\ FrameOf(k, i) = FrameOf(j, i + 1)
        BY <1>1, <2>2, SMT DEF PageOf, FrameOf, PAGE_SIZE
    <2>5. Over(k, vs, fs)
        BY <2>4 DEF Over
    <2> QED
        BY <1>2, <2>1, <2>2, <2>3, <2>5
<1> QED
    BY <1>3, <1>4

(* The rest of a job of a kind is one of the kind.                         *)
LEMMA RestJob ==
    ASSUME NEW j, j.n > 0
    PROVE  /\ KernelJob(j) => KernelJob(Rest(j))
           /\ \A own : UserJob(j, own) => UserJob(Rest(j), own)
<1>1. ASSUME KernelJob(j) PROVE KernelJob(Rest(j))
    <2>1. j \in Job /\ Over(j, High, Nat) /\ j.p % PAGE_SIZE = 0 /\ j.flags \in KernelRights
        BY <1>1 DEF KernelJob
    <2>2. /\ Rest(j) \in Job /\ Over(Rest(j), High, Nat)
          /\ Rest(j).n > 0 => Rest(j).flags = j.flags /\ Rest(j).p = j.p + PAGE_SIZE
        BY <2>1, RestOver
    <2>3. (j.p + PAGE_SIZE) % PAGE_SIZE = 0
        <3>1. j.p \in Nat
            BY <2>1 DEF Job
        <3> QED
            BY <2>1, <3>1, SMT DEF PAGE_SIZE
    <2> QED
        BY <2>1, <2>2, <2>3 DEF KernelJob
<1>2. ASSUME NEW own, UserJob(j, own) PROVE UserJob(Rest(j), own)
    <2>1. j \in Job /\ Over(j, Low, own) /\ j.flags \in UserRights
        BY <1>2 DEF UserJob
    <2>2. /\ Rest(j) \in Job /\ Over(Rest(j), Low, own)
          /\ Rest(j).n > 0 => Rest(j).flags = j.flags
        BY <2>1, RestOver
    <2> QED
        BY <2>1, <2>2 DEF UserJob
<1> QED
    BY <1>1, <1>2

(* More frames, the same job.                                              *)
LEMMA UserJobGrows ==
    ASSUME NEW j, NEW own, NEW more, own \subseteq more, UserJob(j, own)
    PROVE  UserJob(j, more)
<1> QED
    BY DEF UserJob, Over

-----------------------------------------------------------------------------
(* What ElfFlags gives a program header is a user's right.                 *)
LEMMA ElfRights ==
    ASSUME NEW x \in BOOLEAN, NEW w \in BOOLEAN
    PROVE  ElfFlags([x |-> x, w |-> w]) \in UserRights
<1>1. [x |-> x, w |-> w] \in [x : BOOLEAN, w : BOOLEAN]
    OBVIOUS
<1> QED
    BY <1>1 DEF UserRights

(* The rights of a user's page are those of a program header, whatever the *)
(* low bits of the address add to them.                                    *)
LEMMA OrUser ==
    ASSUME NEW addr \in Nat, NEW flags \in UserRights
    PROVE  /\ Or(addr, flags) \in Entry /\ Or(addr, flags).page = addr \div PAGE_SIZE
           /\ Or(addr, flags).flags \in UserRights
           /\ "USER" \in Or(addr, flags).flags /\ ~Absent(Or(addr, flags))
<1> DEFINE low == {f \in DOMAIN Bit : ((addr % PAGE_SIZE) \div Bit[f]) % 2 = 1}
<1>1. low \subseteq {"PRESENT", "WRITE", "USER"}
    BY DEF Bit
<1>2. Or(addr, flags).page = addr \div PAGE_SIZE /\ Or(addr, flags).flags = flags \cup low
      /\ Or(addr, flags) = [page |-> addr \div PAGE_SIZE, flags |-> flags \cup low]
    BY DEF Or
<1>3. addr \div PAGE_SIZE \in Nat
    BY SMT DEF PAGE_SIZE
<1>4. PICK hdr \in [x : BOOLEAN, w : BOOLEAN] : flags = ElfFlags(hdr)
    BY DEF UserRights
<1> DEFINE x == hdr.x
           w == hdr.w
<1> HIDE DEF low
<1>5. flags = {"USER", "PRESENT"} \cup (IF x THEN {} ELSE {"NX"}) \cup (IF w THEN {"WRITE"} ELSE {})
    BY <1>4 DEF ElfFlags
<1> DEFINE ww == w \/ "WRITE" \in low
<1>6. flags \cup low = {"USER", "PRESENT"} \cup (IF x THEN {} ELSE {"NX"}) \cup (IF ww THEN {"WRITE"} ELSE {})
    BY <1>1, <1>5
<1>7. ww \in BOOLEAN
    OBVIOUS
<1> HIDE DEF ww
<1>8. flags \cup low = ElfFlags([x |-> x, w |-> ww])
    BY <1>6 DEF ElfFlags
<1>9. flags \cup low \in UserRights
    BY <1>4, <1>7, <1>8, ElfRights
<1>10. flags \cup low \in SUBSET Flag /\ "USER" \in flags \cup low /\ "PRESENT" \in flags \cup low
    BY <1>6 DEF Flag
<1> QED
    BY <1>2, <1>3, <1>9, <1>10 DEF Entry, Absent

(* An address at the start of a page adds nothing.                         *)
LEMMA OrAligned ==
    ASSUME NEW addr \in Nat, addr % PAGE_SIZE = 0, NEW flags \in SUBSET Flag
    PROVE  /\ Or(addr, flags) = [page |-> addr \div PAGE_SIZE, flags |-> flags]
           /\ Or(addr, flags) \in Entry /\ Or(addr, flags).flags = flags
<1> DEFINE low == {f \in DOMAIN Bit : ((addr % PAGE_SIZE) \div Bit[f]) % 2 = 1}
<1>1. \A f \in DOMAIN Bit : Bit[f] \in {1, 2, 4}
    BY SMT DEF Bit
<1>2. \A b \in {1, 2, 4} : ~((0 \div b) % 2 = 1)
    BY SMT
<1>3. low = {}
    BY <1>1, <1>2
<1>4. Or(addr, flags) = [page |-> addr \div PAGE_SIZE, flags |-> flags \cup low]
    BY DEF Or
<1> HIDE DEF low
<1>5. flags \cup low = flags
    BY <1>3
<1>6. Or(addr, flags) = [page |-> addr \div PAGE_SIZE, flags |-> flags]
    BY <1>4, <1>5
<1>7. addr \div PAGE_SIZE \in Nat
    BY SMT DEF PAGE_SIZE
<1> QED
    BY <1>6, <1>7, SMT DEF Entry

-----------------------------------------------------------------------------
(* Rounding to pages.                                                      *)
LEMMA Rounding ==
    /\ \A a \in Nat : /\ align_address(a, FALSE) \in Nat /\ align_address(a, FALSE) <= a
                      /\ align_address(a, TRUE) \in Nat /\ a <= align_address(a, TRUE)
    /\ \A a \in Nat : a \div PAGE_SIZE \in Nat /\ PagesOf(a) \in Nat
    /\ \A n \in Nat : n * PAGE_SIZE \in Nat /\ PagesOf(n * PAGE_SIZE) = n /\ (n * PAGE_SIZE) \div PAGE_SIZE = n
                      /\ (n * PAGE_SIZE) % PAGE_SIZE = 0
<1>1. \A a \in Nat : /\ align_address(a, FALSE) \in Nat /\ align_address(a, FALSE) <= a
                      /\ align_address(a, TRUE) \in Nat /\ a <= align_address(a, TRUE)
    BY SMT DEF align_address, PAGE_SIZE
<1>2. \A a \in Nat : a \div PAGE_SIZE \in Nat /\ PagesOf(a) \in Nat
    BY SMT DEF PagesOf, PAGE_SIZE
<1>3. \A n \in Nat : n * PAGE_SIZE \in Nat /\ PagesOf(n * PAGE_SIZE) = n /\ (n * PAGE_SIZE) \div PAGE_SIZE = n
                      /\ (n * PAGE_SIZE) % PAGE_SIZE = 0
    BY SMT DEF PagesOf, PAGE_SIZE
<1> QED
    BY <1>1, <1>2, <1>3

(* The sections init_vmm maps: no user may use them.                       *)
KernelSection == {s \in Job : "PRESENT" \in s.flags /\ "USER" \notin s.flags}

(* A section with the rights the kernel gives.                             *)
LEMMA SectionType ==
    ASSUME NEW v \in Nat, NEW p \in Nat, NEW n \in Nat, NEW flags \in SUBSET Flag,
           "PRESENT" \in flags, "USER" \notin flags
    PROVE  Section(v, p, n, flags) \in KernelSection
<1>1. Section(v, p, n, flags) \in Job /\ Section(v, p, n, flags).flags = flags
    BY DEF Section, Job
<1> QED
    BY <1>1 DEF KernelSection

(* A run of bytes, rounded to pages.                                       *)
LEMMA RoundedSection ==
    ASSUME NEW at \in Nat, NEW from \in Nat, NEW to \in Nat, from <= to,
           NEW flags \in SUBSET Flag, "PRESENT" \in flags, "USER" \notin flags
    PROVE  LET start == align_address(from, FALSE)
           IN  Section(at + (start \div PAGE_SIZE), start \div PAGE_SIZE,
                       PagesOf(align_address(to, TRUE) - start), flags) \in KernelSection
<1> DEFINE start == align_address(from, FALSE)
           end == align_address(to, TRUE)
<1>1. start \in Nat /\ start <= from /\ end \in Nat /\ to <= end
    BY Rounding
<1> HIDE DEF start, end
<1>2. end - start \in Nat
    BY <1>1, SMT
<1>3. start \div PAGE_SIZE \in Nat /\ PagesOf(end - start) \in Nat
    BY <1>1, <1>2, Rounding
<1>4. at + (start \div PAGE_SIZE) \in Nat
    BY <1>3, SMT
<1>5. Section(at + (start \div PAGE_SIZE), start \div PAGE_SIZE, PagesOf(end - start), flags) \in KernelSection
    BY <1>3, <1>4, SectionType
<1> QED
    BY <1>5 DEF start, end

(* The sections of init_vmm are in the upper half.                         *)
LEMMA Sections ==
    /\ KernelSections \in Seq(KernelSection)
    /\ \A i \in DOMAIN KernelSections :
            /\ KernelSections[i] \in KernelSection
            /\ \A j \in 0 .. KernelSections[i].n - 1 : KernelSections[i].v + j \in High
<1> DEFINE image(s, flags) ==
            LET start == align_address(s[1], FALSE)
            IN  Section(Kernel + (start \div PAGE_SIZE), start \div PAGE_SIZE,
                        PagesOf(align_address(s[2], TRUE) - start), flags)
           area(m) ==
            LET start == align_address(m[1], FALSE)
            IN  Section(HHDM + (start \div PAGE_SIZE), start \div PAGE_SIZE,
                        PagesOf(align_address(m[1] + m[2], TRUE) - start), {"WRITE", "PRESENT"})
           frame(p) == Section(HHDM + p, p, 1, {"NX", "WRITE", "PRESENT"})
<1>1. KernelSections =
            <<image(Text, {"PRESENT"}), image(Rodata, {"NX", "PRESENT"}),
              image(Data, {"NX", "WRITE", "PRESENT"})>>
            \o [i \in DOMAIN MemMap |-> area(MemMap[i])]
            \o <<frame(Bitmap)>> \o [i \in DOMAIN Devices |-> frame(Devices[i])]
    BY DEF KernelSections
<1>2. ASSUME NEW flags \in SUBSET Flag, "PRESENT" \in flags, "USER" \notin flags
      PROVE  \A s \in {Text, Rodata, Data} : image(s, flags) \in KernelSection
    <2> SUFFICES ASSUME NEW s \in {Text, Rodata, Data} PROVE image(s, flags) \in KernelSection
        OBVIOUS
    <2>1. s[1] \in Nat /\ s[2] \in Nat /\ s[1] <= s[2] /\ Kernel \in Nat
        BY VmmAssumption
    <2> QED
        BY <1>2, <2>1, RoundedSection
<1>3. ASSUME NEW m \in Nat \X Nat PROVE area(m) \in KernelSection
    <2>1. m[1] \in Nat /\ m[2] \in Nat /\ HHDM \in Nat
        BY VmmAssumption
    <2>2. m[1] + m[2] \in Nat /\ m[1] <= m[1] + m[2]
        BY <2>1, SMT
    <2>3. /\ {"WRITE", "PRESENT"} \in SUBSET Flag /\ "PRESENT" \in {"WRITE", "PRESENT"}
          /\ "USER" \notin {"WRITE", "PRESENT"}
        BY DEF Flag
    <2> QED
        BY <2>1, <2>2, <2>3, RoundedSection
<1>4. ASSUME NEW p \in Nat PROVE frame(p) \in KernelSection
    <2>1. HHDM + p \in Nat /\ 1 \in Nat
        BY VmmAssumption, SMT
    <2>2. /\ {"NX", "WRITE", "PRESENT"} \in SUBSET Flag /\ "PRESENT" \in {"NX", "WRITE", "PRESENT"}
          /\ "USER" \notin {"NX", "WRITE", "PRESENT"}
        BY DEF Flag
    <2> QED
        BY <2>1, <2>2, SectionType
<1> HIDE DEF image, area, frame
<1>5. /\ image(Text, {"PRESENT"}) \in KernelSection
      /\ image(Rodata, {"NX", "PRESENT"}) \in KernelSection
      /\ image(Data, {"NX", "WRITE", "PRESENT"}) \in KernelSection
    BY <1>2 DEF Flag
<1>6. [i \in DOMAIN MemMap |-> area(MemMap[i])] \in Seq(KernelSection)
    <2>1. MemMap \in Seq(Nat \X Nat)
        BY VmmAssumption
    <2>2. \A i \in DOMAIN MemMap : area(MemMap[i]) \in KernelSection
        <3>1. \A i \in DOMAIN MemMap : MemMap[i] \in Nat \X Nat
            BY <2>1, SMT
        <3> QED
            BY <1>3, <3>1
    <2>3. DOMAIN MemMap = 1 .. Len(MemMap) /\ Len(MemMap) \in Nat
        BY <2>1, SMT
    <2> QED
        BY <2>2, <2>3, SMT
<1>7. [i \in DOMAIN Devices |-> frame(Devices[i])] \in Seq(KernelSection)
    <2>1. Devices \in Seq(Nat)
        BY VmmAssumption
    <2>2. \A i \in DOMAIN Devices : frame(Devices[i]) \in KernelSection
        <3>1. \A i \in DOMAIN Devices : Devices[i] \in Nat
            BY <2>1, SMT
        <3> QED
            BY <1>4, <3>1
    <2>3. DOMAIN Devices = 1 .. Len(Devices) /\ Len(Devices) \in Nat
        BY <2>1, SMT
    <2> QED
        BY <2>2, <2>3, SMT
<1>8. frame(Bitmap) \in KernelSection
    BY <1>4, VmmAssumption
<1>9. KernelSections \in Seq(KernelSection)
    <2> DEFINE a == image(Text, {"PRESENT"})
               b == image(Rodata, {"NX", "PRESENT"})
               c == image(Data, {"NX", "WRITE", "PRESENT"})
               d == [i \in DOMAIN MemMap |-> area(MemMap[i])]
               f == frame(Bitmap)
               h == [i \in DOMAIN Devices |-> frame(Devices[i])]
    <2>1. /\ a \in KernelSection /\ b \in KernelSection /\ c \in KernelSection
          /\ d \in Seq(KernelSection) /\ f \in KernelSection /\ h \in Seq(KernelSection)
        BY <1>5, <1>6, <1>7, <1>8
    <2>2. KernelSections = <<a, b, c>> \o d \o <<f>> \o h
        BY <1>1
    <2> HIDE DEF a, b, c, d, f, h
    <2>3. <<a, b, c>> \in Seq(KernelSection) /\ <<f>> \in Seq(KernelSection)
        BY <2>1, SMT
    <2>4. <<a, b, c>> \o d \in Seq(KernelSection)
        BY <2>1, <2>3, SMT
    <2>5. <<a, b, c>> \o d \o <<f>> \in Seq(KernelSection)
        BY <2>3, <2>4, SMT
    <2> QED
        BY <2>1, <2>2, <2>5, SMT
<1>10. \A i \in DOMAIN KernelSections : KernelSections[i] \in KernelSection
    BY <1>9, SMT
<1> QED
    BY <1>9, <1>10, VmmAssumption

-----------------------------------------------------------------------------
(***************************************************************************)
(* The inductive invariant.                                                *)
(***************************************************************************)
Loaded == pml4["kernel"] # 0

(* The page frames a process may have mapped: the framebuffer's, and those *)
(* kmalloc gave out for it.                                                *)
OwnIn(ow, p) == {Fb[i] : i \in DOMAIN Fb} \cup {f \in Heap : ow[f] = p}

ProcType == [pc : {"none", "load", "stack", "run", "failed"}, elf : Elfs \cup {NoElf}, i : Nat \ {0}]

Types ==
    /\ pml4 \in [Maps -> Nat] /\ pml4["kernel"] \in {0, 1}
    /\ owner \in [Heap -> Procs \cup {"free"}]
    /\ proc \in [Procs -> ProcType]
    /\ booted \in 0 .. Len(KernelSections) /\ (Loaded => booted = Len(KernelSections))

(* Every map_section under way stays in its half, and gives a process only *)
(* frames that are its own; the kernel's are over when its map is loaded.  *)
Jobs ==
    /\ todo \in [Maps -> Job]
    /\ KernelJob(todo["kernel"]) /\ (Loaded => ~(todo["kernel"].n > 0))
    /\ \A p \in Procs : UserJob(todo[p], OwnIn(owner, p)) /\ (proc[p].pc = "none" => ~(todo[p].n > 0))

RootsOf(ts, g, pm, pr) ==
    \A p \in Procs :
        IF pr[p].pc = "none" THEN pm[p] = 0
        ELSE /\ pm["kernel"] # 0 /\ pm[p] # 0
             /\ pm[p] \in 1 .. Len(ts) /\ g[pm[p]].lvl = 3 /\ g[pm[p]].own = p

LeavesOwn(ts, g, ow) ==
    \A b \in 1 .. Len(ts), e \in Slot :
        g[b].lvl = 0 /\ g[b].own # "kernel" /\ ~Absent(ts[b][e]) =>
            ts[b][e].page \in OwnIn(ow, g[b].own)

Shape(g) ==
    Tree(tables, g, Loaded) /\ RootsOf(tables, g, pml4, proc) /\ LeavesOwn(tables, g, owner)

VInv == Types /\ Jobs /\ \E g : Shape(g)

(* What a walk from a top table shows; no table shows nothing.             *)
Seen(ts, r, v) == IF r = 0 THEN NoMap ELSE View(ts, r, v)

KernelSets(w, x) == \A v \in High : Seen(tables', 1, v) = IF v = w THEN x ELSE Seen(tables, 1, v)
UserSets(q, w, x) ==
    \A p \in Procs, v \in Low :
        Seen(tables', pml4'[p], v) = IF p = q /\ v = w THEN x ELSE Seen(tables, pml4[p], v)
KernelKept == \A v \in High : Seen(tables', 1, v) = Seen(tables, 1, v)
UserKept == \A p \in Procs, v \in Low : Seen(tables', pml4'[p], v) = Seen(tables, pml4[p], v)

(* A step of the address space, or none.                                   *)
SpaceStep ==
    \/ KernelKept /\ UserKept
    \/ UserKept /\ \E w \in High, x \in Entry : KernelSets(w, x) /\ x.flags \in KernelRights /\ "USER" \notin x.flags
    \/ KernelKept /\ \E q \in Procs, w \in Low, x \in Entry :
                        UserSets(q, w, x) /\ x.flags \in UserRights /\ "USER" \in x.flags
    \/ UserKept /\ \E w \in High : KernelSets(w, NoMap)

-----------------------------------------------------------------------------
(* The names the model gives to no process.                                *)
LEMMA Names ==
    /\ "kernel" \notin Procs /\ "free" \notin Procs
    /\ "kernel" \in Maps /\ \A p \in Procs : p \in Maps /\ p # "kernel"
<1> QED
    BY VmmAssumption DEF Maps

(* The halves are apart.                                                   *)
LEMMA Halved ==
    High \subseteq Pages /\ Low \subseteq Pages /\ \A v \in Low : v \notin High
<1> QED
    BY DEF High, Low

(* The first table is the kernel's top table.                              *)
LEMMA FirstTop ==
    ASSUME NEW ts, NEW g, NEW loaded, Tree(ts, g, loaded)
    PROVE  1 \in 1 .. Len(ts) /\ g[1].lvl = 3 /\ g[1].own = "kernel"
<1>1. Len(ts) \in Nat /\ Len(ts) > 0
    BY SMT DEF Tree, TypesOf
<1>2. 1 \in 1 .. Len(ts)
    BY <1>1, SMT
<1> QED
    BY <1>2 DEF Tree, Tops

(* Nothing leads to a process before the kernel's map is loaded.           *)
LEMMA NoProcess ==
    ASSUME NEW ts, NEW g, NEW pm, NEW pr, RootsOf(ts, g, pm, pr), pm["kernel"] = 0
    PROVE  \A p \in Procs : pm[p] = 0
<1> QED
    BY DEF RootsOf

(* Tables that stay keep the processes' maps.                              *)
LEMMA RootsKept ==
    ASSUME NEW ts, NEW g, NEW us, NEW h, NEW pm, NEW pr, RootsOf(ts, g, pm, pr),
           Kept(g, h, ts), Len(ts) <= Len(us), Len(ts) \in Nat, Len(us) \in Nat
    PROVE  RootsOf(us, h, pm, pr)
<1>1. \A b \in 1 .. Len(ts) : b \in 1 .. Len(us) /\ h[b] = g[b]
    <2>1. \A b \in 1 .. Len(ts) : b \in 1 .. Len(us)
        BY SMT
    <2> QED
        BY <2>1 DEF Kept
<1> QED
    BY <1>1 DEF RootsOf

(* What map_page writes at the last level is the process's own.            *)
LEMMA MapLeaves ==
    ASSUME NEW ts, NEW g, NEW us, NEW h, NEW ow, NEW m, NEW pte, LeavesOwn(ts, g, ow),
           Kept(g, h, ts), LastLevel(ts, us, h, m, pte),
           m # "kernel" => pte.page \in OwnIn(ow, m)
    PROVE  LeavesOwn(us, h, ow)
<1> SUFFICES ASSUME NEW b \in 1 .. Len(us), NEW e \in Slot, h[b].lvl = 0, h[b].own # "kernel",
                    ~Absent(us[b][e])
             PROVE  us[b][e].page \in OwnIn(ow, h[b].own)
    BY DEF LeavesOwn
<1>1. Absent(Zero)
    BY DEF Absent, Zero
<1>2. CASE us[b][e] = pte /\ h[b].own = m
    BY <1>2
<1>3. CASE b \in 1 .. Len(ts) /\ us[b][e] = ts[b][e]
    BY <1>3 DEF LeavesOwn, Kept
<1> QED
    BY <1>1, <1>2, <1>3 DEF LastLevel

(* Frames given to a process are taken from nobody.                        *)
LEMMA Given ==
    ASSUME NEW p \in Procs, NEW f, NEW n \in Nat, owner \in [Heap -> Procs \cup {"free"}],
           f \in FreeAt(n)
    PROVE  /\ Give(p, f, n) \in [Heap -> Procs \cup {"free"}]
           /\ \A q \in Procs : OwnIn(owner, q) \subseteq OwnIn(Give(p, f, n), q)
           /\ \A i \in 0 .. n - 1 : f + i \in OwnIn(Give(p, f, n), p) /\ f + i \in Heap
<1> DEFINE ow == Give(p, f, n)
<1>1. DOMAIN owner = Heap
    OBVIOUS
<1>2. ow = [g \in Heap |-> IF g \in Run(f, n) THEN p ELSE owner[g]]
    BY <1>1 DEF Give
<1> HIDE DEF ow
<1>3. ow \in [Heap -> Procs \cup {"free"}]
    BY <1>2
<1>4. \A g \in Run(f, n) : g \in Heap /\ owner[g] = "free"
    BY DEF FreeAt
<1>5. \A q \in Procs : OwnIn(owner, q) \subseteq OwnIn(ow, q)
    BY <1>2, <1>4, Names DEF OwnIn
<1>6. \A i \in 0 .. n - 1 : f + i \in Run(f, n)
    <2>1. f \in Nat
        BY VmmAssumption, SMT DEF FreeAt, Low, Pages
    <2> QED
        BY <2>1, SMTT(30) DEF Run
<1>7. \A i \in 0 .. n - 1 : f + i \in OwnIn(ow, p) /\ f + i \in Heap
    BY <1>2, <1>4, <1>6 DEF OwnIn
<1> QED
    BY <1>3, <1>5, <1>7 DEF ow

-----------------------------------------------------------------------------
(***************************************************************************)
(* The steps that touch no table.                                          *)
(***************************************************************************)
LEMMA Quiet ==
    ASSUME NEW g, Shape(g), UNCHANGED <<tables, pml4>>,
           \A p \in Procs : proc'[p].pc = "none" <=> proc[p].pc = "none",
           \A p \in Procs : OwnIn(owner, p) \subseteq OwnIn(owner', p)
    PROVE  Shape(g)' /\ SpaceStep
<1>1. tables' = tables /\ pml4' = pml4
    OBVIOUS
<1>2. Tree(tables', g, Loaded')
    BY <1>1 DEF Shape, Loaded
<1>3. RootsOf(tables', g, pml4', proc')
    BY <1>1 DEF Shape, RootsOf
<1>4. LeavesOwn(tables', g, owner')
    <2>1. \A b \in 1 .. Len(tables) : g[b].own # "kernel" => g[b].own \in Procs
        BY DEF Shape, Tree, TypesOf, Place, Maps
    <2>2. LeavesOwn(tables, g, owner)
        BY DEF Shape
    <2> QED
        BY <1>1, <2>1, <2>2 DEF LeavesOwn
<1>5. SpaceStep
    BY <1>1 DEF SpaceStep, KernelKept, UserKept
<1> QED
    BY <1>2, <1>3, <1>4, <1>5 DEF Shape

(* A map_section called for m.                                             *)
LEMMA SectionCalled ==
    ASSUME todo \in [Maps -> Job], NEW m \in Maps,
           NEW vaddr \in Nat, NEW paddr \in Nat, NEW n \in Nat, NEW flags \in SUBSET Flag,
           map_section(m, vaddr, paddr, n * PAGE_SIZE, flags)
    PROVE  /\ todo' \in [Maps -> Job] /\ todo'[m] = Section(vaddr, paddr, n, flags)
           /\ \A k \in Maps : k # m => todo'[k] = todo[k]
<1>1. PagesOf(n * PAGE_SIZE) = n
    BY Rounding
<1>2. todo' = [todo EXCEPT ![m] = Section(vaddr, paddr, n, flags)]
    BY <1>1 DEF map_section
<1>3. Section(vaddr, paddr, n, flags) \in Job
    BY DEF Section, Job
<1> QED
    BY <1>2, <1>3

(* init_vmm calls it with a section of the kernel's.                       *)
LEMMA InitVmm ==
    ASSUME VInv, init_vmm
    PROVE  VInv' /\ SpaceStep
<1> DEFINE s == KernelSections[booted + 1]
<1>1. /\ booted < Len(KernelSections) /\ booted' = booted + 1
      /\ map_section("kernel", s.v * PAGE_SIZE, s.p * PAGE_SIZE, s.n * PAGE_SIZE, s.flags)
      /\ tables' = tables /\ pml4' = pml4 /\ owner' = owner /\ proc' = proc
    BY DEF init_vmm
<1>2. booted \in 0 .. Len(KernelSections) /\ Len(KernelSections) \in Nat
    <2>1. Len(KernelSections) \in Nat
        BY Sections, SMT
    <2> QED
        BY <2>1 DEF VInv, Types
<1>3. ~Loaded
    <2>1. booted # Len(KernelSections)
        BY <1>1, <1>2, SMTT(30)
    <2> QED
        BY <2>1 DEF VInv, Types
<1>4. booted + 1 \in DOMAIN KernelSections /\ booted' \in 0 .. Len(KernelSections)
    <2>1. DOMAIN KernelSections = 1 .. Len(KernelSections)
        BY Sections, SMT
    <2> QED
        BY <1>1, <1>2, <2>1, SMTT(30)
<1>5. Types'
    BY <1>1, <1>3, <1>4 DEF VInv, Types, Loaded
<1>6. /\ s \in Job /\ s.flags \in KernelRights /\ s.flags \in SUBSET Flag
      /\ s.v \in Nat /\ s.p \in Nat /\ s.n \in Nat
      /\ \A j \in 0 .. s.n - 1 : s.v + j \in High
    <2>1. s \in Job
        BY <1>4, Sections DEF KernelSection
    <2>2. \A j \in 0 .. s.n - 1 : s.v + j \in High
        BY <1>4, Sections
    <2>3. s.flags \in KernelRights
        BY <1>4 DEF KernelRights
    <2> HIDE DEF s
    <2> QED
        BY <2>1, <2>2, <2>3 DEF Job
<1> HIDE DEF s
<1> DEFINE k == Section(s.v * PAGE_SIZE, s.p * PAGE_SIZE, s.n, s.flags)
<1>7. /\ s.v * PAGE_SIZE \in Nat /\ (s.v * PAGE_SIZE) \div PAGE_SIZE = s.v
      /\ s.p * PAGE_SIZE \in Nat /\ (s.p * PAGE_SIZE) \div PAGE_SIZE = s.p
      /\ (s.p * PAGE_SIZE) % PAGE_SIZE = 0
    BY <1>6, Rounding
<1>8. todo' \in [Maps -> Job] /\ todo'["kernel"] = k /\ \A m \in Maps : m # "kernel" => todo'[m] = todo[m]
    BY <1>1, <1>6, <1>7, Names, SectionCalled DEF VInv, Jobs
<1>9. KernelJob(k)
    <2>1. k.v = s.v * PAGE_SIZE /\ k.p = s.p * PAGE_SIZE /\ k.n = s.n /\ k.flags = s.flags
        BY DEF Section
    <2>2. k \in Job
        BY <1>6, <1>7 DEF Section, Job
    <2> HIDE DEF k
    <2>3. \A i \in 0 .. k.n - 1 : PageOf(k, i) \in High
        BY <1>6, <1>7, <2>1 DEF PageOf
    <2>4. \A i \in 0 .. k.n - 1 : FrameOf(k, i) \in Nat
        BY <1>6, <1>7, <2>1, SMT DEF FrameOf
    <2> QED
        BY <1>6, <1>7, <2>1, <2>2, <2>3, <2>4 DEF KernelJob, Over
<1> HIDE DEF k
<1>10. Jobs'
    <2>1. KernelJob(todo'["kernel"]) /\ ~Loaded'
        BY <1>1, <1>3, <1>8, <1>9 DEF Loaded
    <2>2. \A p \in Procs : todo'[p] = todo[p]
        BY <1>8, Names
    <2> QED
        BY <1>1, <1>8, <2>1, <2>2 DEF VInv, Jobs
<1>11. PICK g : Shape(g)
    BY DEF VInv
<1>12. Shape(g)' /\ SpaceStep
    BY <1>1, <1>11, Quiet
<1> QED
    BY <1>5, <1>10, <1>12 DEF VInv

(* A process's step that touches no table: what it has left to map stays   *)
(* in its half and in its own frames.                                      *)
LEMMA ProcessStep ==
    ASSUME VInv, NEW p \in Procs,
           UNCHANGED <<tables, pml4, booted>>,
           proc' \in [Procs -> ProcType],
           \A q \in Procs : proc'[q].pc = "none" <=> proc[q].pc = "none",
           proc[p].pc # "none",
           owner' \in [Heap -> Procs \cup {"free"}],
           \A q \in Procs : OwnIn(owner, q) \subseteq OwnIn(owner', q),
           todo' \in [Maps -> Job], \A m \in Maps : m # p => todo'[m] = todo[m],
           UserJob(todo'[p], OwnIn(owner', p))
    PROVE  VInv' /\ SpaceStep
<1>1. tables' = tables /\ pml4' = pml4 /\ booted' = booted /\ Loaded' = Loaded
    BY DEF Loaded
<1>2. Types'
    BY <1>1 DEF VInv, Types
<1>3. Jobs'
    <2>1. todo'["kernel"] = todo["kernel"]
        BY Names
    <2>2. KernelJob(todo'["kernel"]) /\ (Loaded' => ~(todo'["kernel"].n > 0))
        BY <1>1, <2>1 DEF VInv, Jobs
    <2>3. ASSUME NEW q \in Procs
          PROVE  UserJob(todo'[q], OwnIn(owner', q)) /\ (proc'[q].pc = "none" => ~(todo'[q].n > 0))
        <3>1. CASE q = p
            BY <3>1
        <3>2. CASE q # p
            <4>1. todo'[q] = todo[q]
                BY <3>2, Names
            <4>2. UserJob(todo[q], OwnIn(owner, q)) /\ (proc[q].pc = "none" => ~(todo[q].n > 0))
                BY DEF VInv, Jobs
            <4>3. UserJob(todo[q], OwnIn(owner', q))
                BY <4>2, UserJobGrows
            <4> QED
                BY <4>1, <4>2, <4>3
        <3> QED
            BY <3>1, <3>2
    <2> QED
        BY <2>2, <2>3 DEF Jobs
<1>4. PICK g : Shape(g)
    BY DEF VInv
<1>5. Shape(g)' /\ SpaceStep
    BY <1>1, <1>4, Quiet
<1> QED
    BY <1>2, <1>3, <1>5 DEF VInv

(* What kmalloc returns is free.                                           *)
Mallocs == \A n \in Nat : kmalloc(n) # NULL => kmalloc(n) \in FreeAt(n)

FullRights == {"PRESENT", "NX", "USER", "WRITE"}

(* The rights mmap, stacks and the framebuffer are mapped with.            *)
LEMMA Full ==
    FullRights \in UserRights /\ FullRights \in SUBSET Flag
<1>1. FullRights = ElfFlags([x |-> FALSE, w |-> TRUE])
    BY DEF ElfFlags, FullRights
<1> QED
    BY <1>1, ElfRights DEF FullRights, Flag

(* The heap is mapped where it lies, in the lower half.                    *)
LEMMA HeapLow ==
    Heap \subseteq Low /\ Heap \subseteq Nat
<1>1. Heap \subseteq Low
    BY VmmAssumption
<1> QED
    BY <1>1, Digits, Halved

(* Mapping what kmalloc gave where it lies.                                *)
LEMMA OwnMapped ==
    ASSUME VInv, NEW p \in Procs, NEW n \in Nat, NEW f, f \in FreeAt(n), MapOwn(p, f, n)
    PROVE  /\ owner' \in [Heap -> Procs \cup {"free"}]
           /\ \A q \in Procs : OwnIn(owner, q) \subseteq OwnIn(owner', q)
           /\ todo' \in [Maps -> Job] /\ \A m \in Maps : m # p => todo'[m] = todo[m]
           /\ UserJob(todo'[p], OwnIn(owner', p))
<1>1. /\ owner' = Give(p, f, n)
      /\ map_section(p, f * PAGE_SIZE, f * PAGE_SIZE, n * PAGE_SIZE, FullRights)
    BY DEF MapOwn, FullRights
<1>2. owner \in [Heap -> Procs \cup {"free"}] /\ todo \in [Maps -> Job] /\ p \in Maps
    BY Names DEF VInv, Types, Jobs
<1>3. /\ owner' \in [Heap -> Procs \cup {"free"}]
      /\ \A q \in Procs : OwnIn(owner, q) \subseteq OwnIn(owner', q)
      /\ \A i \in 0 .. n - 1 : f + i \in OwnIn(owner', p) /\ f + i \in Heap
    BY <1>1, <1>2, Given
<1>4. f \in Nat
    BY HeapLow DEF FreeAt
<1>5. f * PAGE_SIZE \in Nat /\ (f * PAGE_SIZE) \div PAGE_SIZE = f
    BY <1>4, Rounding
<1> DEFINE k == Section(f * PAGE_SIZE, f * PAGE_SIZE, n, FullRights)
<1>6. todo' \in [Maps -> Job] /\ todo'[p] = k /\ \A m \in Maps : m # p => todo'[m] = todo[m]
    BY <1>1, <1>2, <1>5, Full, SectionCalled
<1>7. k.v = f * PAGE_SIZE /\ k.p = f * PAGE_SIZE /\ k.n = n /\ k.flags = FullRights
    BY DEF Section
<1>8. k \in Job
    BY <1>2, <1>6
<1> HIDE DEF k
<1>9. \A i \in 0 .. k.n - 1 : PageOf(k, i) = f + i /\ FrameOf(k, i) = f + i
    BY <1>5, <1>7 DEF PageOf, FrameOf
<1>10. UserJob(k, OwnIn(owner', p))
    BY <1>3, <1>7, <1>8, <1>9, Full, HeapLow DEF UserJob, Over
<1> QED
    BY <1>3, <1>6, <1>10

(* A step of a process that only says how far it is.                       *)
LEMMA JobsStay ==
    ASSUME VInv, NEW p \in Procs, UNCHANGED <<owner, todo>>
    PROVE  /\ owner' \in [Heap -> Procs \cup {"free"}]
           /\ \A q \in Procs : OwnIn(owner, q) \subseteq OwnIn(owner', q)
           /\ todo' \in [Maps -> Job] /\ \A m \in Maps : m # p => todo'[m] = todo[m]
           /\ UserJob(todo'[p], OwnIn(owner', p))
<1>1. owner' = owner /\ todo' = todo
    OBVIOUS
<1> QED
    BY <1>1 DEF VInv, Types, Jobs

(* A process moves on in its creation.                                     *)
LEMMA ProcMoves ==
    ASSUME proc \in [Procs -> ProcType], NEW p \in Procs, proc[p].pc # "none",
           NEW s \in {"load", "stack", "run", "failed"},
           proc' = [proc EXCEPT ![p].pc = s]
    PROVE  /\ proc' \in [Procs -> ProcType]
           /\ \A q \in Procs : proc'[q].pc = "none" <=> proc[q].pc = "none"
<1>1. proc[p] \in ProcType
    OBVIOUS
<1>2. [proc[p] EXCEPT !.pc = s] \in ProcType /\ [proc[p] EXCEPT !.pc = s].pc = s
    BY <1>1, SMT DEF ProcType
<1>3. proc' = [proc EXCEPT ![p] = [proc[p] EXCEPT !.pc = s]]
    OBVIOUS
<1> HIDE DEF ProcType
<1>4. proc' \in [Procs -> ProcType] /\ proc'[p].pc = s /\ \A q \in Procs : q # p => proc'[q] = proc[q]
    BY <1>2, <1>3
<1> QED
    BY <1>4

(* elf_load goes on to the next program header.                            *)
LEMMA ProcCounts ==
    ASSUME proc \in [Procs -> ProcType], NEW p \in Procs, proc' = [proc EXCEPT ![p].i = @ + 1]
    PROVE  /\ proc' \in [Procs -> ProcType]
           /\ \A q \in Procs : proc'[q].pc = "none" <=> proc[q].pc = "none"
<1>1. proc[p] \in ProcType
    OBVIOUS
<1>2. [proc[p] EXCEPT !.i = @ + 1] \in ProcType /\ [proc[p] EXCEPT !.i = @ + 1].pc = proc[p].pc
    BY <1>1, SMT DEF ProcType
<1>3. proc' = [proc EXCEPT ![p] = [proc[p] EXCEPT !.i = @ + 1]]
    OBVIOUS
<1> HIDE DEF ProcType
<1>4. /\ proc' \in [Procs -> ProcType] /\ proc'[p].pc = proc[p].pc
      /\ \A q \in Procs : q # p => proc'[q] = proc[q]
    BY <1>2, <1>3
<1> QED
    BY <1>4

(* create_user_thread.                                                     *)
LEMMA CreateUserThread ==
    ASSUME VInv, Mallocs, NEW p \in Procs, create_user_thread(p)
    PROVE  VInv' /\ SpaceStep
<1>1. /\ proc[p].pc = "stack" /\ tables' = tables /\ pml4' = pml4 /\ booted' = booted
      /\ proc \in [Procs -> ProcType]
    BY DEF create_user_thread, VInv, Types
<1>2. CASE kmalloc(StackPages) = NULL
    <2>1. proc' = [proc EXCEPT ![p].pc = "failed"] /\ owner' = owner /\ todo' = todo
        BY <1>2 DEF create_user_thread
    <2>2. /\ proc' \in [Procs -> ProcType]
          /\ \A q \in Procs : proc'[q].pc = "none" <=> proc[q].pc = "none"
        BY <1>1, <2>1, ProcMoves
    <2>3. /\ owner' \in [Heap -> Procs \cup {"free"}]
          /\ \A q \in Procs : OwnIn(owner, q) \subseteq OwnIn(owner', q)
          /\ todo' \in [Maps -> Job] /\ \A m \in Maps : m # p => todo'[m] = todo[m]
          /\ UserJob(todo'[p], OwnIn(owner', p))
        BY <2>1, JobsStay
    <2> QED
        BY <1>1, <2>2, <2>3, ProcessStep
<1>3. CASE kmalloc(StackPages) # NULL
    <2>1. proc' = [proc EXCEPT ![p].pc = "run"] /\ MapOwn(p, kmalloc(StackPages), StackPages)
        BY <1>3 DEF create_user_thread
    <2>2. /\ proc' \in [Procs -> ProcType]
          /\ \A q \in Procs : proc'[q].pc = "none" <=> proc[q].pc = "none"
        BY <1>1, <2>1, ProcMoves
    <2>3. StackPages \in Nat
        BY VmmAssumption
    <2>4. kmalloc(StackPages) \in FreeAt(StackPages)
        BY <1>3, <2>3 DEF Mallocs
    <2>5. /\ owner' \in [Heap -> Procs \cup {"free"}]
          /\ \A q \in Procs : OwnIn(owner, q) \subseteq OwnIn(owner', q)
          /\ todo' \in [Maps -> Job] /\ \A m \in Maps : m # p => todo'[m] = todo[m]
          /\ UserJob(todo'[p], OwnIn(owner', p))
        BY <2>1, <2>3, <2>4, OwnMapped
    <2> QED
        BY <1>1, <2>2, <2>5, ProcessStep
<1> QED
    BY <1>2, <1>3

(* syscall_mmap.                                                           *)
LEMMA SyscallMmap ==
    ASSUME VInv, Mallocs, NEW p \in Procs, NEW len \in Lens, syscall_mmap(p, len)
    PROVE  VInv' /\ SpaceStep
<1>1. /\ proc[p].pc = "run" /\ tables' = tables /\ pml4' = pml4 /\ booted' = booted /\ proc' = proc
      /\ kmalloc(PagesOf(len)) # NULL /\ MapOwn(p, kmalloc(PagesOf(len)), PagesOf(len))
      /\ proc \in [Procs -> ProcType]
    BY DEF syscall_mmap, VInv, Types
<1>2. PagesOf(len) \in Nat
    <2>1. len \in Nat
        BY VmmAssumption
    <2> QED
        BY <2>1, Rounding
<1>3. kmalloc(PagesOf(len)) \in FreeAt(PagesOf(len))
    BY <1>1, <1>2 DEF Mallocs
<1>4. /\ owner' \in [Heap -> Procs \cup {"free"}]
      /\ \A q \in Procs : OwnIn(owner, q) \subseteq OwnIn(owner', q)
      /\ todo' \in [Maps -> Job] /\ \A m \in Maps : m # p => todo'[m] = todo[m]
      /\ UserJob(todo'[p], OwnIn(owner', p))
    BY <1>1, <1>2, <1>3, OwnMapped
<1> QED
    BY <1>1, <1>4, ProcessStep

(* The framebuffer's frames in a row, mapped in a row.                     *)
LEMMA FbRow ==
    /\ Fb[1] \in Nat /\ Fb[1] + FbOffset \in Nat /\ Len(Fb) \in Nat
    /\ \A i \in 0 .. Len(Fb) - 1 : /\ Fb[1] + i \in {Fb[j] : j \in DOMAIN Fb}
                                   /\ (Fb[1] + FbOffset) + i \in Low
<1>1. /\ Fb \in Seq(Nat) /\ Fb # <<>> /\ FbOffset \in Nat
      /\ \A i \in DOMAIN Fb : Fb[i] = Fb[1] + i - 1 /\ Fb[i] + FbOffset \in Low
    BY VmmAssumption
<1>2. /\ Len(Fb) \in Nat /\ DOMAIN Fb = 1 .. Len(Fb) /\ Len(Fb) # 0 /\ \A i \in DOMAIN Fb : Fb[i] \in Nat
    BY <1>1, SMT
<1>3. Fb[1] \in Nat
    <2>1. 1 \in 1 .. Len(Fb)
        BY <1>2, SMT
    <2> QED
        BY <1>2, <2>1
<1>4. Fb[1] + FbOffset \in Nat
    <2>1. FbOffset \in Nat
        BY <1>1
    <2> QED
        BY <1>3, <2>1, SMT
<1>5. ASSUME NEW i \in 0 .. Len(Fb) - 1
      PROVE  Fb[1] + i \in {Fb[j] : j \in DOMAIN Fb} /\ (Fb[1] + FbOffset) + i \in Low
    <2>1. i + 1 \in DOMAIN Fb
        BY <1>2, SMT
    <2>2. Fb[i + 1] = Fb[1] + (i + 1) - 1 /\ Fb[i + 1] + FbOffset \in Low
        BY <1>1, <2>1
    <2>3. Fb[i + 1] = Fb[1] + i /\ Fb[i + 1] + FbOffset = (Fb[1] + FbOffset) + i
        BY <1>1, <1>3, <2>2, SMT
    <2> QED
        BY <2>1, <2>2, <2>3
<1> QED
    BY <1>2, <1>3, <1>4, <1>5

(* syscall_get_fb_context.                                                 *)
LEMMA SyscallGetFbContext ==
    ASSUME VInv, NEW p \in Procs, syscall_get_fb_context(p)
    PROVE  VInv' /\ SpaceStep
<1> DEFINE v == (Fb[1] + FbOffset) * PAGE_SIZE
           a == Fb[1] * PAGE_SIZE
           k == Section(v, a, Len(Fb), FullRights)
<1>1. /\ proc[p].pc = "run" /\ tables' = tables /\ pml4' = pml4 /\ booted' = booted
      /\ proc' = proc /\ owner' = owner
      /\ map_section(p, v, a, Len(Fb) * PAGE_SIZE, FullRights)
    BY DEF syscall_get_fb_context, FullRights
<1>2. /\ proc \in [Procs -> ProcType] /\ owner \in [Heap -> Procs \cup {"free"}]
      /\ todo \in [Maps -> Job] /\ p \in Maps
    BY Names DEF VInv, Types, Jobs
<1>3. /\ v \in Nat /\ v \div PAGE_SIZE = Fb[1] + FbOffset
      /\ a \in Nat /\ a \div PAGE_SIZE = Fb[1]
    BY FbRow, Rounding
<1> HIDE DEF v, a
<1>4. todo' \in [Maps -> Job] /\ todo'[p] = k /\ \A m \in Maps : m # p => todo'[m] = todo[m]
    BY <1>1, <1>2, <1>3, FbRow, Full, SectionCalled
<1>5. k.v = v /\ k.p = a /\ k.n = Len(Fb) /\ k.flags = FullRights
    BY DEF Section
<1>6. k \in Job
    BY <1>2, <1>4
<1> HIDE DEF k
<1>7. \A i \in 0 .. k.n - 1 : PageOf(k, i) \in Low /\ FrameOf(k, i) \in OwnIn(owner, p)
    BY <1>3, <1>5, FbRow DEF PageOf, FrameOf, OwnIn
<1>8. UserJob(k, OwnIn(owner, p))
    BY <1>5, <1>6, <1>7, Full DEF UserJob, Over
<1> QED
    BY <1>1, <1>2, <1>4, <1>8, ProcessStep

(* A program header: where its pages are, and their rights.                *)
LEMMA Header ==
    ASSUME proc \in [Procs -> ProcType], NEW p \in Procs, ~(proc[p].i > Len(proc[p].elf.phdrs))
    PROVE  LET hdr == proc[p].elf.phdrs[proc[p].i]
           IN  /\ hdr.vaddr \in Nat /\ hdr.memsz \in Nat /\ hdr.load \in BOOLEAN
               /\ ElfFlags(hdr) \in UserRights /\ ElfFlags(hdr) \in SUBSET Flag
               /\ hdr.load => \A j \in 0 .. PagesOf((hdr.vaddr % PAGE_SIZE) + hdr.memsz) - 1 :
                                (hdr.vaddr \div PAGE_SIZE) + j \in Low
<1> DEFINE elf == proc[p].elf
           i == proc[p].i
           hdr == elf.phdrs[i]
           Hdr == [vaddr : Nat, memsz : Nat, x : BOOLEAN, w : BOOLEAN, load : BOOLEAN]
<1>1. elf \in Elfs \cup {NoElf} /\ i \in Nat \ {0}
    <2>1. proc[p] \in ProcType
        OBVIOUS
    <2> QED
        BY <2>1 DEF ProcType
<1>2. ~(i > Len(elf.phdrs))
    OBVIOUS
<1> HIDE DEF elf, i
<1>3. elf \in Elfs
    <2>1. NoElf.phdrs = << >>
        BY DEF NoElf
    <2>2. Len(NoElf.phdrs) = 0
        BY <2>1, SMT
    <2>3. elf # NoElf
        BY <1>1, <1>2, <2>2, SMT
    <2> QED
        BY <1>1, <2>3
<1>4. elf.phdrs \in Seq(Hdr)
    <2>1. Elfs \subseteq [valid : BOOLEAN, phdrs : Seq(Hdr)]
        BY VmmAssumption
    <2> HIDE DEF Hdr
    <2> QED
        BY <1>3, <2>1
<1>5. i \in DOMAIN elf.phdrs /\ hdr \in Hdr
    <2> HIDE DEF Hdr
    <2> QED
        BY <1>1, <1>2, <1>4, SMT
<1>6. hdr.load => \A j \in 0 .. PagesOf((hdr.vaddr % PAGE_SIZE) + hdr.memsz) - 1 :
                                (hdr.vaddr \div PAGE_SIZE) + j \in Low
    BY <1>3, <1>5, VmmAssumption
<1> HIDE DEF hdr
<1>7. /\ hdr.vaddr \in Nat /\ hdr.memsz \in Nat /\ hdr.load \in BOOLEAN
      /\ hdr.x \in BOOLEAN /\ hdr.w \in BOOLEAN
    BY <1>5
<1>8. ElfFlags(hdr) = ElfFlags([x |-> hdr.x, w |-> hdr.w])
    BY DEF ElfFlags
<1>9. ElfFlags(hdr) \in UserRights
    BY <1>7, <1>8, ElfRights
<1>10. ElfFlags(hdr) \in SUBSET Flag
    BY DEF ElfFlags, Flag
<1> QED
    BY <1>6, <1>7, <1>9, <1>10 DEF hdr, elf, i

(* Where elf_load has map_section start, in pages.                         *)
LEMMA Offsets ==
    ASSUME NEW a \in Nat, NEW f \in Nat, NEW b \in Nat
    PROVE  /\ a - (a % PAGE_SIZE) \in Nat /\ (a - (a % PAGE_SIZE)) \div PAGE_SIZE = a \div PAGE_SIZE
           /\ f * PAGE_SIZE + (a % PAGE_SIZE) \in Nat
           /\ (f * PAGE_SIZE + (a % PAGE_SIZE)) \div PAGE_SIZE = f
           /\ (a % PAGE_SIZE) + b \in Nat
<1> QED
    BY SMT DEF PAGE_SIZE

(* elf_load.                                                               *)
LEMMA ElfLoad ==
    ASSUME VInv, Mallocs, NEW p \in Procs, elf_load(p)
    PROVE  VInv' /\ SpaceStep
<1>1. /\ proc[p].pc = "load" /\ tables' = tables /\ pml4' = pml4 /\ booted' = booted
      /\ proc \in [Procs -> ProcType]
    BY DEF elf_load, VInv, Types
<1> DEFINE hdr == proc[p].elf.phdrs[proc[p].i]
           offset == hdr.vaddr % PAGE_SIZE
           n == PagesOf(offset + hdr.memsz)
           f == kmalloc(n)
<1>2. ASSUME owner' = owner, todo' = todo,
             proc' = [proc EXCEPT ![p].pc = "stack"] \/ proc' = [proc EXCEPT ![p].i = @ + 1]
      PROVE  VInv' /\ SpaceStep
    <2>1. /\ proc' \in [Procs -> ProcType]
          /\ \A q \in Procs : proc'[q].pc = "none" <=> proc[q].pc = "none"
        <3>1. CASE proc' = [proc EXCEPT ![p].pc = "stack"]
            BY <1>1, <3>1, ProcMoves
        <3>2. CASE proc' = [proc EXCEPT ![p].i = @ + 1]
            BY <1>1, <3>2, ProcCounts
        <3> QED
            BY <1>2, <3>1, <3>2
    <2>2. /\ owner' \in [Heap -> Procs \cup {"free"}]
          /\ \A q \in Procs : OwnIn(owner, q) \subseteq OwnIn(owner', q)
          /\ todo' \in [Maps -> Job] /\ \A m \in Maps : m # p => todo'[m] = todo[m]
          /\ UserJob(todo'[p], OwnIn(owner', p))
        BY <1>2, JobsStay
    <2> QED
        BY <1>1, <2>1, <2>2, ProcessStep
<1>3. CASE proc[p].i > Len(proc[p].elf.phdrs)
    BY <1>2, <1>3 DEF elf_load
<1>4. CASE ~(proc[p].i > Len(proc[p].elf.phdrs))
    <2>1. /\ hdr.vaddr \in Nat /\ hdr.memsz \in Nat /\ hdr.load \in BOOLEAN
          /\ ElfFlags(hdr) \in UserRights /\ ElfFlags(hdr) \in SUBSET Flag
          /\ hdr.load => \A j \in 0 .. n - 1 : (hdr.vaddr \div PAGE_SIZE) + j \in Low
        BY <1>1, <1>4, Header
    <2>2. CASE ~hdr.load
        <3>1. proc' = [proc EXCEPT ![p].i = @ + 1] /\ owner' = owner /\ todo' = todo
            BY <1>4, <2>2 DEF elf_load
        <3> QED
            BY <1>2, <3>1
    <2>3. CASE hdr.load /\ f = NULL
        <3>1. proc' = [proc EXCEPT ![p].pc = "stack"] /\ owner' = owner /\ todo' = todo
            BY <1>4, <2>3 DEF elf_load
        <3> QED
            BY <1>2, <3>1
    <2>4. CASE hdr.load /\ f # NULL
        <3>1. /\ proc' = [proc EXCEPT ![p].i = @ + 1]
              /\ owner' = Give(p, f, n)
              /\ map_section(p, hdr.vaddr - offset, f * PAGE_SIZE + offset, n * PAGE_SIZE, ElfFlags(hdr))
            BY <1>4, <2>4 DEF elf_load
        <3> HIDE DEF hdr
        <3>2. n \in Nat
            BY <2>1, Offsets, Rounding
        <3>3. f \in FreeAt(n)
            BY <2>4, <3>2 DEF Mallocs
        <3> HIDE DEF n, f
        <3>4. f \in Nat
            BY <3>3, HeapLow DEF FreeAt
        <3>5. /\ hdr.vaddr - offset \in Nat /\ (hdr.vaddr - offset) \div PAGE_SIZE = hdr.vaddr \div PAGE_SIZE
              /\ f * PAGE_SIZE + offset \in Nat /\ (f * PAGE_SIZE + offset) \div PAGE_SIZE = f
            BY <2>1, <3>4, Offsets
        <3> HIDE DEF offset
        <3> DEFINE k == Section(hdr.vaddr - offset, f * PAGE_SIZE + offset, n, ElfFlags(hdr))
        <3>6. /\ owner \in [Heap -> Procs \cup {"free"}]
              /\ todo \in [Maps -> Job] /\ p \in Maps
            BY Names DEF VInv, Types, Jobs
        <3>7. /\ owner' \in [Heap -> Procs \cup {"free"}]
              /\ \A q \in Procs : OwnIn(owner, q) \subseteq OwnIn(owner', q)
              /\ \A i \in 0 .. n - 1 : f + i \in OwnIn(owner', p)
            BY <3>1, <3>2, <3>3, <3>6, Given
        <3>8. todo' \in [Maps -> Job] /\ todo'[p] = k /\ \A m \in Maps : m # p => todo'[m] = todo[m]
            BY <2>1, <3>1, <3>2, <3>5, <3>6, SectionCalled
        <3>9. /\ k.v = hdr.vaddr - offset /\ k.p = f * PAGE_SIZE + offset /\ k.n = n
              /\ k.flags = ElfFlags(hdr)
            BY DEF Section
        <3>10. k \in Job
            BY <3>6, <3>8
        <3> HIDE DEF k
        <3>11. \A i \in 0 .. k.n - 1 : PageOf(k, i) \in Low /\ FrameOf(k, i) \in OwnIn(owner', p)
            BY <2>1, <2>4, <3>5, <3>7, <3>9 DEF PageOf, FrameOf
        <3>12. UserJob(k, OwnIn(owner', p))
            BY <2>1, <3>9, <3>10, <3>11 DEF UserJob, Over
        <3>13. /\ proc' \in [Procs -> ProcType]
               /\ \A q \in Procs : proc'[q].pc = "none" <=> proc[q].pc = "none"
            BY <1>1, <3>1, ProcCounts
        <3> QED
            BY <1>1, <3>7, <3>8, <3>12, <3>13, ProcessStep
    <2> QED
        BY <2>1, <2>2, <2>3, <2>4
<1> QED
    BY <1>3, <1>4

-----------------------------------------------------------------------------
(***************************************************************************)
(* The steps that write tables.                                            *)
(***************************************************************************)

(* What map_page does, in terms of its job.                                *)
LEMMA MapPageStep ==
    ASSUME NEW m, NEW root, map_page(m, root), todo \in [Maps -> Job], m \in Maps
    PROVE  LET j == todo[m]
           IN  /\ j.n > 0 /\ j \in Job
               /\ tables' = Mapped(tables, root, j.v \div PAGE_SIZE, Or(j.p, j.flags))
               /\ todo'[m] = Rest(j) /\ \A k \in Maps : k # m => todo'[k] = todo[k]
               /\ Rest(j) \in Job => todo' \in [Maps -> Job]
               /\ pml4' = pml4 /\ owner' = owner /\ proc' = proc /\ booted' = booted
<1> DEFINE j == todo[m]
<1>1. j.n > 0 /\ pml4' = pml4 /\ owner' = owner /\ proc' = proc /\ booted' = booted
    BY DEF map_page
<1>2. tables' = Mapped(tables, root, j.v \div PAGE_SIZE, Or(j.p, j.flags))
    BY DEF map_page, Mapped
<1>3. todo' = [todo EXCEPT ![m] = Rest(j)]
    BY DEF map_page, Rest
<1>4. j \in Job
    OBVIOUS
<1>5. todo'[m] = Rest(j) /\ \A k \in Maps : k # m => todo'[k] = todo[k]
    BY <1>3
<1>6. Rest(j) \in Job => todo' \in [Maps -> Job]
    BY <1>3
<1> QED
    BY <1>1, <1>2, <1>4, <1>5, <1>6

(* Jobs are kept when one map's goes on.                                   *)
LEMMA JobsGoOn ==
    ASSUME Jobs, NEW m \in Maps, todo[m].n > 0,
           todo'[m] = Rest(todo[m]), \A k \in Maps : k # m => todo'[k] = todo[k],
           Rest(todo[m]) \in Job => todo' \in [Maps -> Job],
           pml4' = pml4, owner' = owner, proc' = proc
    PROVE  Jobs'
<1>1. todo[m] \in Job /\ Loaded' = Loaded
    BY DEF Jobs, Loaded
<1>2. /\ KernelJob(todo[m]) => KernelJob(todo'[m])
      /\ \A own : UserJob(todo[m], own) => UserJob(todo'[m], own)
    BY RestJob
<1>3. CASE m = "kernel"
    <2>1. KernelJob(todo'["kernel"])
        BY <1>2, <1>3 DEF Jobs
    <2>2. todo' \in [Maps -> Job]
        BY <1>3, <2>1 DEF KernelJob
    <2>3. ~Loaded'
        BY <1>1, <1>3 DEF Jobs
    <2>4. \A p \in Procs : todo'[p] = todo[p]
        BY <1>3, Names
    <2> QED
        BY <2>1, <2>2, <2>3, <2>4 DEF Jobs
<1>4. CASE m \in Procs
    <2>1. UserJob(todo'[m], OwnIn(owner, m)) /\ proc[m].pc # "none"
        BY <1>2, <1>4 DEF Jobs
    <2>2. todo' \in [Maps -> Job]
        BY <2>1 DEF UserJob
    <2>3. todo'["kernel"] = todo["kernel"]
        BY <1>4, Names
    <2>4. \A p \in Procs : p # m => todo'[p] = todo[p]
        BY Names
    <2>5. ASSUME NEW p \in Procs
          PROVE  UserJob(todo'[p], OwnIn(owner', p)) /\ (proc'[p].pc = "none" => ~(todo'[p].n > 0))
        BY <2>1, <2>4 DEF Jobs
    <2>6. KernelJob(todo'["kernel"]) /\ (Loaded' => ~(todo'["kernel"].n > 0))
        BY <1>1, <2>3 DEF Jobs
    <2> QED
        BY <2>2, <2>5, <2>6 DEF Jobs
<1> QED
    BY <1>3, <1>4 DEF Maps

(* map_page by init_vmm.                                                   *)
LEMMA MapKernelPage ==
    ASSUME VInv, map_page("kernel", 1)
    PROVE  VInv' /\ SpaceStep
<1> DEFINE j == todo["kernel"]
           v == j.v \div PAGE_SIZE
           pte == Or(j.p, j.flags)
<1>1. todo \in [Maps -> Job] /\ "kernel" \in Maps /\ KernelJob(j) /\ (Loaded => ~(j.n > 0))
    BY Names DEF VInv, Jobs
<1>2. /\ j.n > 0 /\ j \in Job /\ tables' = Mapped(tables, 1, v, pte)
      /\ todo'["kernel"] = Rest(j) /\ \A k \in Maps : k # "kernel" => todo'[k] = todo[k]
      /\ Rest(j) \in Job => todo' \in [Maps -> Job]
      /\ pml4' = pml4 /\ owner' = owner /\ proc' = proc /\ booted' = booted
    BY <1>1, MapPageStep
<1>3. Jobs'
    BY <1>1, <1>2, JobsGoOn DEF VInv
<1> HIDE DEF j
<1>4. ~Loaded /\ ~Loaded' /\ Loaded' = Loaded
    BY <1>1, <1>2 DEF Loaded
<1>5. Types'
    BY <1>2, <1>4 DEF VInv, Types, Loaded
<1>6. v \in High
    BY <1>1, <1>2, RestOver DEF KernelJob
<1>7. j.p \in Nat /\ j.p % PAGE_SIZE = 0 /\ j.flags \in SUBSET Flag /\ j.flags \in KernelRights
    BY <1>1, <1>2 DEF KernelJob, Job
<1>8. pte \in Entry /\ pte.flags = j.flags
    BY <1>7, OrAligned
<1>9. "USER" \notin pte.flags /\ ~Absent(pte)
    <2>1. PICK i \in DOMAIN KernelSections : j.flags = KernelSections[i].flags
        BY <1>7 DEF KernelRights
    <2>2. KernelSections[i] \in KernelSection
        BY Sections
    <2> QED
        BY <1>8, <2>1, <2>2 DEF KernelSection, Absent
<1> HIDE DEF v, pte
<1>10. PICK g : Shape(g)
    BY DEF VInv
<1>11. Tree(tables, g, Loaded) /\ RootsOf(tables, g, pml4, proc) /\ LeavesOwn(tables, g, owner)
    BY <1>10 DEF Shape
<1>12. 1 \in 1 .. Len(tables) /\ g[1].lvl = 3 /\ g[1].own = "kernel" /\ v \in Pages
    BY <1>6, <1>11, FirstTop, Halved
<1>13. PICK h :
            /\ Tree(tables', h, Loaded) /\ Kept(g, h, tables) /\ Len(tables) <= Len(tables')
            /\ LastLevel(tables, tables', h, g[1].own, pte)
            /\ \A q \in 1 .. Len(tables), w \in Pages : g[q].lvl = 3 =>
                    View(tables', q, w) = IF w = v /\ (q = 1 \/ v \in High)
                                          THEN (IF Absent(pte) THEN NoMap ELSE pte)
                                          ELSE View(tables, q, w)
    <2>0. /\ v \in High <=> g[1].own = "kernel"
          /\ v \in High => 1 = 1 /\ ~Loaded
          /\ v \in High => "USER" \notin pte.flags
          /\ pte \in Entry
        BY <1>4, <1>6, <1>8, <1>9, <1>12
    <2>1. Mappable(tables, g, Loaded, 1, v)
        BY <1>12, <2>0 DEF Mappable
    <2>2. Writable(v, pte)
        BY <2>0 DEF Writable
    <2>3. PageMapped(tables, g, Loaded, 1, v, pte, Mapped(tables, 1, v, pte))
        BY <1>11, <2>1, <2>2, MapPage
    <2> QED
        BY <1>2, <2>3 DEF PageMapped
<1>14. Len(tables) \in Nat /\ Len(tables') \in Nat
    BY <1>11, <1>13, SMTT(30) DEF Tree, TypesOf
<1>15. Shape(h)'
    <2>1. Tree(tables', h, Loaded')
        BY <1>4, <1>13
    <2>2. RootsOf(tables', h, pml4', proc')
        BY <1>2, <1>11, <1>13, <1>14, RootsKept
    <2>3. LeavesOwn(tables', h, owner')
        BY <1>2, <1>11, <1>12, <1>13, MapLeaves
    <2> QED
        BY <2>1, <2>2, <2>3 DEF Shape
<1>16. KernelSets(v, pte)
    <2>1. 1 # 0
        BY Numbers
    <2> QED
        BY <1>6, <1>9, <1>12, <1>13, <2>1, Halved DEF KernelSets, Seen
<1>17. UserKept
    <2>1. \A p \in Procs : pml4[p] = 0
        BY <1>4, <1>11, NoProcess DEF Loaded
    <2> QED
        BY <1>2, <2>1 DEF UserKept, Seen
<1>18. SpaceStep
    BY <1>6, <1>7, <1>8, <1>9, <1>16, <1>17 DEF SpaceStep
<1> QED
    BY <1>3, <1>5, <1>15, <1>18 DEF VInv

(* map_page for a process.                                                 *)
LEMMA MapUserPage ==
    ASSUME VInv, NEW p \in Procs, map_page(p, pml4[p])
    PROVE  VInv' /\ SpaceStep
<1> DEFINE j == todo[p]
           r == pml4[p]
           v == j.v \div PAGE_SIZE
           pte == Or(j.p, j.flags)
<1>1. /\ todo \in [Maps -> Job] /\ p \in Maps /\ UserJob(j, OwnIn(owner, p))
      /\ (proc[p].pc = "none" => ~(j.n > 0))
    BY Names DEF VInv, Jobs
<1>2. /\ j.n > 0 /\ j \in Job /\ tables' = Mapped(tables, r, v, pte)
      /\ todo'[p] = Rest(j) /\ \A k \in Maps : k # p => todo'[k] = todo[k]
      /\ Rest(j) \in Job => todo' \in [Maps -> Job]
      /\ pml4' = pml4 /\ owner' = owner /\ proc' = proc /\ booted' = booted
    BY <1>1, MapPageStep
<1>3. Jobs'
    BY <1>1, <1>2, JobsGoOn DEF VInv
<1>4. Types' /\ Loaded' = Loaded
    BY <1>2 DEF VInv, Types, Loaded
<1>5. PICK g : Shape(g)
    BY DEF VInv
<1>6. Tree(tables, g, Loaded) /\ RootsOf(tables, g, pml4, proc) /\ LeavesOwn(tables, g, owner)
    BY <1>5 DEF Shape
<1>7. r \in 1 .. Len(tables) /\ g[r].lvl = 3 /\ g[r].own = p /\ r # 0
    BY <1>1, <1>2, <1>6 DEF RootsOf
<1> HIDE DEF j
<1>8. v \in Low /\ j.p \div PAGE_SIZE \in OwnIn(owner, p) /\ j.p \in Nat /\ j.flags \in UserRights
    <2>1. Over(j, Low, OwnIn(owner, p)) /\ j.flags \in UserRights
        BY <1>1, <1>2 DEF UserJob
    <2>2. j.p \in Nat
        BY <1>2 DEF Job
    <2> QED
        BY <1>2, <2>1, <2>2, RestOver
<1>9. /\ pte \in Entry /\ pte.page = j.p \div PAGE_SIZE /\ pte.flags \in UserRights
      /\ "USER" \in pte.flags /\ ~Absent(pte)
    BY <1>8, OrUser
<1>10. v \in Pages /\ v \notin High /\ p # "kernel"
    BY <1>8, Halved, Names
<1> HIDE DEF v, pte, r
<1>11. PICK h :
            /\ Tree(tables', h, Loaded) /\ Kept(g, h, tables) /\ Len(tables) <= Len(tables')
            /\ LastLevel(tables, tables', h, g[r].own, pte)
            /\ \A q \in 1 .. Len(tables), w \in Pages : g[q].lvl = 3 =>
                    View(tables', q, w) = IF w = v /\ (q = r \/ v \in High)
                                          THEN (IF Absent(pte) THEN NoMap ELSE pte)
                                          ELSE View(tables, q, w)
    <2>1. Mappable(tables, g, Loaded, r, v)
        BY <1>7, <1>10 DEF Mappable
    <2>2. Writable(v, pte)
        BY <1>9, <1>10 DEF Writable
    <2>3. PageMapped(tables, g, Loaded, r, v, pte, Mapped(tables, r, v, pte))
        BY <1>6, <2>1, <2>2, MapPage
    <2> QED
        BY <1>2, <2>3 DEF PageMapped
<1>12. Len(tables) \in Nat /\ Len(tables') \in Nat
    BY <1>6, <1>11, SMTT(30) DEF Tree, TypesOf
<1>13. Shape(h)'
    <2>1. RootsOf(tables', h, pml4', proc')
        BY <1>2, <1>6, <1>11, <1>12, RootsKept
    <2>2. LeavesOwn(tables', h, owner')
        BY <1>2, <1>6, <1>7, <1>8, <1>9, <1>11, MapLeaves
    <2> QED
        BY <1>4, <1>11, <2>1, <2>2 DEF Shape
<1>14. KernelKept
    <2>1. 1 \in 1 .. Len(tables) /\ g[1].lvl = 3
        BY <1>6, FirstTop
    <2>2. ASSUME NEW w \in High PROVE View(tables', 1, w) = View(tables, 1, w)
        BY <1>10, <1>11, <2>1, Halved
    <2> QED
        BY <2>2 DEF KernelKept, Seen
<1>15. UserSets(p, v, pte)
    <2> SUFFICES ASSUME NEW q \in Procs, NEW w \in Low
                 PROVE  Seen(tables', pml4'[q], w) =
                            IF q = p /\ w = v THEN pte ELSE Seen(tables, pml4[q], w)
        BY DEF UserSets
    <2>1. w \in Pages
        BY Halved
    <2>2. CASE q = p
        BY <1>2, <1>7, <1>9, <1>11, <2>1, <2>2 DEF Seen, r
    <2>3. CASE q # p
        <3>1. CASE proc[q].pc = "none"
            <4>1. pml4[q] = 0
                BY <1>6, <3>1 DEF RootsOf
            <4> QED
                BY <1>2, <2>3, <4>1 DEF Seen
        <3>2. CASE proc[q].pc # "none"
            <4>1. pml4[q] \in 1 .. Len(tables) /\ g[pml4[q]].lvl = 3 /\ g[pml4[q]].own = q /\ pml4[q] # 0
                BY <1>6, <3>2 DEF RootsOf
            <4>2. pml4[q] # r
                BY <1>7, <2>3, <4>1
            <4>3. View(tables', pml4[q], w) = View(tables, pml4[q], w)
                BY <1>10, <1>11, <2>1, <4>1, <4>2
            <4> QED
                BY <1>2, <2>3, <4>1, <4>3 DEF Seen
        <3> QED
            BY <3>1, <3>2
    <2> QED
        BY <2>2, <2>3
<1>16. SpaceStep
    BY <1>8, <1>9, <1>14, <1>15 DEF SpaceStep
<1> QED
    BY <1>3, <1>4, <1>13, <1>16 DEF VInv

(* unmap_page clears an entry of the last level.                           *)
LEMMA UnmapPage ==
    ASSUME VInv, NEW v \in Unmaps, unmap_page(v)
    PROVE  VInv' /\ SpaceStep
<1> DEFINE b == First(tables, 1, v).page
           e == Index(v, 0)
<1>1. pml4["kernel"] = 1 /\ Loaded
    BY DEF unmap_page, VInv, Types, Loaded
<1>2. /\ ~Absent(Third(tables, 1, v)) /\ ~Absent(Second(tables, 1, v)) /\ ~Absent(First(tables, 1, v))
      /\ tables' = Store(tables, b, e, Zero)
      /\ pml4' = pml4 /\ owner' = owner /\ proc' = proc /\ todo' = todo /\ booted' = booted
    BY <1>1 DEF unmap_page, Third, Second, First, Absent, Store
<1>3. v \in Pages
    BY VmmAssumption
<1>4. Types' /\ Jobs' /\ Loaded' = Loaded
    BY <1>2 DEF VInv, Types, Jobs, Loaded
<1>5. PICK g : Shape(g)
    BY DEF VInv
<1>6. Tree(tables, g, Loaded) /\ RootsOf(tables, g, pml4, proc) /\ LeavesOwn(tables, g, owner)
    BY <1>5 DEF Shape
<1>7. 1 \in 1 .. Len(tables) /\ g[1].lvl = 3 /\ g[1].own = "kernel"
    BY <1>6, FirstTop
<1>8. v \in High
    <2>1. Absent(Zero)
        BY DEF Absent, Zero
    <2>2. ~Upper(Index(v, 3)) => Absent(Third(tables, 1, v))
        BY <1>3, <1>6, <2>1, Slots DEF Tree, Tops, Third
    <2> QED
        BY <1>2, <1>3, <2>2, Slots
<1>9. Leaf(tables, 1, v) = b
    BY <1>2 DEF Leaf
<1>10. b # 0
    BY <1>2, <1>3, <1>6, <1>7, PresentLeaf
<1> HIDE DEF b
<1>11. b \in 1 .. Len(tables) /\ g[b].lvl = 0 /\ g[b].own = "kernel"
    <2>1. Leads(tables, g, 1, v)
        BY <1>3, <1>7, <1>9, <1>10 DEF Leads
    <2>2. LeafIs(tables, g, 1, v)
        BY <1>6, <2>1, LeafOf
    <2> QED
        BY <1>8, <1>9, <2>2 DEF LeafIs
<1>12. Zero \in Entry /\ "USER" \notin Zero.flags /\ Absent(Zero) /\ e \in Slot
    <2>1. Zero \in Entry
        BY SMT DEF Zero, Entry
    <2> QED
        BY <1>3, <2>1, Slots DEF Zero, Absent
<1> HIDE DEF e
<1>13. /\ Tree(tables', g, Loaded) /\ Len(tables') = Len(tables)
       /\ \A c \in 1 .. Len(tables), f \in Slot :
            tables'[c][f] = IF c = b /\ f = e THEN Zero ELSE tables[c][f]
       /\ \A q \in 1 .. Len(tables), w \in Pages : g[q].lvl = 3 =>
            View(tables', q, w) = IF Leaf(tables, q, w) = b /\ Index(w, 0) = e
                                  THEN (IF Absent(Zero) THEN NoMap ELSE Zero)
                                  ELSE View(tables, q, w)
    <2>1. Storable(tables, g, b, e, Zero)
        BY <1>11, <1>12 DEF Storable
    <2>2. StoredAs(tables, g, Loaded, b, e, Zero, tables')
        BY <1>2, <1>6, <2>1, Stored
    <2> QED
        BY <2>2 DEF StoredAs
<1>14. Shape(g)'
    <2>1. RootsOf(tables', g, pml4', proc')
        BY <1>2, <1>6, <1>13 DEF RootsOf
    <2>2. LeavesOwn(tables', g, owner')
        <3> SUFFICES ASSUME NEW c \in 1 .. Len(tables), NEW f \in Slot, g[c].lvl = 0, g[c].own # "kernel",
                            ~Absent(tables'[c][f])
                     PROVE  tables'[c][f].page \in OwnIn(owner, g[c].own)
            BY <1>2, <1>13 DEF LeavesOwn
        <3>1. tables'[c][f] = tables[c][f]
            BY <1>12, <1>13
        <3> QED
            BY <1>6, <3>1 DEF LeavesOwn
    <2> QED
        BY <1>4, <1>13, <2>1, <2>2 DEF Shape
<1>15. KernelSets(v, NoMap)
    <2> SUFFICES ASSUME NEW w \in High
                 PROVE  View(tables', 1, w) = IF w = v THEN NoMap ELSE View(tables, 1, w)
        <3>1. 1 # 0
            BY Numbers
        <3> QED
            BY <3>1 DEF KernelSets, Seen
    <2>1. w \in Pages
        BY Halved
    <2>2. CASE w = v
        BY <1>7, <1>9, <1>12, <1>13, <2>1, <2>2 DEF e
    <2>3. CASE w # v
        <3>1. ~(Leaf(tables, 1, w) = b /\ Index(w, 0) = e)
            <4> SUFFICES ASSUME Leaf(tables, 1, w) = b, Index(w, 0) = e PROVE FALSE
                OBVIOUS
            <4>1. Leads(tables, g, 1, v) /\ Leads(tables, g, 1, w) /\ Shares(tables, 1, w, 1, v)
                BY <1>3, <1>7, <1>9, <1>10, <2>1 DEF Leads, Shares, e
            <4>2. SameEnd(1, w, 1, v)
                BY <1>6, <4>1, OneEnd
            <4> QED
                BY <2>3, <4>2 DEF SameEnd
        <3> QED
            BY <1>7, <1>13, <2>1, <2>3, <3>1
    <2> QED
        BY <2>2, <2>3
<1>16. UserKept
    <2> SUFFICES ASSUME NEW p \in Procs, NEW w \in Low
                 PROVE  Seen(tables', pml4[p], w) = Seen(tables, pml4[p], w)
        BY <1>2 DEF UserKept
    <2>1. w \in Pages /\ w # v
        BY <1>8, Halved
    <2>2. CASE proc[p].pc = "none"
        BY <1>6, <2>2 DEF RootsOf, Seen
    <2>3. CASE proc[p].pc # "none"
        <3>1. pml4[p] \in 1 .. Len(tables) /\ g[pml4[p]].lvl = 3 /\ pml4[p] # 0
            BY <1>6, <2>3 DEF RootsOf
        <3>2. ~(Leaf(tables, pml4[p], w) = b /\ Index(w, 0) = e)
            <4> SUFFICES ASSUME Leaf(tables, pml4[p], w) = b, Index(w, 0) = e PROVE FALSE
                OBVIOUS
            <4>1. /\ Leads(tables, g, 1, v) /\ Leads(tables, g, pml4[p], w)
                  /\ Shares(tables, pml4[p], w, 1, v)
                BY <1>3, <1>7, <1>9, <1>10, <2>1, <3>1 DEF Leads, Shares, e
            <4>2. SameEnd(pml4[p], w, 1, v)
                BY <1>6, <4>1, OneEnd
            <4> QED
                BY <2>1, <4>2 DEF SameEnd
        <3> QED
            BY <1>13, <2>1, <3>1, <3>2 DEF Seen
    <2> QED
        BY <2>2, <2>3
<1>17. SpaceStep
    BY <1>8, <1>15, <1>16 DEF SpaceStep
<1> QED
    BY <1>4, <1>14, <1>17 DEF VInv

(* Taking USER from the upper half.                                        *)
LEMMA Only ==
    ASSUME NEW t \in Table
    PROVE  /\ KernelOnly(t) \in Table
           /\ \A e \in Slot :
                /\ ~Upper(e) => KernelOnly(t)[e] = t[e]
                /\ Upper(e) => /\ KernelOnly(t)[e].page = t[e].page
                               /\ KernelOnly(t)[e].flags = t[e].flags \ {"USER"}
                /\ t[e] = Zero => KernelOnly(t)[e] = Zero
<1>1. \A e \in Slot : t[e] \in Entry
    BY DEF Table
<1>2. KernelOnly(t) = [e \in Slot |-> IF Upper(e) THEN [t[e] EXCEPT !.flags = @ \ {"USER"}] ELSE t[e]]
    BY DEF KernelOnly, Slot, Upper
<1>3. ASSUME NEW x \in Entry
      PROVE  LET y == [x EXCEPT !.flags = @ \ {"USER"}]
             IN  y \in Entry /\ y.page = x.page /\ y.flags = x.flags \ {"USER"} /\ (x = Zero => y = Zero)
    <2> DEFINE y == [x EXCEPT !.flags = @ \ {"USER"}]
    <2>1. y = [page |-> x.page, flags |-> x.flags \ {"USER"}] /\ y \in Entry
        BY <1>3, SMT DEF Entry
    <2>2. y.page = x.page /\ y.flags = x.flags \ {"USER"}
        BY <2>1
    <2>3. ASSUME x = Zero PROVE y = Zero
        <3>1. x.page = 0 /\ x.flags = {}
            BY <2>3 DEF Zero
        <3>2. x.flags \ {"USER"} = {}
            BY <3>1
        <3> QED
            BY <2>1, <3>1, <3>2 DEF Zero
    <2> QED
        BY <2>1, <2>2, <2>3
<1> DEFINE cut(x) == [x EXCEPT !.flags = @ \ {"USER"}]
<1>4. \A x \in Entry : cut(x) \in Entry /\ cut(x).page = x.page /\ cut(x).flags = x.flags \ {"USER"}
                       /\ (x = Zero => cut(x) = Zero)
    BY <1>3
<1>5. KernelOnly(t) = [e \in Slot |-> IF Upper(e) THEN cut(t[e]) ELSE t[e]]
    BY <1>2
<1> HIDE DEF cut
<1>6. KernelOnly(t) \in [Slot -> Entry]
    BY <1>1, <1>4, <1>5
<1>7. \A e \in Slot : KernelOnly(t)[e] = IF Upper(e) THEN cut(t[e]) ELSE t[e]
    BY <1>5
<1> QED
    BY <1>1, <1>4, <1>6, <1>7 DEF Table

(* The end of init_vmm takes rights and changes no mapping.                *)
LEMMA LoadPagemap ==
    ASSUME VInv, load_pagemap
    PROVE  VInv' /\ SpaceStep
<1>1. /\ pml4["kernel"] = 0 /\ ~(todo["kernel"].n > 0) /\ booted = Len(KernelSections)
      /\ tables' = [tables EXCEPT ![1] = KernelOnly(@)]
      /\ pml4' = [pml4 EXCEPT !["kernel"] = 1]
      /\ owner' = owner /\ proc' = proc /\ todo' = todo /\ booted' = booted
    <2>1. todo["kernel"].n = 0 => ~(todo["kernel"].n > 0)
        BY SMT
    <2> QED
        BY <2>1 DEF load_pagemap
<1>2. ~Loaded /\ pml4 \in [Maps -> Nat]
    BY <1>1 DEF VInv, Types, Loaded
<1>3. pml4' \in [Maps -> Nat] /\ pml4'["kernel"] = 1 /\ Loaded' /\ \A p \in Procs : pml4'[p] = pml4[p]
    <2>1. 1 \in Nat /\ 1 # 0
        BY Numbers
    <2> QED
        BY <1>1, <1>2, <2>1, Names DEF Loaded
<1>4. Types'
    BY <1>1, <1>3 DEF VInv, Types
<1>5. Jobs'
    BY <1>1 DEF VInv, Jobs
<1>6. PICK g : Shape(g)
    BY DEF VInv
<1>7. Tree(tables, g, FALSE) /\ RootsOf(tables, g, pml4, proc) /\ LeavesOwn(tables, g, owner)
    <2>1. Loaded = FALSE
        BY <1>2 DEF Loaded
    <2> QED
        BY <1>6, <2>1 DEF Shape
<1>8. 1 \in 1 .. Len(tables) /\ g[1].lvl = 3 /\ g[1].own = "kernel"
    BY <1>7, FirstTop
<1>9. tables \in Seq(Table) /\ Len(tables) > 0 /\ g \in [1 .. Len(tables) -> Place]
    BY <1>7 DEF Tree, TypesOf
<1>10. tables[1] \in Table /\ KernelOnly(tables[1]) \in Table
    <2>1. tables[1] \in Table
        BY <1>8, <1>9, SMTT(30)
    <2> QED
        BY <2>1, Only
<1>11. /\ tables' \in Seq(Table) /\ Len(tables') = Len(tables)
       /\ tables'[1] = KernelOnly(tables[1])
       /\ \A c \in 1 .. Len(tables) : c # 1 => tables'[c] = tables[c]
    <2> HIDE DEF Table
    <2> QED
        BY <1>1, <1>8, <1>9, <1>10, SMTT(30)
<1>12. \A c \in 1 .. Len(tables) : c # 1 => g[c].lvl # 3
    BY <1>7 DEF Tree, Tops
<1>13. \A e \in Slot : /\ ~Upper(e) => tables'[1][e] = Zero
                       /\ tables'[1][e].page = tables[1][e].page
                       /\ Absent(tables'[1][e]) <=> Absent(tables[1][e])
                       /\ tables'[1][e] # Zero =>
                            tables[1][e] # Zero /\ Upper(e) /\ tables'[1][e].flags = tables[1][e].flags \ {"USER"}
    <2> SUFFICES ASSUME NEW e \in Slot
                 PROVE  /\ ~Upper(e) => tables'[1][e] = Zero
                        /\ tables'[1][e].page = tables[1][e].page
                        /\ Absent(tables'[1][e]) <=> Absent(tables[1][e])
                        /\ tables'[1][e] # Zero =>
                            tables[1][e] # Zero /\ Upper(e) /\ tables'[1][e].flags = tables[1][e].flags \ {"USER"}
        OBVIOUS
    <2>1. /\ ~Upper(e) => tables'[1][e] = tables[1][e]
          /\ Upper(e) => /\ tables'[1][e].page = tables[1][e].page
                         /\ tables'[1][e].flags = tables[1][e].flags \ {"USER"}
          /\ tables[1][e] = Zero => tables'[1][e] = Zero
        BY <1>10, <1>11, Only, SMTT(30)
    <2>2. ~Upper(e) => tables[1][e] = Zero
        BY <1>7 DEF Tree, Tops
    <2> QED
        BY <2>1, <2>2 DEF Absent
<1>14. Tree(tables', g, TRUE)
    <2>1. TypesOf(tables', g)
        BY <1>9, <1>11 DEF TypesOf
    <2>2. Linked(tables', g, TRUE)
        <3> SUFFICES ASSUME NEW b \in 1 .. Len(tables'), NEW e \in Slot, g[b].lvl > 0, tables'[b][e] # Zero
                     PROVE  Link(tables', g, TRUE, b, e)
            BY Links
        <3>0. b \in 1 .. Len(tables)
            BY <1>11
        <3> DEFINE n == tables[b][e].page
                   shared == g[b].lvl = 3 /\ Upper(e)
        <3>1. tables[b][e] # Zero =>
                /\ n \in 1 .. Len(tables) /\ g[n].lvl = g[b].lvl - 1 /\ g[n].ix = e
                /\ g[n].own = IF shared THEN "kernel" ELSE g[b].own
                /\ g[n].up = IF shared THEN 1 ELSE b
                /\ tables[b][e].flags = {"PRESENT", "WRITE"} \cup {"USER"}
            <4>1. tables[b][e] # Zero => Link(tables, g, FALSE, b, e)
                BY <1>7, <3>0, LinkOf
            <4> QED
                BY <4>1 DEF Link
        <3>2. CASE b = 1
            <4>1. /\ tables[b][e] # Zero /\ shared /\ tables'[b][e].page = n
                  /\ tables'[b][e].flags = tables[b][e].flags \ {"USER"}
                BY <1>8, <1>13, <3>2
            <4>2. tables'[b][e].flags = {"PRESENT", "WRITE"} \cup {}
                BY <3>1, <4>1
            <4>3. shared
                BY <4>1
            <4> HIDE DEF n, shared
            <4>4. /\ n \in 1 .. Len(tables') /\ g[n].lvl = g[b].lvl - 1 /\ g[n].ix = e
                  /\ g[n].own = "kernel" /\ g[n].up = 1
                BY <1>11, <3>1, <4>1
            <4> QED
                BY <4>1, <4>2, <4>3, <4>4 DEF Link, shared
        <3>3. CASE b # 1
            <4>1. tables'[b][e] = tables[b][e] /\ ~shared
                BY <1>11, <1>12, <3>0, <3>3
            <4>2. ~shared
                BY <4>1
            <4> HIDE DEF n, shared
            <4>3. /\ n \in 1 .. Len(tables') /\ g[n].lvl = g[b].lvl - 1 /\ g[n].ix = e
                  /\ g[n].own = g[b].own /\ g[n].up = b
                  /\ tables'[b][e].flags = {"PRESENT", "WRITE"} \cup {"USER"}
                BY <1>11, <3>1, <4>1
            <4>4. tables'[b][e].page = n
                BY <4>1 DEF n
            <4> QED
                BY <4>2, <4>3, <4>4 DEF Link, shared
        <3> QED
            BY <3>2, <3>3
    <2>3. Tops(tables', g, TRUE)
        BY <1>8, <1>11, <1>12, <1>13 DEF Tops
    <2>4. KernelLeaves(tables', g)
        <3> SUFFICES ASSUME NEW b \in 1 .. Len(tables), NEW e \in Slot, g[b].lvl = 0, g[b].own = "kernel"
                     PROVE  "USER" \notin tables'[b][e].flags
            BY <1>11 DEF KernelLeaves
        <3>1. b # 1
            <4>1. 0 # 3
                BY Numbers
            <4> QED
                BY <1>8, <4>1
        <3> QED
            BY <1>7, <1>11, <3>1 DEF Tree, KernelLeaves
    <2> QED
        BY <2>1, <2>2, <2>3, <2>4 DEF Tree
<1>15. Shape(g)'
    <2>1. Loaded' = TRUE
        BY <1>3 DEF Loaded
    <2>2. RootsOf(tables', g, pml4', proc')
        <3>1. ASSUME NEW p \in Procs PROVE pml4'[p] = 0 /\ proc'[p].pc = "none"
            <4>1. proc[p].pc = "none"
                BY <1>1, <1>7 DEF RootsOf
            <4> QED
                BY <1>1, <1>3, <1>7, <4>1 DEF RootsOf
        <3> QED
            BY <3>1 DEF RootsOf
    <2>3. LeavesOwn(tables', g, owner')
        <3>1. \A b \in 1 .. Len(tables) : g[b].own # "kernel" => b # 1
            BY <1>8
        <3> QED
            BY <1>1, <1>7, <1>11, <3>1, SMTT(30) DEF LeavesOwn
    <2> QED
        BY <1>14, <2>1, <2>2, <2>3 DEF Shape
<1>16. KernelKept
    <2> SUFFICES ASSUME NEW v \in High PROVE View(tables', 1, v) = View(tables, 1, v)
        BY DEF KernelKept, Seen
    <2>1. v \in Pages /\ Index(v, 3) \in Slot
        BY Halved, Slots
    <2>2. /\ Third(tables', 1, v).page = Third(tables, 1, v).page
          /\ Absent(Third(tables', 1, v)) <=> Absent(Third(tables, 1, v))
        BY <1>13, <2>1 DEF Third
    <2>3. \A c \in 1 .. Len(tables), f \in Slot : g[c].lvl < 3 => tables'[c][f] = tables[c][f]
        <3>1. ~(3 < 3)
            BY Numbers
        <3> QED
            BY <1>8, <1>11, <3>1
    <2>4. Rightless(tables, g, tables', 1, v)
        BY <1>8, <2>1, <2>2, <2>3 DEF Rightless
    <2>5. ViewKept(tables, tables', 1, v)
        BY <1>7, <2>4, SameView, ZenonT(40)
    <2> QED
        BY <2>5 DEF ViewKept
<1>17. UserKept
    BY <1>1, <1>3, <1>7, NoProcess, SMTT(30) DEF UserKept, Seen
<1> QED
    BY <1>4, <1>5, <1>15, <1>16, <1>17 DEF VInv, SpaceStep

(* A process starts with the kernel's half and nothing else.               *)
LEMMA CreateUserProcess ==
    ASSUME VInv, NEW p \in Procs, NEW elf \in Elfs, create_user_process(p, elf)
    PROVE  VInv' /\ SpaceStep
<1> DEFINE n == Len(tables) + 1
           s == IF elf.valid THEN "load" ELSE "stack"
<1>1. /\ pml4["kernel"] # 0 /\ proc[p].pc = "none"
      /\ tables' = Append(tables, tables[pml4["kernel"]])
      /\ pml4' = [pml4 EXCEPT ![p] = n]
      /\ proc' = [proc EXCEPT ![p] = [pc |-> s, elf |-> elf, i |-> 1]]
      /\ owner' = owner /\ todo' = todo /\ booted' = booted
    BY DEF create_user_process, copy_pml4
<1>2. /\ pml4 \in [Maps -> Nat] /\ pml4["kernel"] = 1 /\ Loaded /\ proc \in [Procs -> ProcType]
      /\ p \in Maps /\ p # "kernel"
    BY <1>1, Names DEF VInv, Types, Loaded
<1>3. PICK g : Shape(g)
    BY DEF VInv
<1>4. Tree(tables, g, TRUE) /\ RootsOf(tables, g, pml4, proc) /\ LeavesOwn(tables, g, owner)
    <2>1. Loaded = TRUE
        BY <1>2 DEF Loaded
    <2> QED
        BY <1>3, <2>1 DEF Shape
<1>5. 1 \in 1 .. Len(tables) /\ g[1].lvl = 3 /\ g[1].own = "kernel"
    BY <1>4, FirstTop
<1>6. tables \in Seq(Table) /\ Len(tables) > 0 /\ g \in [1 .. Len(tables) -> Place] /\ Len(tables) \in Nat
    <2>1. tables \in Seq(Table) /\ Len(tables) > 0 /\ g \in [1 .. Len(tables) -> Place]
        BY <1>4 DEF Tree, TypesOf
    <2>2. Len(tables) \in Nat
        BY <2>1, SMTT(30)
    <2> QED
        BY <2>1, <2>2
<1>7. /\ n \in Nat /\ n \in 1 .. n /\ n # 0 /\ ~(n \in 1 .. Len(tables)) /\ n > 0
      /\ \A c \in 1 .. n : c \in 1 .. Len(tables) \/ c = n
      /\ \A c \in 1 .. Len(tables) : c \in 1 .. n /\ c # n
    BY <1>6, SMTT(30)
<1>8. /\ tables' \in Seq(Table) /\ Len(tables') = n /\ tables'[n] = tables[1]
      /\ \A c \in 1 .. Len(tables) : tables'[c] = tables[c]
    <2>1. tables[1] \in Table
        BY <1>5, <1>6, SMT
    <2>2. tables' = Append(tables, tables[1])
        BY <1>1, <1>2
    <2> QED
        BY <1>6, <2>1, <2>2, SMTT(30)
<1>9. pml4' \in [Maps -> Nat] /\ pml4'["kernel"] = 1 /\ pml4'[p] = n /\ Loaded'
      /\ \A q \in Procs : q # p => pml4'[q] = pml4[q]
    <2>1. pml4' \in [Maps -> Nat] /\ pml4'["kernel"] = 1 /\ pml4'[p] = n
        BY <1>1, <1>2, <1>7, Names
    <2>2. \A q \in Procs : q # p => pml4'[q] = pml4[q]
        BY <1>1, <1>2, Names
    <2> QED
        BY <1>1, <1>2, <2>1, <2>2 DEF Loaded
<1>10. /\ proc' \in [Procs -> ProcType] /\ proc'[p].pc # "none"
       /\ \A q \in Procs : q # p => proc'[q] = proc[q]
    <2> DEFINE x == [pc |-> s, elf |-> elf, i |-> 1]
    <2>1. s \in {"load", "stack"} /\ 1 \in Nat \ {0}
        BY SMT
    <2>2. x \in ProcType /\ x.pc = s
        BY <2>1 DEF ProcType
    <2> HIDE DEF x
    <2>3. proc' = [proc EXCEPT ![p] = x]
        BY <1>1 DEF x
    <2> HIDE DEF s
    <2>4. s # "none"
        BY <2>1
    <2> QED
        BY <1>2, <2>2, <2>3, <2>4
<1>11. Types'
    BY <1>1, <1>2, <1>9, <1>10 DEF VInv, Types
<1>12. Jobs'
    <2>1. ASSUME NEW q \in Procs
          PROVE  UserJob(todo'[q], OwnIn(owner', q)) /\ (proc'[q].pc = "none" => ~(todo'[q].n > 0))
        BY <1>1, <1>10 DEF VInv, Jobs
    <2>2. todo' \in [Maps -> Job] /\ KernelJob(todo'["kernel"]) /\ ~(todo'["kernel"].n > 0)
        BY <1>1, <1>2 DEF VInv, Jobs
    <2> QED
        BY <2>1, <2>2 DEF Jobs
<1> HIDE DEF n
<1> DEFINE new == [own |-> p, lvl |-> 3, up |-> 0, ix |-> 0]
<1>13. new \in Place /\ new.own = p /\ new.lvl = 3
    <2>1. 3 \in 0 .. 3 /\ 0 \in Nat
        BY Numbers
    <2> QED
        BY <1>2, <2>1 DEF Place
<1> HIDE DEF new
<1>h. PICK h : h = [c \in 1 .. n |-> IF c = n THEN new ELSE g[c]]
    OBVIOUS
<1>14. h \in [1 .. n -> Place] /\ h[n] = new /\ \A c \in 1 .. Len(tables) : h[c] = g[c]
    BY <1>6, <1>7, <1>13, <1>h
<1>15. Tree(tables', h, TRUE)
    <2>1. TypesOf(tables', h)
        BY <1>7, <1>8, <1>14 DEF TypesOf
    <2>2. Linked(tables', h, TRUE)
        <3> SUFFICES ASSUME NEW b \in 1 .. Len(tables'), NEW e \in Slot, h[b].lvl > 0, tables'[b][e] # Zero
                     PROVE  Link(tables', h, TRUE, b, e)
            BY Links
        <3>0. b \in 1 .. n
            BY <1>8
        <3>1. ASSUME NEW c \in 1 .. Len(tables), g[c].lvl > 0, tables[c][e] # Zero
              PROVE  /\ Link(tables, g, TRUE, c, e) /\ tables[c][e].page \in 1 .. Len(tables')
                     /\ h[tables[c][e].page] = g[tables[c][e].page]
            <4>1. Link(tables, g, TRUE, c, e)
                BY <1>4, <3>1, LinkOf
            <4>2. tables[c][e].page \in 1 .. Len(tables)
                BY <4>1 DEF Link
            <4> QED
                BY <1>7, <1>8, <1>14, <4>1, <4>2
        <3>2. CASE b = n
            <4> DEFINE m == tables[1][e].page
            <4>1. tables'[b][e] = tables[1][e] /\ h[b] = new
                BY <1>8, <1>14, <3>2
            <4>2. Upper(e)
                BY <1>4, <4>1 DEF Tree, Tops
            <4>3. Link(tables, g, TRUE, 1, e) /\ m \in 1 .. Len(tables') /\ h[m] = g[m]
                BY <1>5, <3>1, <4>1, Numbers
            <4>4. /\ g[m].lvl = 3 - 1 /\ g[m].ix = e /\ g[m].own = "kernel" /\ g[m].up = 1
                  /\ tables[1][e].flags = {"PRESENT", "WRITE"} \cup {}
                BY <1>5, <4>2, <4>3 DEF Link
            <4>5. h[b].lvl = 3 /\ tables'[b][e].page = m
                BY <1>13, <4>1
            <4> HIDE DEF m
            <4>6. /\ h[m].lvl = h[b].lvl - 1 /\ h[m].ix = e /\ h[m].own = "kernel" /\ h[m].up = 1
                  /\ tables'[b][e].flags = {"PRESENT", "WRITE"} \cup {}
                BY <4>1, <4>3, <4>4, <4>5
            <4> QED
                BY <4>2, <4>3, <4>5, <4>6 DEF Link
        <3>3. CASE b \in 1 .. Len(tables)
            <4> DEFINE m == tables[b][e].page
            <4>1. tables'[b][e] = tables[b][e] /\ h[b] = g[b]
                BY <1>8, <1>14, <3>3
            <4>2. Link(tables, g, TRUE, b, e) /\ m \in 1 .. Len(tables') /\ h[m] = g[m]
                BY <3>1, <3>3, <4>1
            <4> QED
                BY <4>1, <4>2 DEF Link
        <3> QED
            BY <1>7, <3>0, <3>2, <3>3
    <2>3. Tops(tables', h, TRUE)
        <3>1. h[1] = g[1] /\ tables'[1] = tables[1]
            BY <1>5, <1>8, <1>14
        <3>2. \A e \in Slot : ~Upper(e) => tables'[1][e] = Zero
            BY <1>4, <3>1 DEF Tree, Tops
        <3>3. ASSUME NEW b \in 1 .. n, h[b].lvl = 3, b # 1, NEW e \in Slot, Upper(e)
              PROVE  tables'[b][e] = tables'[1][e]
            <4>1. CASE b = n
                BY <1>8, <3>1, <4>1
            <4>2. CASE b \in 1 .. Len(tables)
                BY <1>4, <1>8, <1>14, <3>1, <3>3, <4>2, ZenonT(40) DEF Tree, Tops
            <4> QED
                BY <1>7, <4>1, <4>2
        <3> QED
            BY <1>5, <1>8, <3>1, <3>2, <3>3 DEF Tops
    <2>4. KernelLeaves(tables', h)
        <3> SUFFICES ASSUME NEW b \in 1 .. n, NEW e \in Slot, h[b].lvl = 0, h[b].own = "kernel"
                     PROVE  "USER" \notin tables'[b][e].flags
            BY <1>8 DEF KernelLeaves
        <3>1. b \in 1 .. Len(tables)
            BY <1>2, <1>7, <1>13, <1>14
        <3> QED
            BY <1>4, <1>8, <1>14, <3>1 DEF Tree, KernelLeaves
    <2> QED
        BY <2>1, <2>2, <2>3, <2>4 DEF Tree
<1>16. Shape(h)'
    <2>1. Loaded' = TRUE
        BY <1>9 DEF Loaded
    <2>2. RootsOf(tables', h, pml4', proc')
        <3> SUFFICES ASSUME NEW q \in Procs
                     PROVE  IF proc'[q].pc = "none" THEN pml4'[q] = 0
                            ELSE /\ pml4'["kernel"] # 0 /\ pml4'[q] # 0 /\ pml4'[q] \in 1 .. n
                                 /\ h[pml4'[q]].lvl = 3 /\ h[pml4'[q]].own = q
            BY <1>8 DEF RootsOf
        <3>0. 1 # 0
            BY Numbers
        <3>1. CASE q = p
            BY <1>7, <1>9, <1>10, <1>13, <1>14, <3>0, <3>1
        <3>2. CASE q # p
            <4>1. proc'[q] = proc[q] /\ pml4'[q] = pml4[q] /\ pml4'["kernel"] # 0
                BY <1>9, <1>10, <3>0, <3>2
            <4>2. CASE proc[q].pc = "none"
                BY <1>4, <4>1, <4>2 DEF RootsOf
            <4>3. CASE proc[q].pc # "none"
                <5>1. /\ pml4[q] # 0 /\ pml4[q] \in 1 .. Len(tables)
                      /\ g[pml4[q]].lvl = 3 /\ g[pml4[q]].own = q
                    BY <1>4, <4>3 DEF RootsOf
                <5> QED
                    BY <1>7, <1>14, <4>1, <4>3, <5>1
            <4> QED
                BY <4>2, <4>3
        <3> QED
            BY <3>1, <3>2
    <2>3. LeavesOwn(tables', h, owner')
        <3>1. ASSUME NEW b \in 1 .. n, h[b].lvl = 0 PROVE b \in 1 .. Len(tables) /\ h[b] = g[b]
            <4>1. 0 # 3
                BY Numbers
            <4> QED
                BY <1>7, <1>13, <1>14, <3>1, <4>1
        <3> QED
            BY <1>1, <1>4, <1>8, <3>1, ZenonT(40) DEF LeavesOwn
    <2> QED
        BY <1>15, <2>1, <2>2, <2>3 DEF Shape
<1>17. ASSUME NEW r \in 1 .. Len(tables), g[r].lvl = 3, NEW v \in Pages
       PROVE  View(tables', r, v) = View(tables, r, v)
    <2>1. Third(tables', r, v) = Third(tables, r, v)
        BY <1>8 DEF Third
    <2>2. \A c \in 1 .. Len(tables), f \in Slot : g[c].lvl < 3 => tables'[c][f] = tables[c][f]
        BY <1>8
    <2>3. /\ Third(tables', r, v).page = Third(tables, r, v).page
          /\ Absent(Third(tables', r, v)) <=> Absent(Third(tables, r, v))
        BY <2>1
    <2>4. Rightless(tables, g, tables', r, v)
        BY <1>17, <2>2, <2>3 DEF Rightless
    <2>5. ViewKept(tables, tables', r, v)
        BY <1>4, <2>4, SameView
    <2> QED
        BY <2>5 DEF ViewKept
<1>18. KernelKept
    BY <1>5, <1>17, Halved DEF KernelKept, Seen
<1>19. UserKept
    <2> SUFFICES ASSUME NEW q \in Procs, NEW v \in Low
                 PROVE  Seen(tables', pml4'[q], v) = Seen(tables, pml4[q], v)
        BY DEF UserKept
    <2>0. v \in Pages
        BY Halved
    <2>1. CASE q = p
        <3>1. pml4[p] = 0
            BY <1>1, <1>4 DEF RootsOf
        <3>2. Third(tables', n, v) = Zero
            <4>1. Third(tables', n, v) = tables[1][Index(v, 3)]
                BY <1>8, ZenonT(40) DEF Third
            <4> QED
                BY <1>4, <2>0, <4>1, Slots DEF Tree, Tops
        <3>3. View(tables', n, v) = NoMap
            BY <3>2, SMTT(30) DEF View, Leaf, Absent, Zero
        <3> QED
            BY <1>9, <2>1, <3>1, <3>3 DEF Seen
    <2>2. CASE q # p
        <3>1. pml4'[q] = pml4[q]
            BY <1>9, <2>2
        <3>2. CASE proc[q].pc = "none"
            BY <1>4, <3>1, <3>2 DEF RootsOf, Seen
        <3>3. CASE proc[q].pc # "none"
            <4>1. pml4[q] \in 1 .. Len(tables) /\ g[pml4[q]].lvl = 3
                BY <1>4, <3>3 DEF RootsOf
            <4> QED
                BY <1>17, <2>0, <3>1, <4>1 DEF Seen
        <3> QED
            BY <3>2, <3>3
    <2> QED
        BY <2>1, <2>2
<1> QED
    BY <1>11, <1>12, <1>16, <1>18, <1>19 DEF VInv, SpaceStep

-----------------------------------------------------------------------------
(***************************************************************************)
(* What the processor sees.                                                *)
(***************************************************************************)

(* Walks of the kernel's map and of the processes' end where Seen says.    *)
Walked(ts, pm) ==
    \A v \in Pages : /\ WalkIn(ts, 1, v) = Seen(ts, 1, v)
                     /\ \A p \in Procs : WalkIn(ts, pm[p], v) = Seen(ts, pm[p], v)
(* The walk of the processor is what the tables show.                      *)
LEMMA Walks ==
    ASSUME NEW ts, NEW g, NEW loaded, NEW pm, NEW pr, Tree(ts, g, loaded), RootsOf(ts, g, pm, pr)
    PROVE  Walked(ts, pm)
<1> SUFFICES ASSUME NEW v \in Pages
             PROVE  /\ WalkIn(ts, 1, v) = Seen(ts, 1, v)
                    /\ \A p \in Procs : WalkIn(ts, pm[p], v) = Seen(ts, pm[p], v)
    BY DEF Walked
<1>0. 1 # 0
    BY Numbers
<1>1. WalkIn(ts, 0, v) = NoMap
    BY DEF WalkIn
<1>2. WalkIn(ts, 1, v) = View(ts, 1, v)
    BY FirstTop, WalkIsView
<1>3. ASSUME NEW p \in Procs PROVE WalkIn(ts, pm[p], v) = Seen(ts, pm[p], v)
    <2>1. CASE pr[p].pc = "none"
        BY <1>1, <2>1 DEF RootsOf, Seen
    <2>2. CASE pr[p].pc # "none"
        <3>1. pm[p] \in 1 .. Len(ts) /\ g[pm[p]].lvl = 3 /\ pm[p] # 0
            BY <2>2 DEF RootsOf
        <3> QED
            BY <3>1, WalkIsView DEF Seen
    <2> QED
        BY <2>1, <2>2
<1> QED
    BY <1>0, <1>2, <1>3 DEF Seen

(* Walks in the tables of a state.                                         *)
LEMMA WalksNow ==
    ASSUME VInv
    PROVE  /\ \A v \in High : Walk(1, v) = Seen(tables, 1, v)
           /\ \A p \in Procs, v \in Low : Walk(pml4[p], v) = Seen(tables, pml4[p], v)
<1>1. PICK g : Tree(tables, g, Loaded) /\ RootsOf(tables, g, pml4, proc)
    BY DEF VInv, Shape
<1>2. \A r, v : Walk(r, v) = WalkIn(tables, r, v)
    BY DEF Walk, WalkIn
<1>3. Walked(tables, pml4)
    BY <1>1, Walks
<1> QED
    BY <1>2, <1>3, Halved DEF Walked

(* Walks in the tables of the next state.                                  *)
LEMMA WalksThen ==
    ASSUME VInv'
    PROVE  /\ \A v \in High : Walk(1, v)' = Seen(tables', 1, v)
           /\ \A p \in Procs, v \in Low : Walk(pml4[p], v)' = Seen(tables', pml4'[p], v)
<1>1. PICK g, l : Tree(tables', g, l) /\ RootsOf(tables', g, pml4', proc')
    BY DEF VInv, Shape
<1>2. /\ \A v : Walk(1, v)' = WalkIn(tables', 1, v)
      /\ \A p, v : Walk(pml4[p], v)' = WalkIn(tables', pml4'[p], v)
    BY DEF Walk, WalkIn
<1>3. Walked(tables', pml4')
    BY <1>1, Walks
<1> QED
    BY <1>2, <1>3, Halved DEF Walked

(* The kernel's half is every process's, not for users, and the kernel has *)
(* no other.                                                               *)
LEMMA SharedNow ==
    ASSUME VInv
    PROVE  KernelShared
<1>1. PICK g : Tree(tables, g, Loaded) /\ RootsOf(tables, g, pml4, proc)
    BY DEF VInv, Shape
<1>2. \A r, v : Walk(r, v) = WalkIn(tables, r, v)
    BY DEF Walk, WalkIn
<1>3. 1 \in 1 .. Len(tables) /\ g[1].lvl = 3
    BY <1>1, FirstTop
<1>4. pml4["kernel"] \in {0, 1}
    BY DEF VInv, Types
<1>5. ASSUME NEW p \in Procs, NEW v \in High, pml4[p] # 0
      PROVE  /\ Walk(pml4[p], v) = Walk(pml4["kernel"], v)
             /\ "USER" \notin Walk(pml4[p], v).flags
    <2> DEFINE r == pml4[p]
               b == Leaf(tables, r, v)
    <2>1. r \in 1 .. Len(tables) /\ g[r].lvl = 3 /\ pml4["kernel"] = 1
        <3>1. proc[p].pc # "none"
            BY <1>1, <1>5 DEF RootsOf
        <3> QED
            BY <1>1, <1>4, <3>1 DEF RootsOf
    <2>2. v \in Pages
        BY Halved
    <2>3. Walk(r, v) = View(tables, r, v) /\ Walk(1, v) = View(tables, 1, v)
        BY <1>1, <1>2, <1>3, <2>1, <2>2, WalkIsView
    <2>4. b = Leaf(tables, 1, v)
        BY <1>1, <2>1, <2>2, Halves
    <2>5. View(tables, r, v) = View(tables, 1, v)
        BY <2>4 DEF View
    <2>6. "USER" \notin View(tables, r, v).flags
        <3>1. CASE b = 0
            BY <3>1 DEF View, NoMap
        <3>2. CASE b # 0
            <4>1. b \in 1 .. Len(tables) /\ g[b].lvl = 0 /\ g[b].own = "kernel"
                <5>1. Leads(tables, g, r, v)
                    BY <2>1, <2>2, <3>2 DEF Leads
                <5>2. LeafIs(tables, g, r, v)
                    BY <1>1, <5>1, LeafOf
                <5> QED
                    BY <5>2 DEF LeafIs
            <4>2. Index(v, 0) \in Slot
                BY <2>2, Slots
            <4>3. "USER" \notin tables[b][Index(v, 0)].flags
                BY <1>1, <4>1, <4>2 DEF Tree, KernelLeaves
            <4> QED
                BY <3>2, <4>3 DEF View, NoMap
        <3> QED
            BY <3>1, <3>2
    <2> QED
        BY <2>1, <2>3, <2>5, <2>6
<1>6. ASSUME NEW v \in Low PROVE Walk(pml4["kernel"], v) = NoMap
    <2>1. v \in Pages
        BY Halved
    <2>2. Walk(0, v) = NoMap
        BY <1>2 DEF WalkIn
    <2>3. Leaf(tables, 1, v) = 0
        BY <1>1, <1>3, <2>1, Halves
    <2>4. Walk(1, v) = NoMap
        BY <1>1, <1>2, <1>3, <2>1, <2>3, WalkIsView DEF View
    <2> QED
        BY <1>4, <2>2, <2>4
<1> QED
    BY <1>5, <1>6 DEF KernelShared

(* The invariant implies that users reach their own pages.                 *)
LEMMA OwnNow ==
    ASSUME VInv
    PROVE  UserReachesOwn
<1> SUFFICES ASSUME NEW p \in Procs, NEW v \in Low, "USER" \in Walk(pml4[p], v).flags
             PROVE  \/ Walk(pml4[p], v).page \in {Fb[i] : i \in DOMAIN Fb}
                    \/ Walk(pml4[p], v).page \in Heap /\ owner[Walk(pml4[p], v).page] = p
    BY DEF UserReachesOwn
<1> DEFINE r == pml4[p]
           b == Leaf(tables, r, v)
           pte == tables[b][Index(v, 0)]
<1>1. PICK g : Tree(tables, g, Loaded) /\ RootsOf(tables, g, pml4, proc) /\ LeavesOwn(tables, g, owner)
    BY DEF VInv, Shape
<1>2. Walk(r, v) = Seen(tables, r, v) /\ "USER" \in Seen(tables, r, v).flags
    <2>1. Walk(r, v) = Seen(tables, r, v)
        BY WalksNow
    <2> QED
        BY <2>1
<1>3. "USER" \notin NoMap.flags
    BY DEF NoMap
<1>4. r # 0 /\ b # 0 /\ ~Absent(pte) /\ Seen(tables, r, v) = pte
    BY <1>2, <1>3 DEF Seen, View
<1>5. r \in 1 .. Len(tables) /\ g[r].lvl = 3 /\ g[r].own = p
    <2>1. proc[p].pc # "none"
        BY <1>1, <1>4 DEF RootsOf
    <2> QED
        BY <1>1, <2>1 DEF RootsOf
<1>6. v \in Pages /\ v \notin High /\ Index(v, 0) \in Slot /\ p # "kernel"
    BY Halved, Slots, Names
<1>7. b \in 1 .. Len(tables) /\ g[b].lvl = 0 /\ g[b].own = p
    <2>1. /\ b \in 1 .. Len(tables) /\ g[b].lvl = 0
          /\ g[b].own = IF v \in High THEN "kernel" ELSE g[r].own
        <3>1. Leads(tables, g, r, v)
            BY <1>4, <1>5, <1>6 DEF Leads
        <3>2. LeafIs(tables, g, r, v)
            BY <1>1, <3>1, LeafOf
        <3> QED
            BY <3>2 DEF LeafIs
    <2> QED
        BY <1>5, <1>6, <2>1
<1>8. pte.page \in OwnIn(owner, p)
    BY <1>1, <1>4, <1>6, <1>7 DEF LeavesOwn
<1> QED
    BY <1>2, <1>4, <1>8 DEF OwnIn

-----------------------------------------------------------------------------
(***************************************************************************)
(* The address space the tables implement.                                 *)
(***************************************************************************)
AllRights == UserRights \cup KernelRights

(* What is seen of the kernel's half stays.                                *)
LEMMA KernelMapKept ==
    ASSUME VInv, VInv', KernelKept
    PROVE  KernelMap' = KernelMap
<1>1. \A v \in High : Walk(1, v)' = Walk(1, v)
    BY WalksNow, WalksThen, ZenonT(40) DEF KernelKept
<1> QED
    BY <1>1 DEF KernelMap

(* What is seen of the processes' halves stays.                            *)
LEMMA UserMapKept ==
    ASSUME VInv, VInv', UserKept
    PROVE  UserMap' = UserMap
<1>1. \A p \in Procs, v \in Low : Walk(pml4[p], v)' = Walk(pml4[p], v)
    BY WalksNow, WalksThen, SMT DEF UserKept
<1>2. \A p \in Procs : [v \in Low |-> Walk(pml4[p], v)'] = [v \in Low |-> Walk(pml4[p], v)]
    BY <1>1
<1> QED
    BY <1>2 DEF UserMap

(* One page of the kernel's half changes.                                  *)
LEMMA KernelMapSet ==
    ASSUME VInv, VInv', NEW w \in High, NEW x, KernelSets(w, x)
    PROVE  /\ KernelMap'[w] = x /\ KernelMap' = [KernelMap EXCEPT ![w] = x]
           /\ KernelMap[w] = x => KernelMap' = KernelMap
<1>1. \A v \in High : Walk(1, v)' = IF v = w THEN x ELSE Walk(1, v)
    BY WalksNow, WalksThen, ZenonT(40) DEF KernelSets
<1>2. KernelMap' = [v \in High |-> Walk(1, v)'] /\ KernelMap = [v \in High |-> Walk(1, v)]
    BY DEF KernelMap
<1>3. KernelMap'[w] = x /\ KernelMap' = [KernelMap EXCEPT ![w] = x]
    BY <1>1, <1>2
<1>4. KernelMap[w] = x => KernelMap' = KernelMap
    BY <1>1, <1>2
<1> QED
    BY <1>3, <1>4

(* One page of one process's half changes.                                 *)
LEMMA UserMapSet ==
    ASSUME VInv, VInv', NEW q \in Procs, NEW w \in Low, NEW x, UserSets(q, w, x)
    PROVE  /\ UserMap'[q][w] = x /\ UserMap' = [UserMap EXCEPT ![q][w] = x]
           /\ UserMap[q][w] = x => UserMap' = UserMap
<1> DEFINE old(p) == [v \in Low |-> Walk(pml4[p], v)]
           new(p) == [v \in Low |-> Walk(pml4[p], v)']
<1>1. \A p \in Procs, v \in Low :
        Walk(pml4[p], v)' = IF p = q /\ v = w THEN x ELSE Walk(pml4[p], v)
    BY WalksNow, WalksThen, SMTT(30) DEF UserSets
<1>2. UserMap' = [p \in Procs |-> new(p)] /\ UserMap = [p \in Procs |-> old(p)]
    BY DEF UserMap
<1>3. \A p \in Procs : p # q => new(p) = old(p)
    BY <1>1
<1>4. new(q)[w] = x /\ new(q) = [old(q) EXCEPT ![w] = x] /\ (old(q)[w] = x => new(q) = old(q))
    BY <1>1
<1> HIDE DEF old, new
<1>5. UserMap[q] = old(q) /\ UserMap'[q] = new(q)
    BY <1>2
<1>6. UserMap' = [UserMap EXCEPT ![q] = new(q)]
    BY <1>2, <1>3
<1>7. [UserMap EXCEPT ![q][w] = x] = [UserMap EXCEPT ![q] = [UserMap[q] EXCEPT ![w] = x]]
    OBVIOUS
<1>8. UserMap[q][w] = x => UserMap' = UserMap
    BY <1>2, <1>3, <1>4, <1>5
<1> QED
    BY <1>4, <1>5, <1>6, <1>7, <1>8, ZenonT(40)

(* Every step is one of the address space, or leaves it as it is.          *)
LEMMA StepRefines ==
    ASSUME VInv, VInv', SpaceStep
    PROVE  [Space!Next]_(Space!avars)
<1>1. CASE KernelKept /\ UserKept
    <2>1. KernelMap' = KernelMap /\ UserMap' = UserMap
        BY <1>1, KernelMapKept, UserMapKept
    <2> QED
        BY <2>1 DEF Space!avars
<1>2. ASSUME UserKept, NEW w \in High, NEW x \in Entry, KernelSets(w, x),
             x.flags \in KernelRights, "USER" \notin x.flags
      PROVE  [Space!Next]_(Space!avars)
    <2>1. UserMap' = UserMap
        BY <1>2, UserMapKept
    <2>2. /\ KernelMap'[w] = x /\ KernelMap' = [KernelMap EXCEPT ![w] = x]
          /\ KernelMap[w] = x => KernelMap' = KernelMap
        BY <1>2, KernelMapSet
    <2>3. CASE KernelMap[w] = x
        <3>1. KernelMap' = KernelMap
            BY <2>2, <2>3
        <3> QED
            BY <2>1, <3>1 DEF Space!avars
    <2>4. CASE KernelMap[w] # x
        <3>1. /\ KernelMap'[w] # KernelMap[w] /\ KernelMap'[w].flags \in AllRights
              /\ "USER" \notin KernelMap'[w].flags /\ KernelMap' = [KernelMap EXCEPT ![w] = KernelMap'[w]]
            BY <1>2, <2>2, <2>4 DEF AllRights
        <3>2. Space!MapKernel(w)
            BY <2>1, <3>1, SMTT(30) DEF Space!MapKernel, AllRights
        <3> QED
            BY <1>2, <3>2 DEF Space!Next
    <2> QED
        BY <2>3, <2>4
<1>3. ASSUME KernelKept, NEW q \in Procs, NEW w \in Low, NEW x \in Entry, UserSets(q, w, x),
             x.flags \in UserRights, "USER" \in x.flags
      PROVE  [Space!Next]_(Space!avars)
    <2>1. KernelMap' = KernelMap
        BY <1>3, KernelMapKept
    <2>2. /\ UserMap'[q][w] = x /\ UserMap' = [UserMap EXCEPT ![q][w] = x]
          /\ UserMap[q][w] = x => UserMap' = UserMap
        BY <1>3, UserMapSet
    <2>3. CASE UserMap[q][w] = x
        <3>1. UserMap' = UserMap
            BY <2>2, <2>3
        <3> QED
            BY <2>1, <3>1 DEF Space!avars
    <2>4. CASE UserMap[q][w] # x
        <3>1. /\ UserMap'[q][w] # UserMap[q][w] /\ UserMap'[q][w].flags \in AllRights
              /\ "USER" \in UserMap'[q][w].flags /\ UserMap' = [UserMap EXCEPT ![q][w] = UserMap'[q][w]]
            BY <1>3, <2>2, <2>4 DEF AllRights
        <3>2. Space!MapUser(q, w)
            BY <2>1, <3>1, SMTT(30) DEF Space!MapUser, AllRights
        <3> QED
            BY <1>3, <3>2 DEF Space!Next
    <2> QED
        BY <2>3, <2>4
<1>4. ASSUME UserKept, NEW w \in High, KernelSets(w, NoMap)
      PROVE  [Space!Next]_(Space!avars)
    <2>1. UserMap' = UserMap
        BY <1>4, UserMapKept
    <2>2. /\ KernelMap'[w] = NoMap /\ KernelMap' = [KernelMap EXCEPT ![w] = NoMap]
          /\ KernelMap[w] = NoMap => KernelMap' = KernelMap
        BY <1>4, KernelMapSet
    <2>3. CASE KernelMap[w] = NoMap
        <3>1. KernelMap' = KernelMap
            BY <2>2, <2>3
        <3> QED
            BY <2>1, <3>1 DEF Space!avars
    <2>4. CASE KernelMap[w] # NoMap
        <3>1. KernelMap'[w] # KernelMap[w]
            BY <2>2, <2>4
        <3>2. Space!Unmap(w)
            BY <2>1, <2>2, <3>1 DEF Space!Unmap, Space!NoMap, NoMap, KernelMap, UserMap
        <3> QED
            BY <1>4, <3>2 DEF Space!Next
    <2> QED
        BY <2>3, <2>4
<1> QED
    BY <1>1, <1>2, <1>3, <1>4 DEF SpaceStep

-----------------------------------------------------------------------------
(***************************************************************************)
(* The invariant and what follows from it.                                 *)
(***************************************************************************)
LEMMA InitVInv ==
    ASSUME Init
    PROVE  VInv /\ \A v : Seen(tables, 1, v) = NoMap \/ v \notin Pages
<1>1. /\ tables = <<ZeroTable>> /\ pml4 = [m \in Maps |-> 0]
      /\ owner = [f \in Heap |-> "free"]
      /\ proc = [p \in Procs |-> [pc |-> "none", elf |-> NoElf, i |-> 1]]
      /\ todo = [m \in Maps |-> Idle] /\ booted = 0
    BY DEF Init, Maps
<1>2. \A m \in Maps : pml4[m] = 0 /\ todo[m] = Idle
    BY <1>1
<1>3. ~Loaded /\ pml4 \in [Maps -> Nat]
    <2>1. 0 \in Nat
        BY Numbers
    <2> QED
        BY <1>1, <1>2, <2>1, Names DEF Loaded
<1>4. proc \in [Procs -> ProcType] /\ \A p \in Procs : proc[p].pc = "none"
    <2>1. 1 \in Nat \ {0}
        BY Numbers
    <2>2. [pc |-> "none", elf |-> NoElf, i |-> 1] \in ProcType
        BY <2>1 DEF ProcType
    <2> QED
        BY <1>1, <2>2
<1>5. booted \in 0 .. Len(KernelSections)
    <2>1. Len(KernelSections) \in Nat
        BY Sections, SMT
    <2> QED
        BY <1>1, <2>1, SMTT(30)
<1>6. Types
    BY <1>1, <1>2, <1>3, <1>4, <1>5, Names DEF Types
<1>7. Jobs
    <2>1. todo \in [Maps -> Job]
        BY <1>1, IdleJob
    <2>2. ~(Idle.n > 0)
        BY IdleJob, SMT
    <2> QED
        BY <1>2, <1>3, <2>1, <2>2, IdleJob, Names DEF Jobs
<1> DEFINE top == [own |-> "kernel", lvl |-> 3, up |-> 0, ix |-> 0]
           g == [c \in 1 .. 1 |-> top]
<1>8. top \in Place /\ top.own = "kernel" /\ top.lvl = 3
    <2>1. 3 \in 0 .. 3 /\ 0 \in Nat
        BY Numbers
    <2> QED
        BY <2>1, Names DEF Place
<1> HIDE DEF top
<1>9. ZeroTable \in Table /\ \A e \in Slot : ZeroTable[e] = Zero
    <2>1. Zero \in Entry
        BY SMTT(30) DEF Zero, Entry
    <2> QED
        BY <2>1 DEF ZeroTable, Table, Slot
<1>10. tables \in Seq(Table) /\ Len(tables) = 1 /\ tables[1] = ZeroTable
    BY <1>1, <1>9, SMTT(30)
<1>11. \A c \in 1 .. 1 : c = 1
    BY SMT
<1>12. g \in [1 .. 1 -> Place] /\ g[1] = top
    <2>1. 1 \in 1 .. 1
        BY Numbers
    <2> QED
        BY <1>8, <2>1
<1> HIDE DEF g
<1>13. \A b \in 1 .. Len(tables), e \in Slot : b = 1 /\ tables[b][e] = Zero
    BY <1>9, <1>10, <1>11, SMT
<1>14. Tree(tables, g, Loaded)
    <2>1. TypesOf(tables, g)
        <3>1. 1 > 0
            BY Numbers
        <3> QED
            BY <1>10, <1>12, <3>1 DEF TypesOf
    <2>2. Linked(tables, g, Loaded)
        BY <1>13 DEF Linked
    <2>3. Tops(tables, g, Loaded)
        BY <1>8, <1>9, <1>10, <1>11, <1>12 DEF Tops
    <2>4. KernelLeaves(tables, g)
        BY <1>13, SMT DEF KernelLeaves, Zero
    <2> QED
        BY <2>1, <2>2, <2>3, <2>4 DEF Tree
<1>15. Shape(g)
    <2>1. RootsOf(tables, g, pml4, proc)
        BY <1>2, <1>4, Names DEF RootsOf
    <2>3. LeavesOwn(tables, g, owner)
        <3>1. Absent(Zero)
            BY DEF Absent, Zero
        <3> QED
            BY <1>13, <3>1 DEF LeavesOwn
    <2> QED
        BY <1>14, <2>1, <2>3 DEF Shape
<1>16. ASSUME NEW v \in Pages PROVE Seen(tables, 1, v) = NoMap
    <2>1. Third(tables, 1, v) = Zero
        BY <1>9, <1>10, Slots DEF Third
    <2> QED
        BY <2>1, SMTT(30) DEF Seen, View, Leaf, Absent, Zero
<1> QED
    BY <1>6, <1>7, <1>15, <1>16 DEF VInv

(* At first nothing is mapped.                                             *)
LEMMA InitRefines ==
    ASSUME Init
    PROVE  Space!Init
<1>1. VInv /\ \A v \in Pages : Seen(tables, 1, v) = NoMap
    BY InitVInv
<1>2. \A v \in High : Walk(1, v) = NoMap
    BY <1>1, WalksNow, Halved
<1>3. \A p \in Procs, v \in Low : Walk(pml4[p], v) = NoMap
    <2>1. \A p \in Procs : pml4[p] = 0
        BY Names DEF Init, Maps
    <2> QED
        BY <1>1, <2>1, WalksNow DEF Seen
<1>4. \A p \in Procs : [v \in Low |-> Walk(pml4[p], v)] = [v \in Low |-> NoMap]
    BY <1>3
<1>5. KernelMap = [v \in High |-> NoMap] /\ UserMap = [p \in Procs |-> [v \in Low |-> NoMap]]
    BY <1>2, <1>4 DEF KernelMap, UserMap
<1> QED
    BY <1>5 DEF Space!Init, Space!NoMap, NoMap

(* Every action keeps the invariant, and is a step of the address space.   *)
LEMMA NextVInv ==
    ASSUME VInv, Mallocs, [Next]_vars
    PROVE  VInv' /\ SpaceStep
<1>1. CASE init_vmm
    BY <1>1, InitVmm
<1>2. CASE map_page("kernel", 1)
    BY <1>2, MapKernelPage
<1>3. CASE load_pagemap
    BY <1>3, LoadPagemap
<1>4. CASE \E v \in Unmaps : unmap_page(v)
    BY <1>4, UnmapPage
<1>5. CASE \E p \in Procs : map_page(p, pml4[p])
    BY <1>5, MapUserPage
<1>6. CASE \E p \in Procs, elf \in Elfs : create_user_process(p, elf)
    BY <1>6, CreateUserProcess
<1>7. CASE \E p \in Procs : elf_load(p)
    BY <1>7, ElfLoad
<1>8. CASE \E p \in Procs : create_user_thread(p)
    BY <1>8, CreateUserThread
<1>9. CASE \E p \in Procs, len \in Lens : syscall_mmap(p, len)
    BY <1>9, SyscallMmap
<1>10. CASE \E p \in Procs : syscall_get_fb_context(p)
    BY <1>10, SyscallGetFbContext
<1>11. CASE UNCHANGED vars
    <2>1. /\ tables' = tables /\ pml4' = pml4 /\ owner' = owner /\ proc' = proc
          /\ todo' = todo /\ booted' = booted
        BY <1>11 DEF vars
    <2>2. Types' /\ Jobs'
        BY <2>1 DEF VInv, Types, Jobs, Loaded
    <2>3. PICK g : Shape(g)
        BY DEF VInv
    <2>4. Shape(g)' /\ SpaceStep
        BY <2>1, <2>3, Quiet
    <2> QED
        BY <2>2, <2>4 DEF VInv
<1> QED
    BY <1>1, <1>2, <1>3, <1>4, <1>5, <1>6, <1>7, <1>8, <1>9, <1>10, <1>11, ZenonT(40) DEF Next

-----------------------------------------------------------------------------
LOCAL INSTANCE WellFoundedInduction

(* kmalloc returns the first of the free runs, if there is one.            *)
LEMMA Malloc == Mallocs
<1> SUFFICES ASSUME NEW n \in Nat, kmalloc(n) # NULL
             PROVE  kmalloc(n) \in FreeAt(n)
    BY DEF Mallocs
<1>1. FreeAt(n) # {} /\ kmalloc(n) = CHOOSE f \in FreeAt(n) : \A g \in FreeAt(n) : f <= g
    BY DEF kmalloc
<1>2. FreeAt(n) \subseteq Nat
    BY HeapLow DEF FreeAt
<1> DEFINE S == FreeAt(n)
<1>s. S # {} /\ S \subseteq Nat
    BY <1>1, <1>2
<1> HIDE DEF S
<1>m. \E f \in S : \A g \in S : ~(<<g, f>> \in OpToRel(<, Nat))
    BY <1>s, NatLessThanWellFounded, WFMin, ZenonT(40)
<1>3. PICK f \in FreeAt(n) : \A g \in FreeAt(n) : ~(<<g, f>> \in OpToRel(<, Nat))
    BY <1>m DEF S
<1>4. \A g \in FreeAt(n) : ~(g < f)
    BY <1>2, <1>3 DEF OpToRel
<1>5. \A g \in FreeAt(n) : f <= g
    BY <1>2, <1>4, SMTT(30)
<1> QED
    BY <1>1, <1>3, <1>5

(* The inductive invariant.                                                *)
LEMMA VmmInductive == Spec => []VInv
<1>1. Init => VInv
    BY InitVInv
<1>2. VInv /\ [Next]_vars => VInv'
    BY Malloc, NextVInv
<1> QED
    BY <1>1, <1>2, PTL DEF Spec

(* Every process sees the kernel's half as the kernel does, whatever was   *)
(* mapped or unmapped since its top table was copied, no user may use it,  *)
(* and the kernel's own map has no lower half (create_user_process,        *)
(* init_vmm, map_page, unmap_page).                                        *)
THEOREM KernelIsShared == Spec => []KernelShared
<1>1. VInv => KernelShared
    BY SharedNow
<1> QED
    BY <1>1, VmmInductive, PTL

(* A user reaches only page frames that kmalloc gave out for its process,  *)
(* or the framebuffer's, whatever the processes interleave (elf_load,      *)
(* create_user_thread, mmap, get_fb_context and the map_page calls).       *)
THEOREM UsersReachOwn == Spec => []UserReachesOwn
<1>1. VInv => UserReachesOwn
    BY OwnNow
<1> QED
    BY <1>1, VmmInductive, PTL

(* The tables, walked as the processor walks them, implement AddressSpace: *)
(* map_page changes at most one page of one map, to rights of its half,    *)
(* and unmap_page one page of the kernel's; the allocation of tables, the  *)
(* copy of the top table and the removal of USER change no mapping.        *)
THEOREM ImplementsAddressSpace == Spec => RefinesAddressSpace
<1>1. Init => Space!Init
    BY InitRefines
<1>2. VInv /\ [Next]_vars => [Space!Next]_(Space!avars)
    BY Malloc, NextVInv, StepRefines
<1> QED
    BY <1>1, <1>2, VmmInductive, PTL DEF Spec, RefinesAddressSpace, Space!Spec
=============================================================================
