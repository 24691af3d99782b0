------------------------ MODULE AddressSpacesProofs -------------------------
(***************************************************************************)
(* What AddressSpaces promises, proved for tables of every size, every     *)
(* memory and every set of programs.                                       *)
(***************************************************************************)
EXTENDS AddressSpaces, WellFoundedInduction, TLAPS

-----------------------------------------------------------------------------
(* Numbers *)

\* A set of natural numbers that is not empty has a least element.
LEMMA LeastNat ==
  ASSUME NEW T, T \subseteq Nat, T # {}
  PROVE  \E m \in T : \A k \in T : m <= k
<1> DEFINE R == OpToRel(<, Nat)
<1>1. IsWellFoundedOn(R, Nat)
  BY NatLessThanWellFounded
<1>2. \E x \in T : \A y \in T : ~ (<<y, x>> \in R)
  <2> HIDE DEF R
  <2> QED BY <1>1, WFMin
<1>3. \A a, b \in Nat : <<a, b>> \in R <=> a < b
  BY DEF OpToRel
<1> HIDE DEF R
<1>4. PICK m \in T : \A y \in T : ~ (<<y, m>> \in R)
  BY <1>2
<1>5. \A k \in T : ~ (k < m) /\ k \in Nat /\ m \in Nat
  BY <1>3, <1>4
<1> QED
  BY <1>5

\* ... which is its Min.
LEMMA Least ==
  ASSUME NEW T, T \subseteq Nat, T # {}
  PROVE  Min(T) \in T
BY LeastNat DEF Min

\* What holds of 0 and of each next number up to n holds of them all.
LEMMA UpTo ==
  ASSUME NEW n \in Nat, NEW P, 0 \in P,
         \A k \in 1 .. n : k - 1 \in P => k \in P
  PROVE  0 .. n \subseteq P
<1> DEFINE T == {k \in 0 .. n : k \notin P}
<1>1. SUFFICES ASSUME T # {} PROVE FALSE
  OBVIOUS
<1>2. PICK m \in T : \A k \in T : m <= k
  <2>1. T \subseteq Nat
    OBVIOUS
  <2> HIDE DEF T
  <2> QED BY <1>1, <2>1, LeastNat
<1>3. m # 0 /\ m \in 1 .. n /\ m \notin P
  OBVIOUS
<1>4. m - 1 \in P
  <2>1. m - 1 \in 0 .. n /\ ~ (m <= m - 1)
    BY <1>3
  <2> QED BY <1>2, <2>1
<1> QED
  BY <1>3, <1>4

\* A set of numbers up to n that is not empty has a greatest element, its Max.
LEMMA Greatest ==
  ASSUME NEW n \in Nat, NEW S, S \subseteq 0 .. n, S # {}
  PROVE  Max(S) \in S /\ \A k \in S : k <= Max(S)
<1> DEFINE T == {n - k : k \in S}
<1>1. T \subseteq Nat /\ T # {}
  OBVIOUS
<1>2. PICK t \in T : \A k \in T : t <= k
  <2> HIDE DEF T
  <2> QED BY <1>1, LeastNat
<1>3. PICK m \in S : t = n - m
  OBVIOUS
<1>4. ASSUME NEW k \in S PROVE k <= m
  <2>1. t <= n - k
    BY <1>2
  <2> QED BY <2>1, <1>3
<1>5. \E x \in S : \A y \in S : x >= y
  BY <1>4
<1> QED
  BY <1>5 DEF Max

\* The last digit of a number to the base of n, and the rest.
LEMMA Division ==
  ASSUME NEW n \in Nat, n > 1, NEW x \in Nat
  PROVE  /\ x \div n \in Nat /\ x % n \in 0 .. (n - 1)
         /\ x = (x \div n) * n + (x % n)
         /\ \A m \in Nat : x < m * n => x \div n < m
<1> DEFINE q == x \div n
           r == x % n
<1>1. q \in Nat /\ r \in 0 .. (n - 1) /\ x = q * n + r
  OBVIOUS
<1> HIDE DEF q, r
<1>2. ASSUME NEW m \in Nat, x < m * n PROVE q < m
  <2>1. SUFFICES ASSUME m <= q PROVE FALSE
    BY <1>1
  <2>2. m * n <= q * n
    BY <1>1, <2>1
  <2> QED
    BY <1>1, <1>2, <2>2
<1> QED
  BY <1>1, <1>2 DEF q, r

-----------------------------------------------------------------------------
(* The indices of a page *)

Slots == 0 .. (N - 1)
Pages == 0 .. (StackTop - 1)

LEMMA Sizes ==
  /\ N \in Nat /\ N > 1 /\ 0 \in Slots
  /\ StackTop \in Nat /\ N * N \in Nat
  /\ 0 .. (N * N - 1) \subseteq Pages
  /\ Stack \subseteq Pages \ (0 .. (N * N - 1)) /\ StackTop - 1 \in Stack
<1>1. N \in Nat /\ N > 1 /\ StackPages \in Nat \ {0} /\ N * N <= StackTop - StackPages
  BY LayoutAssumption
<1>2. N * N \in Nat /\ StackTop \in Nat
  BY <1>1 DEF StackTop
<1>3. \A a, b, c \in Nat : a <= b - c => a <= b
  OBVIOUS
<1>4. N * N <= StackTop
  BY <1>1, <1>2, <1>3
<1> QED
  BY <1>1, <1>2, <1>4 DEF Slots, Pages, Stack

\* The first entry of the top level maps all of them.
LEMMA Indices ==
  ASSUME NEW v \in Pages
  PROVE  /\ I4(v) = 0 /\ I3(v) \in Slots /\ I2(v) \in Slots /\ I1(v) \in Slots
         /\ v = (I3(v) * N + I2(v)) * N + I1(v)
<1> DEFINE a == v \div N
           b == a \div N
<1>1. N \in Nat /\ N > 1 /\ N * N \in Nat /\ v \in Nat /\ v < (N * N) * N
  BY Sizes DEF Pages, StackTop
<1>2. a \in Nat /\ a < N * N /\ v % N \in Slots /\ v = a * N + (v % N)
  BY <1>1, Division DEF Slots
<1> HIDE DEF a
<1>3. b \in Nat /\ b < N /\ a % N \in Slots /\ a = b * N + (a % N)
  BY <1>1, <1>2, Division DEF Slots
<1> HIDE DEF b
<1>4. b < 1 * N
  BY <1>1, <1>3
<1>5. b \div N < 1 /\ b \div N \in Nat /\ b % N \in Slots /\ b = (b \div N) * N + (b % N)
  BY <1>1, <1>3, <1>4, Division DEF Slots
<1>6. b \div N = 0 /\ b % N = b
  BY <1>1, <1>3, <1>5 DEF Slots
<1> QED
  BY <1>2, <1>3, <1>5, <1>6 DEF I1, I2, I3, I4, a, b

LEMMA LowIndices ==
  ASSUME NEW v \in 0 .. (N * N - 1)
  PROVE  v \in Pages /\ I3(v) = 0 /\ v = I2(v) * N + I1(v)
<1> DEFINE a == v \div N
           b == a \div N
<1>1. N \in Nat /\ N > 1 /\ N * N \in Nat /\ v \in Nat /\ v < N * N /\ v \in Pages
  BY Sizes
<1>2. a \in Nat /\ a < N /\ v = a * N + (v % N) /\ v % N \in Slots
  BY <1>1, Division DEF Slots
<1> HIDE DEF a
<1>3. a < 1 * N
  BY <1>1, <1>2
<1>4. b < 1 /\ b \in Nat /\ a = b * N + (a % N) /\ a % N \in Slots
  BY <1>1, <1>2, <1>3, Division DEF Slots
<1>5. b = 0
  BY <1>4
<1>6. a = a % N
  BY <1>1, <1>2, <1>4, <1>5 DEF Slots
<1>7. b % N = 0
  BY <1>1, <1>5
<1> QED
  BY <1>1, <1>2, <1>6, <1>7 DEF I1, I2, I3, a, b

-----------------------------------------------------------------------------
(* The tree of tables *)

EntryType == [to : Nat, user : BOOLEAN, huge : BOOLEAN]
Table == [Slots -> EntryType]

\* Below entry 0 of every top level is the same tree: the page directory that
\* entry i of its root names, that directory's entry j, and the page table's
\* entry k that is there or that splitting the huge page would give.
PdOf(pt, i) == pt[BootPdpt][i].to
PdEntry(pt, i, j) == IF PdOf(pt, i) = 0 THEN Absent ELSE pt[PdOf(pt, i)][j]
PtEntry(pt, i, j, k) ==
  LET e == PdEntry(pt, i, j)
  IN  IF e.huge THEN Entry(e.to + k, FALSE, FALSE)
      ELSE IF e.to = 0 THEN Absent ELSE pt[e.to][k]

\* Where a table is.
Root == <<"pml4", 0, 0>>
Top == <<"pdpt", 0, 0>>
Middle(i) == <<"pd", i, 0>>
Bottom(i, j) == <<"pt", i, j>>

\* With R the top levels in use and `place` saying where each table is, no table
\* is in two places, and a page that ring 3 reaches is open to it on the way.
Tables(pt, place) ==
  /\ DOMAIN place = DOMAIN pt
  /\ \A f \in DOMAIN pt : pt[f] \in Table
  /\ BootPdpt \in DOMAIN pt /\ place[BootPdpt] = Top

TopLevel(pt, R, place) ==
  \A r \in R : /\ r \in DOMAIN pt /\ place[r] = Root
               /\ pt[r][0].to = BootPdpt /\ ~pt[r][0].huge

MiddleLevel(pt, place) ==
  \A i \in Slots :
    /\ ~pt[BootPdpt][i].huge
    /\ PdOf(pt, i) # 0 => PdOf(pt, i) \in DOMAIN pt /\ place[PdOf(pt, i)] = Middle(i)

BottomLevel(pt, place) ==
  \A i, j \in Slots :
    LET e == PdEntry(pt, i, j)
    IN  /\ e.huge => ~e.user
        /\ ~e.huge /\ e.to # 0 => e.to \in DOMAIN pt /\ place[e.to] = Bottom(i, j)

LeafLevel(pt) ==
  \A i, j, k \in Slots :
    /\ ~PtEntry(pt, i, j, k).huge
    /\ PtEntry(pt, i, j, k).user => pt[BootPdpt][i].user /\ PdEntry(pt, i, j).user

Tree(pt, R, place) ==
  /\ Tables(pt, place)
  /\ TopLevel(pt, R, place)
  /\ MiddleLevel(pt, place)
  /\ BottomLevel(pt, place)
  /\ LeafLevel(pt)

SameLeaves(p, q) ==
  \A i, j, k \in Slots : PtEntry(q, i, j, k) = PtEntry(p, i, j, k)

LEMMA Places ==
  ASSUME NEW i \in Slots, NEW j \in Slots, NEW k \in Slots, NEW l \in Slots
  PROVE  /\ Root # Top /\ Root # Middle(i) /\ Root # Bottom(i, j)
         /\ Top # Middle(i) /\ Top # Bottom(i, j) /\ Middle(k) # Bottom(i, j)
         /\ Middle(i) = Middle(j) => i = j
         /\ Bottom(i, j) = Bottom(k, l) => i = k /\ j = l
BY DEF Root, Top, Middle, Bottom

LEMMA Entries ==
  /\ \A to \in Nat, user, huge \in BOOLEAN :
       /\ Entry(to, user, huge) \in EntryType
       /\ Entry(to, user, huge).to = to
       /\ Entry(to, user, huge).user = user
       /\ Entry(to, user, huge).huge = huge
  /\ Absent \in EntryType /\ Absent.to = 0 /\ ~Absent.user /\ ~Absent.huge
  /\ EmptyTable \in Table /\ \A k \in Slots : EmptyTable[k] = Absent
BY DEF Entry, EntryType, Absent, EmptyTable, Table, Slots

\* Entries of the tree are entries.
LEMMA EntryTypes ==
  ASSUME NEW pt, NEW R, NEW place, Tree(pt, R, place),
         NEW i \in Slots, NEW j \in Slots, NEW k \in Slots
  PROVE  /\ pt[BootPdpt][i] \in EntryType /\ PdOf(pt, i) \in Nat
         /\ PdEntry(pt, i, j) \in EntryType
         /\ PtEntry(pt, i, j, k) \in EntryType
<1>1. pt[BootPdpt][i] \in EntryType
  BY DEF Tree, Tables, Table
<1>2. PdOf(pt, i) \in Nat
  BY <1>1 DEF PdOf, EntryType
<1>3. PdEntry(pt, i, j) \in EntryType
  BY Entries DEF Tree, Tables, MiddleLevel, Table, PdEntry
<1>4. PtEntry(pt, i, j, k) \in EntryType
  <2> DEFINE e == PdEntry(pt, i, j)
  <2>1. e \in EntryType /\ k \in Nat
    BY <1>3 DEF Slots
  <2>2. CASE e.huge
    BY <2>1, <2>2 DEF PtEntry, Entry, EntryType
  <2>3. CASE ~e.huge /\ e.to = 0
    BY <2>3, Entries DEF PtEntry
  <2>4. CASE ~e.huge /\ e.to # 0
    <3>1. e.to \in DOMAIN pt /\ pt[e.to] \in Table
      BY <2>4 DEF Tree, Tables, BottomLevel
    <3> QED
      BY <2>4, <3>1 DEF PtEntry, Table
  <2> QED
    BY <2>2, <2>3, <2>4
<1> QED
  BY <1>1, <1>2, <1>3, <1>4

\* A table that nothing leads to yet.
LEMMA Loose ==
  ASSUME NEW pt, NEW R, NEW place, Tree(pt, R, place), NEW g, g \notin DOMAIN pt, NEW at
  PROVE  LET q == Put(pt, g, EmptyTable)
             there == Put(place, g, at)
         IN  /\ DOMAIN q = DOMAIN pt \cup {g} /\ q[g] = EmptyTable /\ there[g] = at
             /\ Tree(q, R, there)
             /\ \A f \in DOMAIN pt : q[f] = pt[f]
             /\ \A i \in Slots : q[BootPdpt][i] = pt[BootPdpt][i]
             /\ \A i, j \in Slots : PdEntry(q, i, j) = PdEntry(pt, i, j)
             /\ SameLeaves(pt, q)
<1> DEFINE q == Put(pt, g, EmptyTable)
           there == Put(place, g, at)
<1>1. DOMAIN q = DOMAIN pt \cup {g} /\ q[g] = EmptyTable /\ there[g] = at
      /\ DOMAIN there = DOMAIN q
  BY DEF Put, Tree, Tables
<1>2. \A f \in DOMAIN pt : q[f] = pt[f] /\ there[f] = place[f]
  BY DEF Put, Tree, Tables
<1> HIDE DEF q, there
<1>3. Tables(q, there)
  BY <1>1, <1>2, Entries DEF Tree, Tables
<1>4. TopLevel(q, R, there)
  BY <1>1, <1>2 DEF Tree, TopLevel
<1>5. BootPdpt \in DOMAIN pt
  BY DEF Tree, Tables
<1>6. ASSUME NEW i \in Slots
      PROVE  q[BootPdpt][i] = pt[BootPdpt][i] /\ PdOf(q, i) = PdOf(pt, i)
  BY <1>2, <1>5 DEF PdOf
<1>7. MiddleLevel(q, there)
  BY <1>1, <1>2, <1>6 DEF Tree, MiddleLevel
<1>8. ASSUME NEW i \in Slots, NEW j \in Slots PROVE PdEntry(q, i, j) = PdEntry(pt, i, j)
  BY <1>2, <1>6 DEF PdEntry, Tree, MiddleLevel
<1>9. BottomLevel(q, there)
  BY <1>1, <1>2, <1>8 DEF Tree, BottomLevel
<1>10. SameLeaves(pt, q)
  BY <1>2, <1>8 DEF SameLeaves, PtEntry, Tree, BottomLevel
<1>11. LeafLevel(q)
  BY <1>6, <1>8, <1>10 DEF Tree, LeafLevel, SameLeaves
<1> QED
  BY <1>1, <1>2, <1>3, <1>4, <1>6, <1>7, <1>8, <1>9, <1>10, <1>11 DEF Tree, q, there

\* Nothing that was there before has changed.
Beside(p, q, g) ==
  /\ DOMAIN q = DOMAIN p \cup {g} /\ q[g] = EmptyTable
  /\ \A f \in DOMAIN p : q[f] = p[f]
  /\ \A i \in Slots : q[BootPdpt][i] = p[BootPdpt][i]
  /\ \A i, j \in Slots : PdEntry(q, i, j) = PdEntry(p, i, j)
  /\ SameLeaves(p, q)

LEMMA LooseLeaves ==
  ASSUME NEW pt, NEW R, NEW place, Tree(pt, R, place), NEW g, g \notin DOMAIN pt
  PROVE  Beside(pt, Put(pt, g, EmptyTable), g)
<1>1. Tree(Put(pt, g, EmptyTable), R, Put(place, g, Root))
  BY Loose
<1> QED
  BY <1>1, Loose DEF Beside

\* The leaves and the top levels are as they were.
Kept(p, q, R, place) ==
  /\ Tree(q, R, place)
  /\ SameLeaves(p, q)
  /\ DOMAIN q = DOMAIN p
  /\ \A r \in R : q[r] = p[r]

\* What Link does to the tables.
Linking(pt, g, t, i, e, up) == [pt EXCEPT ![g] = Below(e), ![t][i] = Entry(g, up, FALSE)]

\* An entry of the page directory pointer table is linked to a new directory.
LEMMA LinkMiddle ==
  ASSUME NEW pt, NEW R, NEW place, Tree(pt, R, place), NEW i \in Slots, PdOf(pt, i) = 0,
         NEW g \in DOMAIN pt, g \in Nat \ {0}, place[g] = Middle(i), pt[g] = EmptyTable,
         NEW up \in BOOLEAN
  PROVE  LET q == Linking(pt, g, BootPdpt, i, pt[BootPdpt][i], up)
         IN  Kept(pt, q, R, place) /\ PdOf(q, i) = g
<1> DEFINE q == Linking(pt, g, BootPdpt, i, pt[BootPdpt][i], up)
<1>0. q = [pt EXCEPT ![g] = EmptyTable, ![BootPdpt][i] = Entry(g, up, FALSE)]
  BY DEF Linking, Below, Tree, MiddleLevel
<1>1. BootPdpt \in DOMAIN pt /\ pt[BootPdpt] \in Table /\ DOMAIN place = DOMAIN pt
      /\ place[BootPdpt] = Top
  BY DEF Tree, Tables
<1> HIDE DEF q
<1>2. DOMAIN q = DOMAIN pt
      /\ (\A f \in DOMAIN pt : f # BootPdpt => q[f] = pt[f])
      /\ q[BootPdpt][i] = Entry(g, up, FALSE)
      /\ (\A k \in Slots : k # i => q[BootPdpt][k] = pt[BootPdpt][k])
      /\ q[BootPdpt] \in Table
  BY <1>0, <1>1, Entries, ZenonT(60) DEF Table
<1>3. Tables(q, place)
  BY <1>2 DEF Tree, Tables
<1>4. \A r \in R : q[r] = pt[r]
  BY <1>1, <1>2, Places DEF Tree, TopLevel
<1>5. TopLevel(q, R, place)
  BY <1>2, <1>4 DEF Tree, TopLevel
<1>6. PdOf(q, i) = g /\ \A k \in Slots : k # i => PdOf(q, k) = PdOf(pt, k)
  BY <1>2 DEF PdOf, Entry
<1>7. MiddleLevel(q, place)
  <2> SUFFICES ASSUME NEW k \in Slots
               PROVE  /\ ~q[BootPdpt][k].huge
                      /\ PdOf(q, k) # 0 => PdOf(q, k) \in DOMAIN q /\ place[PdOf(q, k)] = Middle(k)
    BY DEF MiddleLevel
  <2>1. CASE k = i
    BY <1>2, <1>6, <2>1 DEF Entry
  <2>2. CASE k # i
    BY <1>2, <1>6, <2>2 DEF Tree, MiddleLevel
  <2> QED BY <2>1, <2>2
<1>8. ASSUME NEW k \in Slots, NEW j \in Slots PROVE PdEntry(q, k, j) = PdEntry(pt, k, j)
  <2>1. CASE k = i
    <3>1. PdEntry(pt, i, j) = Absent
      BY DEF PdEntry
    <3>2. q[g] = EmptyTable
      BY <1>1, <1>2, Places
    <3>3. PdEntry(q, i, j) = Absent
      BY <1>6, <3>2, Entries DEF PdEntry
    <3> QED
      BY <2>1, <3>1, <3>3
  <2>2. CASE k # i
    <3>1. PdOf(q, k) = PdOf(pt, k)
      BY <1>6, <2>2
    <3>2. CASE PdOf(pt, k) = 0
      BY <3>1, <3>2 DEF PdEntry
    <3>3. CASE PdOf(pt, k) # 0
      <4>1. PdOf(pt, k) \in DOMAIN pt /\ place[PdOf(pt, k)] = Middle(k)
        BY <3>3 DEF Tree, MiddleLevel
      <4>2. PdOf(pt, k) # BootPdpt
        BY <1>1, <4>1, Places
      <4> QED
        BY <1>2, <3>1, <3>3, <4>1, <4>2 DEF PdEntry
    <3> QED BY <3>2, <3>3
  <2> QED BY <2>1, <2>2
<1>9. BottomLevel(q, place)
  BY <1>2, <1>8 DEF Tree, BottomLevel
<1>10. SameLeaves(pt, q)
  <2> SUFFICES ASSUME NEW k \in Slots, NEW j \in Slots, NEW l \in Slots
               PROVE  PtEntry(q, k, j, l) = PtEntry(pt, k, j, l)
    BY DEF SameLeaves
  <2> DEFINE e == PdEntry(pt, k, j)
  <2>1. CASE e.huge \/ e.to = 0
    BY <1>8, <2>1 DEF PtEntry
  <2>2. CASE ~e.huge /\ e.to # 0
    <3>1. e.to \in DOMAIN pt /\ place[e.to] = Bottom(k, j)
      BY <2>2 DEF Tree, BottomLevel
    <3>2. e.to # BootPdpt
      BY <1>1, <3>1, Places
    <3> QED
      BY <1>2, <1>8, <2>2, <3>1, <3>2 DEF PtEntry
  <2> QED BY <2>1, <2>2
<1>11. LeafLevel(q)
  <2> SUFFICES ASSUME NEW k \in Slots, NEW j \in Slots, NEW l \in Slots
               PROVE  /\ ~PtEntry(q, k, j, l).huge
                      /\ PtEntry(q, k, j, l).user => q[BootPdpt][k].user /\ PdEntry(q, k, j).user
    BY DEF LeafLevel
  <2>1. /\ ~PtEntry(pt, k, j, l).huge
        /\ PtEntry(pt, k, j, l).user => pt[BootPdpt][k].user /\ PdEntry(pt, k, j).user
    BY DEF Tree, LeafLevel
  <2>2. PtEntry(q, k, j, l) = PtEntry(pt, k, j, l) /\ PdEntry(q, k, j) = PdEntry(pt, k, j)
    BY <1>8, <1>10 DEF SameLeaves
  <2>3. CASE k = i
    <3>1. ~PdEntry(pt, k, j).user
      BY <2>3, Entries DEF PdEntry
    <3> QED BY <2>1, <2>2, <3>1
  <2>4. CASE k # i
    BY <1>2, <2>1, <2>2, <2>4
  <2> QED BY <2>3, <2>4
<1> QED
  BY <1>2, <1>3, <1>4, <1>5, <1>6, <1>7, <1>9, <1>10, <1>11 DEF Kept, Tree, q

LEMMA BelowFacts ==
  ASSUME NEW e \in EntryType
  PROVE  /\ Below(e) \in Table
         /\ \A k \in Slots :
              Below(e)[k] = IF e.huge THEN Entry(e.to + k, e.user, FALSE) ELSE Absent
<1>1. CASE e.huge
  <2>1. \A k \in Slots : e.to + k \in Nat /\ e.user \in BOOLEAN
    BY DEF EntryType, Slots
  <2> QED
    BY <1>1, <2>1, Entries DEF Below, Table, Slots
<1>2. CASE ~e.huge
  BY <1>2, Entries DEF Below
<1> QED
  BY <1>1, <1>2

Relinked(p, q, R, place, i, j, g, up) ==
  /\ Kept(p, q, R, place)
  /\ PdOf(q, i) = PdOf(p, i)
  /\ PdEntry(q, i, j) = Entry(g, up, FALSE)

\* An entry of a page directory is linked to a new page table; a huge page that
\* was there is split.
LEMMA LinkBottom ==
  ASSUME NEW pt, NEW R, NEW place, Tree(pt, R, place), NEW i \in Slots, NEW j \in Slots,
         PdOf(pt, i) # 0,
         PdEntry(pt, i, j).to = 0 \/ PdEntry(pt, i, j).huge,
         NEW g \in DOMAIN pt, g \in Nat \ {0}, place[g] = Bottom(i, j), NEW up \in BOOLEAN
  PROVE  Relinked(pt, Linking(pt, g, PdOf(pt, i), j, PdEntry(pt, i, j), up),
                  R, place, i, j, g, up)
<1> DEFINE e == PdEntry(pt, i, j)
           pd == PdOf(pt, i)
           q == Linking(pt, g, pd, j, e, up)
<1>1. /\ pd \in DOMAIN pt /\ pt[pd] \in Table /\ place[pd] = Middle(i)
      /\ BootPdpt \in DOMAIN pt /\ place[BootPdpt] = Top /\ DOMAIN place = DOMAIN pt
      /\ e = pt[pd][j] /\ e \in EntryType
      /\ Below(e) \in Table
      /\ \A k \in Slots : Below(e)[k] = IF e.huge THEN Entry(e.to + k, e.user, FALSE) ELSE Absent
  <2>1. e \in EntryType
    BY EntryTypes
  <2> QED
    BY <2>1, BelowFacts, ZenonT(60) DEF Tree, Tables, MiddleLevel, PdEntry
<1>2. pd # g /\ pd # BootPdpt /\ g # BootPdpt
  BY <1>1, Places
<1> HIDE DEF e, pd
<1>3. DOMAIN q = DOMAIN pt
      /\ (\A f \in DOMAIN pt : f # g /\ f # pd => q[f] = pt[f])
      /\ q[g] = Below(e)
      /\ q[pd][j] = Entry(g, up, FALSE)
      /\ (\A k \in Slots : k # j => q[pd][k] = pt[pd][k])
      /\ q[pd] \in Table
  BY <1>1, <1>2, Entries DEF Table, Linking
<1> HIDE DEF q
<1>4. Tables(q, place)
  BY <1>1, <1>3 DEF Tree, Tables
<1>5. \A r \in R : q[r] = pt[r]
  <2> SUFFICES ASSUME NEW r \in R PROVE q[r] = pt[r]
    OBVIOUS
  <2>1. r \in DOMAIN pt /\ place[r] = Root
    BY DEF Tree, TopLevel
  <2>2. r # g /\ r # pd
    BY <1>1, <2>1, Places
  <2> QED BY <1>3, <2>1, <2>2
<1>6. TopLevel(q, R, place)
  BY <1>3, <1>5 DEF Tree, TopLevel
<1>7. q[BootPdpt] = pt[BootPdpt] /\ \A k \in Slots : PdOf(q, k) = PdOf(pt, k)
  BY <1>1, <1>2, <1>3 DEF PdOf
<1>8. MiddleLevel(q, place)
  BY <1>3, <1>7 DEF Tree, MiddleLevel
<1>9. PdEntry(q, i, j) = Entry(g, up, FALSE)
  BY <1>3, <1>7 DEF PdEntry, pd
<1>10. ASSUME NEW k \in Slots, NEW l \in Slots, ~(k = i /\ l = j)
       PROVE  PdEntry(q, k, l) = PdEntry(pt, k, l)
  <2>1. CASE PdOf(pt, k) = 0
    BY <1>7, <2>1 DEF PdEntry
  <2>2. CASE PdOf(pt, k) # 0
    <3>1. PdOf(pt, k) \in DOMAIN pt /\ place[PdOf(pt, k)] = Middle(k)
      BY <2>2 DEF Tree, MiddleLevel
    <3>2. PdOf(pt, k) # g
      BY <3>1, Places
    <3>3. CASE k = i
      <4>1. PdOf(pt, k) = pd /\ l # j
        BY <1>10, <3>3 DEF pd
      <4> QED BY <1>3, <1>7, <2>2, <4>1 DEF PdEntry
    <3>4. CASE k # i
      <4>1. PdOf(pt, k) # pd
        BY <1>1, <3>1, <3>4, Places
      <4> QED BY <1>3, <1>7, <2>2, <3>1, <3>2, <4>1 DEF PdEntry
    <3> QED BY <3>3, <3>4
  <2> QED BY <2>1, <2>2
<1>11. BottomLevel(q, place)
  <2> SUFFICES ASSUME NEW k \in Slots, NEW l \in Slots
               PROVE  LET d == PdEntry(q, k, l)
                      IN  /\ d.huge => ~d.user
                          /\ ~d.huge /\ d.to # 0 => d.to \in DOMAIN q /\ place[d.to] = Bottom(k, l)
    BY DEF BottomLevel
  <2>1. CASE k = i /\ l = j
    BY <1>3, <1>9, <2>1 DEF Entry
  <2>2. CASE ~(k = i /\ l = j)
    BY <1>3, <1>10, <2>2 DEF Tree, BottomLevel
  <2> QED BY <2>1, <2>2
<1>12. ASSUME NEW k \in Slots PROVE PtEntry(q, i, j, k) = PtEntry(pt, i, j, k)
  <2>1. PtEntry(q, i, j, k) = Below(e)[k]
    BY <1>3, <1>9 DEF PtEntry, Entry
  <2>2. CASE e.huge
    <3>1. ~e.user /\ e.user = FALSE
      <4>1. ~e.user
        BY <2>2 DEF Tree, BottomLevel, e
      <4> QED BY <1>1, <4>1 DEF EntryType
    <3> QED
      BY <1>1, <2>1, <2>2, <3>1 DEF PtEntry, e
  <2>3. CASE ~e.huge
    <3>1. e.to = 0
      BY <2>3 DEF e
    <3> QED
      BY <1>1, <2>1, <2>3, <3>1 DEF PtEntry, e
  <2> QED BY <2>2, <2>3
<1>13. ASSUME NEW k \in Slots, NEW l \in Slots, NEW m \in Slots, ~(k = i /\ l = j)
       PROVE  PtEntry(q, k, l, m) = PtEntry(pt, k, l, m)
  <2> DEFINE d == PdEntry(pt, k, l)
  <2>1. PdEntry(q, k, l) = d
    BY <1>10, <1>13
  <2>2. CASE d.huge \/ d.to = 0
    BY <2>1, <2>2 DEF PtEntry
  <2>3. CASE ~d.huge /\ d.to # 0
    <3>1. d.to \in DOMAIN pt /\ place[d.to] = Bottom(k, l)
      BY <2>3 DEF Tree, BottomLevel
    <3>2. d.to # g /\ d.to # pd
      BY <1>1, <1>13, <3>1, Places
    <3> QED BY <1>3, <2>1, <2>3, <3>1, <3>2 DEF PtEntry
  <2> QED BY <2>2, <2>3
<1>14. SameLeaves(pt, q)
  BY <1>12, <1>13 DEF SameLeaves
<1>15. LeafLevel(q)
  <2> SUFFICES ASSUME NEW k \in Slots, NEW l \in Slots, NEW m \in Slots
               PROVE  /\ ~PtEntry(q, k, l, m).huge
                      /\ PtEntry(q, k, l, m).user => q[BootPdpt][k].user /\ PdEntry(q, k, l).user
    BY DEF LeafLevel
  <2>1. /\ ~PtEntry(pt, k, l, m).huge
        /\ PtEntry(pt, k, l, m).user => pt[BootPdpt][k].user /\ PdEntry(pt, k, l).user
        /\ PtEntry(q, k, l, m) = PtEntry(pt, k, l, m)
    BY <1>14 DEF Tree, LeafLevel, SameLeaves
  <2>2. CASE k = i /\ l = j
    <3>1. ~PtEntry(pt, k, l, m).user
      BY <1>1, <2>2, Entries DEF PtEntry, e, Entry
    <3> QED BY <2>1, <3>1
  <2>3. CASE ~(k = i /\ l = j)
    BY <1>7, <1>10, <2>1, <2>3
  <2> QED BY <2>2, <2>3
<1> QED
  BY <1>3, <1>4, <1>5, <1>6, <1>7, <1>8, <1>9, <1>11, <1>14, <1>15 DEF Relinked, Kept, Tree, q, e, pd

\* What SetUser does to the tables.
Marking(pt, t, k, up) == [pt EXCEPT ![t][k].user = @ \/ up]

\* Entries lead where they led, and what was open stays open.
Opened(p, q, R, place) ==
  /\ Tree(q, R, place)
  /\ SameLeaves(p, q)
  /\ DOMAIN q = DOMAIN p
  /\ \A i \in Slots : PdOf(q, i) = PdOf(p, i)
  /\ \A f \in DOMAIN p, l \in Slots :
       /\ q[f][l].to = p[f][l].to /\ q[f][l].huge = p[f][l].huge
       /\ p[f][l].user => q[f][l].user

OpenedAt(p, q, R, place, t, k, up) == Opened(p, q, R, place) /\ (up => q[t][k].user)

\* An entry above the last level is opened to ring 3.
LEMMA Marked ==
  ASSUME NEW pt, NEW R, NEW place, Tree(pt, R, place),
         NEW t \in DOMAIN pt, \A i, j \in Slots : place[t] # Bottom(i, j),
         NEW k \in Slots, ~pt[t][k].huge, NEW up \in BOOLEAN
  PROVE  OpenedAt(pt, Marking(pt, t, k, up), R, place, t, k, up)
<1> DEFINE q == Marking(pt, t, k, up)
<1>1. \A f \in DOMAIN pt : pt[f] \in Table /\ \A l \in Slots : pt[f][l] \in EntryType
  BY DEF Tree, Tables, Table
<1>2. q[t] \in [Slots -> EntryType]
  <2>1. pt[t] \in Table /\ pt[t][k] \in EntryType
    BY <1>1
  <2>2. (pt[t][k].user \/ up) \in BOOLEAN
    OBVIOUS
  <2> QED BY <2>1, <2>2 DEF Table, EntryType, Marking
<1>3. /\ DOMAIN q = DOMAIN pt
      /\ \A f \in DOMAIN pt : q[f] \in Table
      /\ \A f \in DOMAIN pt : f # t => q[f] = pt[f]
      /\ \A l \in Slots : l # k => q[t][l] = pt[t][l]
      /\ q[t][k].to = pt[t][k].to /\ q[t][k].huge = pt[t][k].huge
  BY <1>1, <1>2 DEF Table, EntryType, Marking
<1>4. q[t][k].user <=> (pt[t][k].user \/ up)
  BY <1>1 DEF Table, EntryType, Marking
<1> HIDE DEF q
<1>5. ASSUME NEW f \in DOMAIN pt, NEW l \in Slots
      PROVE  /\ q[f][l].to = pt[f][l].to /\ q[f][l].huge = pt[f][l].huge
             /\ pt[f][l].user => q[f][l].user
  <2>1. CASE f = t /\ l = k
    BY <1>3, <1>4, <2>1
  <2>2. CASE ~(f = t /\ l = k)
    BY <1>3, <2>2
  <2> QED BY <2>1, <2>2
<1>6. ASSUME NEW f \in DOMAIN pt, NEW l \in Slots, pt[f][l].huge
      PROVE  q[f][l] = pt[f][l]
  <2>1. ~(f = t /\ l = k)
    BY <1>6
  <2> QED BY <1>3, <2>1
<1>7. Tables(q, place)
  BY <1>3 DEF Tree, Tables
<1>8. TopLevel(q, R, place)
  BY <1>3, <1>5, Sizes DEF Tree, TopLevel
<1>9. BootPdpt \in DOMAIN pt
  BY DEF Tree, Tables
<1>10. ASSUME NEW i \in Slots
       PROVE  /\ PdOf(q, i) = PdOf(pt, i)
              /\ q[BootPdpt][i].huge = pt[BootPdpt][i].huge
              /\ pt[BootPdpt][i].user => q[BootPdpt][i].user
  BY <1>5, <1>9 DEF PdOf
<1>11. MiddleLevel(q, place)
  BY <1>3, <1>10 DEF Tree, MiddleLevel
<1>12. ASSUME NEW i \in Slots, NEW j \in Slots
       PROVE  /\ PdEntry(q, i, j).to = PdEntry(pt, i, j).to
              /\ PdEntry(q, i, j).huge = PdEntry(pt, i, j).huge
              /\ PdEntry(pt, i, j).user => PdEntry(q, i, j).user
              /\ PdEntry(pt, i, j).huge => PdEntry(q, i, j) = PdEntry(pt, i, j)
  <2>1. PdOf(q, i) = PdOf(pt, i)
    BY <1>10
  <2>2. CASE PdOf(pt, i) = 0
    BY <2>1, <2>2 DEF PdEntry
  <2>3. CASE PdOf(pt, i) # 0
    <3>1. PdOf(pt, i) \in DOMAIN pt
      BY <2>3 DEF Tree, MiddleLevel
    <3>2. PdEntry(q, i, j) = q[PdOf(pt, i)][j] /\ PdEntry(pt, i, j) = pt[PdOf(pt, i)][j]
      BY <2>1, <2>3 DEF PdEntry
    <3> QED BY <1>5, <1>6, <3>1, <3>2
  <2> QED BY <2>2, <2>3
<1>13. BottomLevel(q, place)
  <2> SUFFICES ASSUME NEW i \in Slots, NEW j \in Slots
               PROVE  LET d == PdEntry(q, i, j)
                      IN  /\ d.huge => ~d.user
                          /\ ~d.huge /\ d.to # 0 => d.to \in DOMAIN q /\ place[d.to] = Bottom(i, j)
    BY DEF BottomLevel
  <2>1. LET d == PdEntry(pt, i, j)
        IN  /\ d.huge => ~d.user
            /\ ~d.huge /\ d.to # 0 => d.to \in DOMAIN pt /\ place[d.to] = Bottom(i, j)
    BY DEF Tree, BottomLevel
  <2> QED BY <1>3, <1>12, <2>1
<1>14. SameLeaves(pt, q)
  <2> SUFFICES ASSUME NEW i \in Slots, NEW j \in Slots, NEW l \in Slots
               PROVE  PtEntry(q, i, j, l) = PtEntry(pt, i, j, l)
    BY DEF SameLeaves
  <2> DEFINE e == PdEntry(pt, i, j)
  <2>1. PdEntry(q, i, j).to = e.to /\ PdEntry(q, i, j).huge = e.huge
    BY <1>12
  <2>2. CASE e.huge \/ e.to = 0
    BY <2>1, <2>2 DEF PtEntry
  <2>3. CASE ~e.huge /\ e.to # 0
    <3>1. e.to \in DOMAIN pt /\ place[e.to] = Bottom(i, j)
      BY <2>3 DEF Tree, BottomLevel
    <3>2. e.to # t
      BY <3>1
    <3> QED BY <1>3, <2>1, <2>3, <3>1, <3>2 DEF PtEntry
  <2> QED BY <2>2, <2>3
<1>15. LeafLevel(q)
  <2> SUFFICES ASSUME NEW i \in Slots, NEW j \in Slots, NEW l \in Slots
               PROVE  /\ ~PtEntry(q, i, j, l).huge
                      /\ PtEntry(q, i, j, l).user => q[BootPdpt][i].user /\ PdEntry(q, i, j).user
    BY DEF LeafLevel
  <2>1. /\ ~PtEntry(pt, i, j, l).huge
        /\ PtEntry(pt, i, j, l).user => pt[BootPdpt][i].user /\ PdEntry(pt, i, j).user
        /\ PtEntry(q, i, j, l) = PtEntry(pt, i, j, l)
    BY <1>14 DEF Tree, LeafLevel, SameLeaves
  <2> QED BY <1>10, <1>12, <2>1
<1> QED
  BY <1>3, <1>4, <1>5, <1>7, <1>8, <1>10, <1>11, <1>13, <1>14, <1>15 DEF OpenedAt, Opened, Tree, q

\* What SetLeaf does to the tables.
Setting(pt, t, k, f, up) == [pt EXCEPT ![t][k] = Entry(f, up, FALSE)]

\* Of all leaves one has changed.
Replaced(p, q, R, place, i, j, k, f, up) ==
  /\ Tree(q, R, place) /\ DOMAIN q = DOMAIN p
  /\ \A r \in R : q[r] = p[r]
  /\ PtEntry(q, i, j, k) = Entry(f, up, FALSE)
  /\ \A a, b, c \in Slots :
       ~(a = i /\ b = j /\ c = k) => PtEntry(q, a, b, c) = PtEntry(p, a, b, c)

\* An entry of a page table is written, the way to it open to ring 3.
LEMMA LeafSet ==
  ASSUME NEW pt, NEW R, NEW place, Tree(pt, R, place),
         NEW i \in Slots, NEW j \in Slots, NEW k \in Slots,
         PdEntry(pt, i, j).to # 0, ~PdEntry(pt, i, j).huge,
         pt[BootPdpt][i].user, PdEntry(pt, i, j).user,
         NEW f \in Nat, NEW up \in BOOLEAN
  PROVE  Replaced(pt, Setting(pt, PdEntry(pt, i, j).to, k, f, up), R, place, i, j, k, f, up)
<1> DEFINE t == PdEntry(pt, i, j).to
           q == Setting(pt, t, k, f, up)
<1>1. /\ t \in DOMAIN pt /\ place[t] = Bottom(i, j) /\ pt[t] \in Table
      /\ BootPdpt \in DOMAIN pt /\ place[BootPdpt] = Top
  BY DEF Tree, Tables, BottomLevel
<1> HIDE DEF t
<1>2. /\ DOMAIN q = DOMAIN pt
      /\ \A g \in DOMAIN pt : g # t => q[g] = pt[g]
      /\ q[t][k] = Entry(f, up, FALSE)
      /\ \A l \in Slots : l # k => q[t][l] = pt[t][l]
      /\ q[t] \in Table
  BY <1>1, Entries, ZenonT(60) DEF Table, Setting
<1> HIDE DEF q
<1>3. Tables(q, place)
  BY <1>2 DEF Tree, Tables
<1>4. ASSUME NEW r \in R PROVE r \in DOMAIN pt /\ q[r] = pt[r]
  BY <1>1, <1>2, Places DEF Tree, TopLevel
<1>5. TopLevel(q, R, place)
  BY <1>2, <1>4 DEF Tree, TopLevel
<1>6. BootPdpt # t
  BY <1>1, Places
<1>7. q[BootPdpt] = pt[BootPdpt] /\ \A a \in Slots : PdOf(q, a) = PdOf(pt, a)
  BY <1>1, <1>2, <1>6 DEF PdOf
<1>8. MiddleLevel(q, place)
  BY <1>2, <1>7 DEF Tree, MiddleLevel
<1>9. ASSUME NEW a \in Slots, NEW b \in Slots PROVE PdEntry(q, a, b) = PdEntry(pt, a, b)
  <2>1. CASE PdOf(pt, a) = 0
    BY <1>7, <2>1 DEF PdEntry
  <2>2. CASE PdOf(pt, a) # 0
    <3>1. PdOf(pt, a) \in DOMAIN pt /\ place[PdOf(pt, a)] = Middle(a)
      BY <2>2 DEF Tree, MiddleLevel
    <3>2. PdOf(pt, a) # t
      BY <1>1, <3>1, Places
    <3> QED BY <1>2, <1>7, <2>2, <3>1, <3>2 DEF PdEntry
  <2> QED BY <2>1, <2>2
<1>10. BottomLevel(q, place)
  BY <1>2, <1>9 DEF Tree, BottomLevel
<1>11. PtEntry(q, i, j, k) = Entry(f, up, FALSE)
  <2>1. PdEntry(q, i, j).to = t /\ t # 0 /\ ~PdEntry(q, i, j).huge
    BY <1>9 DEF t
  <2> QED BY <1>2, <2>1 DEF PtEntry
<1>12. ASSUME NEW a \in Slots, NEW b \in Slots, NEW c \in Slots, ~(a = i /\ b = j /\ c = k)
       PROVE  PtEntry(q, a, b, c) = PtEntry(pt, a, b, c)
  <2> DEFINE d == PdEntry(pt, a, b)
  <2>1. PdEntry(q, a, b) = d
    BY <1>9
  <2>2. CASE d.huge \/ d.to = 0
    BY <2>1, <2>2 DEF PtEntry
  <2>3. CASE ~d.huge /\ d.to # 0
    <3>1. d.to \in DOMAIN pt /\ place[d.to] = Bottom(a, b)
      BY <2>3 DEF Tree, BottomLevel
    <3>2. CASE a = i /\ b = j
      <4>1. d.to = t /\ c # k
        BY <1>12, <3>2 DEF t
      <4> QED BY <1>2, <2>1, <2>3, <4>1 DEF PtEntry
    <3>3. CASE ~(a = i /\ b = j)
      <4>1. d.to # t
        BY <1>1, <3>1, <3>3, Places
      <4> QED BY <1>2, <2>1, <2>3, <3>1, <4>1 DEF PtEntry
    <3> QED BY <3>2, <3>3
  <2> QED BY <2>2, <2>3
<1>13. LeafLevel(q)
  <2> SUFFICES ASSUME NEW a \in Slots, NEW b \in Slots, NEW c \in Slots
               PROVE  /\ ~PtEntry(q, a, b, c).huge
                      /\ PtEntry(q, a, b, c).user => q[BootPdpt][a].user /\ PdEntry(q, a, b).user
    BY DEF LeafLevel
  <2>1. CASE a = i /\ b = j /\ c = k
    BY <1>7, <1>9, <1>11, <2>1 DEF Entry
  <2>2. CASE ~(a = i /\ b = j /\ c = k)
    <3>1. PtEntry(q, a, b, c) = PtEntry(pt, a, b, c)
      BY <1>12, <2>2
    <3> QED BY <1>7, <1>9, <3>1 DEF Tree, LeafLevel
  <2> QED BY <2>1, <2>2
<1> QED
  BY <1>2, <1>3, <1>4, <1>5, <1>8, <1>10, <1>11, <1>12, <1>13 DEF Replaced, Tree, q, t

-----------------------------------------------------------------------------
(* The memory *)

Fields == {"pt", "mem", "free", "last", "got", "err", "astray"}

\* With R the top levels in use: the tables are a tree, and the frames to be
\* handed out are frames of memory and no tables.
Good(s, R, place) ==
  /\ DOMAIN s = Fields
  /\ Tree(s.pt, R, place)
  /\ s.free \subseteq MemFrames
  /\ s.free \cap DOMAIN s.pt = {}

\* What no step takes back: frames handed out, tables and what is written in
\* frames that are in use, the way of ring 3 into the tree, and going astray.
Grown(s, t, R) ==
  /\ t.free \subseteq s.free
  /\ DOMAIN s.pt \subseteq DOMAIN t.pt
  /\ DOMAIN t.pt \subseteq DOMAIN s.pt \cup (s.free \ t.free)
  /\ \A f \in DOMAIN s.mem \ s.free : f \in DOMAIN t.mem /\ t.mem[f] = s.mem[f]
  /\ s.astray => t.astray
  /\ \A r \in R : s.pt[r][0].user => t.pt[r][0].user

LEMMA GrownTwice ==
  ASSUME NEW s, NEW t, NEW u, NEW R, Grown(s, t, R), Grown(t, u, R)
  PROVE  Grown(s, u, R)
<1>1. u.free \subseteq s.free /\ DOMAIN s.pt \subseteq DOMAIN u.pt
      /\ DOMAIN u.pt \subseteq DOMAIN s.pt \cup (s.free \ u.free)
  BY DEF Grown
<1>2. \A f \in DOMAIN s.mem \ s.free : f \in DOMAIN u.mem /\ u.mem[f] = s.mem[f]
  BY DEF Grown
<1> QED
  BY <1>1, <1>2 DEF Grown

LEMMA Frames ==
  ASSUME NEW f \in MemFrames
  PROVE  f \in Nat \ {0} /\ f # KernelPml4 /\ f # BootPdpt /\ f # BootPd
<1>1. f \in (BootPd + 1) .. (N * N - 1) /\ N * N \in Nat
  BY LayoutAssumption, Sizes
<1> QED
  BY <1>1 DEF KernelPml4, BootPdpt, BootPd

\* Nothing but astray.
SameBut(s, t) ==
  /\ DOMAIN t = Fields
  /\ t.pt = s.pt /\ t.mem = s.mem /\ t.free = s.free /\ t.got = s.got
  /\ t.err = s.err
  /\ s.astray => t.astray

LEMMA TouchedAll ==
  ASSUME NEW s, DOMAIN s = Fields, NEW F
  PROVE  SameBut(s, TouchAll(s, F))
BY DEF TouchAll, SameBut, Fields

LEMMA Touched ==
  ASSUME NEW s, DOMAIN s = Fields, NEW f
  PROVE  LET t == Touch(s, f)
         IN  /\ DOMAIN t = Fields
             /\ t.pt = s.pt /\ t.mem = s.mem /\ t.free = s.free /\ t.got = s.got
             /\ t.err = s.err
             /\ s.astray => t.astray
BY TouchedAll DEF Touch, SameBut

\* pmm_alloc takes a free frame unless there is none.
LEMMA Allocated ==
  ASSUME NEW s, DOMAIN s = Fields, s.free \subseteq MemFrames
  PROVE  LET a == pmm_alloc(s)
         IN  /\ DOMAIN a = Fields
             /\ a.pt = s.pt /\ a.mem = s.mem /\ a.astray = s.astray
             /\ \/ a.err /\ a.free = s.free
                \/ a.err = s.err /\ a.got \in s.free /\ a.free = s.free \ {a.got}
<1> DEFINE ahead == {f \in s.free : f >= s.last}
           T == IF ahead # {} THEN ahead ELSE s.free
           a == pmm_alloc(s)
<1>1. CASE s.free = {}
  <2>1. a = [s EXCEPT !.err = TRUE]
    BY <1>1 DEF pmm_alloc
  <2> QED BY <2>1 DEF Fields
<1>2. CASE s.free # {}
  <2>1. T \subseteq Nat /\ T # {} /\ T \subseteq s.free
    BY <1>2, Frames
  <2> HIDE DEF T
  <2>2. Min(T) \in s.free
    BY <2>1, Least
  <2>3. a = [s EXCEPT !.got = Min(T), !.free = s.free \ {Min(T)}, !.last = Min(T) + 1]
    BY <1>2 DEF pmm_alloc, T
  <2> QED BY <2>2, <2>3 DEF Fields
<1> QED
  BY <1>1, <1>2

LEMMA PutFacts ==
  ASSUME NEW f, NEW k, NEW v
  PROVE  /\ DOMAIN Put(f, k, v) = DOMAIN f \cup {k}
         /\ Put(f, k, v)[k] = v
         /\ \A x \in DOMAIN f : x # k => Put(f, k, v)[x] = f[x]
BY DEF Put

\* A table is a frame that was free; nothing leads to it yet.
LEMMA TableAllocated ==
  ASSUME NEW s, NEW R, NEW place, Good(s, R, place), ~s.err, NEW at
  PROVE  LET a == alloc_table(s)
             there == Put(place, a.got, at)
         IN  /\ DOMAIN a = Fields
             /\ \/ /\ a.err /\ a.free = s.free /\ a.pt = s.pt
                   /\ Good(a, R, place) /\ Grown(s, a, R)
                \/ /\ a.got \in s.free /\ a.got \notin a.free /\ a.free \subseteq s.free
                   /\ a.pt = Put(s.pt, a.got, EmptyTable)
                   /\ Good(a, R, there) /\ Grown(s, a, R)
<1> DEFINE a == pmm_alloc(s)
           b == alloc_table(s)
<1>1. DOMAIN s = Fields /\ s.free \subseteq MemFrames /\ ~s.err
  BY DEF Good
<1>2. /\ DOMAIN a = Fields
      /\ a.pt = s.pt /\ a.mem = s.mem /\ a.astray = s.astray
      /\ \/ a.err /\ a.free = s.free
         \/ a.err = s.err /\ a.got \in s.free /\ a.free = s.free \ {a.got}
  BY <1>1, Allocated
<1>3. CASE a.err /\ a.free = s.free
  <2>1. b = a
    BY <1>3 DEF alloc_table
  <2>2. Good(a, R, place)
    BY <1>2, <1>3 DEF Good
  <2>3. Grown(s, a, R)
    BY <1>2, <1>3 DEF Grown
  <2> QED BY <1>2, <1>3, <2>1, <2>2, <2>3
<1>4. CASE ~a.err
  <2> HIDE DEF a
  <2> DEFINE c == Touch(a, a.got)
             g == a.got
             there == Put(place, g, at)
  <2>1. b = [c EXCEPT !.pt = Put(@, g, EmptyTable), !.mem = Put(@, g, KernelTag("table"))]
    BY <1>4 DEF alloc_table, a
  <2>2. /\ DOMAIN c = Fields
        /\ c.pt = s.pt /\ c.mem = s.mem /\ c.free = a.free /\ c.got = g
        /\ s.astray => c.astray
    BY <1>2, Touched
  <2> HIDE DEF c
  <2>3. /\ DOMAIN b = Fields
        /\ b.pt = Put(s.pt, g, EmptyTable) /\ b.mem = Put(s.mem, g, KernelTag("table"))
        /\ b.free = a.free /\ b.got = g
        /\ s.astray => b.astray
    BY <2>1, <2>2 DEF Fields
  <2>4. g \in s.free /\ a.free = s.free \ {g}
    BY <1>2, <1>4
  <2> HIDE DEF b, g
  <2>5. Tree(s.pt, R, place) /\ g \notin DOMAIN s.pt
    BY <2>4 DEF Good
  <2>6. /\ Tree(b.pt, R, there) /\ DOMAIN b.pt = DOMAIN s.pt \cup {g}
        /\ \A f \in DOMAIN s.pt : b.pt[f] = s.pt[f]
    BY <2>3, <2>5, Loose
  <2>7. Good(b, R, there)
    BY <1>1, <2>3, <2>4, <2>6 DEF Good
  <2>8. \A f \in DOMAIN s.mem \ s.free : f \in DOMAIN b.mem /\ b.mem[f] = s.mem[f]
    <3> SUFFICES ASSUME NEW f \in DOMAIN s.mem \ s.free
                 PROVE  f \in DOMAIN b.mem /\ b.mem[f] = s.mem[f]
      OBVIOUS
    <3>1. f # g /\ f \in DOMAIN s.mem
      BY <2>4
    <3> QED BY <2>3, <3>1 DEF Put
  <2>9. \A r \in R : s.pt[r][0].user => b.pt[r][0].user
    BY <2>5, <2>6 DEF Tree, TopLevel
  <2>10. Grown(s, b, R)
    BY <2>3, <2>4, <2>6, <2>8, <2>9 DEF Grown
  <2> QED BY <2>3, <2>4, <2>7, <2>10 DEF b
<1> QED
  BY <1>2, <1>3, <1>4

-----------------------------------------------------------------------------
(* The descent of vmm_map_page *)

LEMMA Refl ==
  ASSUME NEW s, NEW R
  PROVE  Grown(s, s, R) /\ SameLeaves(s.pt, s.pt)
BY DEF Grown, SameLeaves

AtTop(s, t, R, place) ==
  /\ Good(t, R, place) /\ Grown(s, t, R) /\ t.pt = s.pt
  /\ Stopped(s) => t = s
  /\ ~Stopped(t) => t.got = BootPdpt

\* From a top level to the page directory pointer table, which is there.
LEMMA DescendTop ==
  ASSUME NEW s, NEW R, NEW place, Good(s, R, place), NEW r \in R, NEW up
  PROVE  AtTop(s, Descend(s, r, 0, up), R, place)
<1> DEFINE t == Descend(s, r, 0, up)
           c == Touch(s, r)
<1>1. s.pt[r][0].to = BootPdpt /\ ~s.pt[r][0].huge /\ BootPdpt # 0
  BY DEF Good, Tree, TopLevel, BootPdpt
<1>2. CASE Stopped(s)
  <2>1. t = s
    BY <1>2 DEF Descend
  <2> QED BY <1>2, <2>1, Refl DEF AtTop
<1>3. CASE ~Stopped(s)
  <2>1. t = [c EXCEPT !.got = BootPdpt]
    <3>1. t = Follow(s, r, BootPdpt)
      BY <1>1, <1>3 DEF Descend
    <3> QED BY <3>1 DEF Follow
  <2>2. /\ DOMAIN c = Fields /\ c.pt = s.pt /\ c.mem = s.mem /\ c.free = s.free
        /\ s.astray => c.astray
    BY Touched DEF Good
  <2> HIDE DEF c
  <2>3. /\ DOMAIN t = Fields /\ t.pt = s.pt /\ t.mem = s.mem /\ t.free = s.free
        /\ s.astray => t.astray
        /\ t.got = BootPdpt
    BY <2>1, <2>2 DEF Fields
  <2> HIDE DEF t
  <2>4. Good(t, R, place)
    BY <2>3 DEF Good
  <2>5. Grown(s, t, R)
    BY <2>3 DEF Grown
  <2> QED BY <1>3, <2>3, <2>4, <2>5 DEF t, AtTop
<1> QED
  BY <1>2, <1>3

\* On the way down from table t by its entry i, an entry that leads on is
\* followed; otherwise a table is made and linked, unless that fails.
Outcome(s, d, R, place, t, i, up, at) ==
  LET e == s.pt[t][i]
  IN  \/ Stopped(s) /\ d = s
      \/ /\ ~Stopped(s) /\ e.to # 0 /\ ~e.huge
         /\ Good(d, R, place) /\ Grown(s, d, R) /\ d.pt = s.pt /\ d.got = e.to
      \/ /\ ~Stopped(s) /\ (e.to = 0 \/ e.huge)
         /\ \/ /\ Stopped(d) /\ d.pt = s.pt
               /\ Good(d, R, place) /\ Grown(s, d, R)
            \/ /\ Stopped(d)
               /\ d.got \in s.free /\ d.pt = Put(s.pt, d.got, EmptyTable)
               /\ Good(d, R, Put(place, d.got, at)) /\ Grown(s, d, R)
            \/ \E a :
                 /\ a.got \in s.free /\ a.pt = Put(s.pt, a.got, EmptyTable)
                 /\ Good(a, R, Put(place, a.got, at)) /\ Grown(s, a, R)
                 /\ d = Link(a, t, i, e, up)

LEMMA DescendCases ==
  ASSUME NEW s, NEW R, NEW place, Good(s, R, place), NEW t, NEW i, NEW up, NEW at
  PROVE  Outcome(s, Descend(s, t, i, up), R, place, t, i, up, at)
<1> DEFINE e == s.pt[t][i]
           d == Descend(s, t, i, up)
           c == Touch(s, t)
           a == alloc_table(c)
<1>1. CASE Stopped(s)
  <2>1. d = s
    BY <1>1 DEF Descend
  <2> QED BY <1>1, <2>1 DEF Outcome
<1>2. /\ DOMAIN c = Fields /\ c.pt = s.pt /\ c.mem = s.mem /\ c.free = s.free
      /\ s.astray => c.astray
      /\ c.err = s.err
  BY Touched DEF Good
<1>3. CASE ~Stopped(s) /\ e.to # 0 /\ ~e.huge
  <2>1. d = [c EXCEPT !.got = e.to]
    <3>1. d = Follow(s, t, e.to)
      BY <1>3 DEF Descend
    <3> QED BY <3>1 DEF Follow
  <2> HIDE DEF c
  <2>2. /\ DOMAIN d = Fields /\ d.pt = s.pt /\ d.mem = s.mem /\ d.free = s.free
        /\ s.astray => d.astray
        /\ d.got = e.to
    BY <1>2, <2>1 DEF Fields
  <2> HIDE DEF d
  <2>3. Good(d, R, place)
    BY <2>2 DEF Good
  <2>4. Grown(s, d, R)
    BY <2>2 DEF Grown
  <2> QED BY <1>3, <2>2, <2>3, <2>4 DEF d, Outcome
<1>4. CASE ~Stopped(s) /\ (e.to = 0 \/ e.huge)
  <2>1. d = IF Stopped(a) THEN a
            ELSE Link(a, t, i, e, up)
    BY <1>4 DEF Descend
  <2> HIDE DEF c
  <2>2. Good(c, R, place) /\ Grown(s, c, R)
    BY <1>2 DEF Good, Grown
  <2>3. ~c.err
    BY <1>2, <1>4 DEF Stopped
  <2>4. /\ DOMAIN a = Fields
        /\ \/ /\ a.err /\ a.free = c.free /\ a.pt = c.pt
              /\ Good(a, R, place) /\ Grown(c, a, R)
           \/ /\ a.got \in c.free /\ a.got \notin a.free /\ a.free \subseteq c.free
              /\ a.pt = Put(c.pt, a.got, EmptyTable)
              /\ Good(a, R, Put(place, a.got, at)) /\ Grown(c, a, R)
    BY <2>2, <2>3, TableAllocated
  <2> HIDE DEF a, d
  <2>5. Grown(s, a, R)
    BY <2>2, <2>4, GrownTwice
  <2>6. CASE a.err /\ a.pt = c.pt /\ Good(a, R, place)
    <3>1. Stopped(a) /\ d = a
      BY <2>1, <2>6 DEF Stopped
    <3> QED BY <1>2, <1>4, <2>5, <2>6, <3>1 DEF d, Outcome
  <2>7. CASE /\ a.got \in c.free /\ a.pt = Put(c.pt, a.got, EmptyTable)
             /\ Good(a, R, Put(place, a.got, at))
    <3>1. CASE Stopped(a)
      <4>1. d = a
        BY <2>1, <3>1
      <4> QED BY <1>2, <1>4, <2>5, <2>7, <3>1, <4>1 DEF d, Outcome
    <3>2. CASE ~Stopped(a)
      <4>1. d = Link(a, t, i, e, up)
        BY <2>1, <3>2
      <4>2. a.got \in s.free /\ a.pt = Put(s.pt, a.got, EmptyTable)
        BY <1>2, <2>7
      <4> QED BY <1>4, <2>5, <2>7, <4>1, <4>2 DEF d, Outcome
    <3> QED BY <3>1, <3>2
  <2> QED BY <2>4, <2>6, <2>7
<1> QED
  BY <1>1, <1>3, <1>4

LEMMA LinkFacts ==
  ASSUME NEW a, DOMAIN a = Fields, NEW t, NEW i, NEW e, NEW up
  PROVE  LET d == Link(a, t, i, e, up)
         IN  /\ DOMAIN d = Fields
             /\ d.pt = Linking(a.pt, a.got, t, i, e, up)
             /\ d.mem = a.mem /\ d.free = a.free /\ d.astray = a.astray /\ d.err = a.err
             /\ d.got = a.got
BY DEF Link, Fields, Linking

\* A step that links a table is as good as the one that made it.
LEMMA Linked ==
  ASSUME NEW s, NEW a, NEW d, NEW R, NEW place, Good(a, R, place), Grown(s, a, R),
         DOMAIN d = Fields, d.mem = a.mem, d.free = a.free, d.astray = a.astray,
         Tree(d.pt, R, place), DOMAIN d.pt = DOMAIN a.pt, \A r \in R : d.pt[r] = a.pt[r]
  PROVE  Good(d, R, place) /\ Grown(s, d, R)
<1>1. Good(d, R, place)
  BY DEF Good
<1>2. Grown(s, d, R)
  BY DEF Grown
<1> QED BY <1>1, <1>2

LEMMA SameLeavesTwice ==
  ASSUME NEW p, NEW q, NEW r, SameLeaves(p, q), SameLeaves(q, r)
  PROVE  SameLeaves(p, r)
BY DEF SameLeaves

\* To the page directory below entry i.
LEMMA DescendMiddle ==
  ASSUME NEW s, NEW R, NEW place, Good(s, R, place), NEW i \in Slots, NEW up \in BOOLEAN
  PROVE  LET d == Descend(s, BootPdpt, i, up)
         IN  /\ \E there : Good(d, R, there)
             /\ Grown(s, d, R) /\ SameLeaves(s.pt, d.pt)
             /\ Stopped(s) => d = s
             /\ ~Stopped(d) => d.got = PdOf(d.pt, i) /\ d.got # 0
<1> DEFINE d == Descend(s, BootPdpt, i, up)
           e == s.pt[BootPdpt][i]
<1>1. Tree(s.pt, R, place) /\ ~e.huge /\ e.to = PdOf(s.pt, i)
  BY DEF Good, Tree, MiddleLevel, PdOf
<1>2. Outcome(s, d, R, place, BootPdpt, i, up, Middle(i))
  BY DescendCases
<1> HIDE DEF d, e
<1>3. \A g \in s.free : g \notin DOMAIN s.pt /\ g \in Nat \ {0}
  BY Frames DEF Good
<1>4. CASE Stopped(s) /\ d = s
  BY <1>4, Refl DEF d
<1>5. CASE /\ ~Stopped(s) /\ e.to # 0
           /\ Good(d, R, place) /\ Grown(s, d, R) /\ d.pt = s.pt /\ d.got = e.to
  BY <1>1, <1>5, Refl DEF d
<1>6. CASE ~Stopped(s) /\ Stopped(d) /\ d.pt = s.pt /\ Good(d, R, place) /\ Grown(s, d, R)
  BY <1>6, Refl DEF d
<1>7. CASE /\ ~Stopped(s) /\ Stopped(d) /\ d.got \in s.free /\ d.pt = Put(s.pt, d.got, EmptyTable)
           /\ Good(d, R, Put(place, d.got, Middle(i))) /\ Grown(s, d, R)
  <2>1. d.got \notin DOMAIN s.pt
    BY <1>3, <1>7
  <2>2. Beside(s.pt, Put(s.pt, d.got, EmptyTable), d.got)
    BY <1>1, <2>1, LooseLeaves
  <2>3. SameLeaves(s.pt, d.pt)
    BY <1>7, <2>2 DEF Beside
  <2> QED BY <1>7, <2>3 DEF d
<1>8. CASE /\ ~Stopped(s) /\ e.to = 0
           /\ \E a :
                 /\ a.got \in s.free /\ a.pt = Put(s.pt, a.got, EmptyTable)
                 /\ Good(a, R, Put(place, a.got, Middle(i))) /\ Grown(s, a, R)
                 /\ d = Link(a, BootPdpt, i, e, up)
  <2>1. PICK a : /\ a.got \in s.free /\ a.pt = Put(s.pt, a.got, EmptyTable)
                 /\ Good(a, R, Put(place, a.got, Middle(i))) /\ Grown(s, a, R)
                 /\ d = Link(a, BootPdpt, i, e, up)
    BY <1>8
  <2> DEFINE g == a.got
             there == Put(place, g, Middle(i))
  <2>2. g \notin DOMAIN s.pt /\ g \in Nat \ {0}
    BY <1>3, <2>1
  <2>3. /\ g \in DOMAIN a.pt /\ a.pt[g] = EmptyTable /\ there[g] = Middle(i)
        /\ a.pt[BootPdpt][i] = e
        /\ SameLeaves(s.pt, a.pt)
    <3> DEFINE q == Put(s.pt, g, EmptyTable)
    <3>1. Beside(s.pt, q, g)
      BY <1>1, <2>2, LooseLeaves
    <3>2. there[g] = Middle(i)
      BY DEF Put
    <3> QED BY <2>1, <3>1, <3>2 DEF e, Beside
  <2>4. Tree(a.pt, R, there) /\ DOMAIN a = Fields
    BY <2>1 DEF Good
  <2>5. PdOf(a.pt, i) = 0
    BY <1>8, <2>3 DEF PdOf
  <2>7. /\ DOMAIN d = Fields /\ d.got = g
        /\ d.pt = Linking(a.pt, g, BootPdpt, i, a.pt[BootPdpt][i], up)
        /\ d.mem = a.mem /\ d.free = a.free /\ d.astray = a.astray
    BY <2>1, <2>3, <2>4, LinkFacts
  <2> HIDE DEF g, there
  <2>8. /\ Tree(d.pt, R, there) /\ SameLeaves(a.pt, d.pt) /\ DOMAIN d.pt = DOMAIN a.pt
        /\ PdOf(d.pt, i) = g
        /\ \A r \in R : d.pt[r] = a.pt[r]
    BY <2>2, <2>3, <2>4, <2>5, <2>7, LinkMiddle DEF Kept
  <2>9. Good(a, R, there) /\ Grown(s, a, R)
    BY <2>1 DEF g, there
  <2>10. Good(d, R, there) /\ Grown(s, d, R)
    BY <2>7, <2>8, <2>9, Linked
  <2>11. SameLeaves(s.pt, d.pt)
    BY <2>3, <2>8, SameLeavesTwice
  <2>12. d.got = PdOf(d.pt, i) /\ d.got # 0
    BY <2>2, <2>7, <2>8
  <2> QED BY <1>8, <2>10, <2>11, <2>12 DEF d
<1> QED
  BY <1>1, <1>2, <1>4, <1>5, <1>6, <1>7, <1>8 DEF d, e, Outcome

\* To the page table below entry j of the directory.
LEMMA DescendBottom ==
  ASSUME NEW s, NEW R, NEW place, Good(s, R, place), NEW i \in Slots, NEW j \in Slots,
         NEW up \in BOOLEAN, ~Stopped(s) => PdOf(s.pt, i) # 0
  PROVE  LET d == Descend(s, PdOf(s.pt, i), j, up)
         IN  /\ \E there : Good(d, R, there)
             /\ Grown(s, d, R) /\ SameLeaves(s.pt, d.pt)
             /\ Stopped(s) => d = s
             /\ ~Stopped(d) => /\ PdOf(d.pt, i) = PdOf(s.pt, i) /\ PdOf(s.pt, i) # 0
                               /\ d.got = PdEntry(d.pt, i, j).to /\ d.got # 0
                               /\ ~PdEntry(d.pt, i, j).huge
<1> DEFINE pd == PdOf(s.pt, i)
           d == Descend(s, pd, j, up)
           e == s.pt[pd][j]
<1>1. Tree(s.pt, R, place)
  BY DEF Good
<1>2. Outcome(s, d, R, place, pd, j, up, Bottom(i, j))
  BY DescendCases
<1>3. ~Stopped(s) => PdEntry(s.pt, i, j) = e /\ pd # 0
  BY DEF PdEntry
<1> HIDE DEF d, e, pd
<1>4. \A g \in s.free : g \notin DOMAIN s.pt /\ g \in Nat \ {0}
  BY Frames DEF Good
<1>5. CASE Stopped(s) /\ d = s
  BY <1>5, Refl DEF d, pd
<1>6. CASE /\ ~Stopped(s) /\ e.to # 0 /\ ~e.huge
           /\ Good(d, R, place) /\ Grown(s, d, R) /\ d.pt = s.pt /\ d.got = e.to
  BY <1>3, <1>6, Refl DEF d, pd
<1>7. CASE ~Stopped(s) /\ Stopped(d) /\ d.pt = s.pt /\ Good(d, R, place) /\ Grown(s, d, R)
  BY <1>7, Refl DEF d, pd
<1>8. CASE /\ ~Stopped(s) /\ Stopped(d) /\ d.got \in s.free /\ d.pt = Put(s.pt, d.got, EmptyTable)
           /\ Good(d, R, Put(place, d.got, Bottom(i, j))) /\ Grown(s, d, R)
  <2>1. d.got \notin DOMAIN s.pt
    BY <1>4, <1>8
  <2>2. Beside(s.pt, Put(s.pt, d.got, EmptyTable), d.got)
    BY <1>1, <2>1, LooseLeaves
  <2>3. SameLeaves(s.pt, d.pt)
    BY <1>8, <2>2 DEF Beside
  <2> QED BY <1>8, <2>3 DEF d, pd
<1>9. CASE /\ ~Stopped(s) /\ (e.to = 0 \/ e.huge)
           /\ \E a :
                 /\ a.got \in s.free /\ a.pt = Put(s.pt, a.got, EmptyTable)
                 /\ Good(a, R, Put(place, a.got, Bottom(i, j))) /\ Grown(s, a, R)
                 /\ d = Link(a, pd, j, e, up)
  <2>1. PICK a : /\ a.got \in s.free /\ a.pt = Put(s.pt, a.got, EmptyTable)
                 /\ Good(a, R, Put(place, a.got, Bottom(i, j))) /\ Grown(s, a, R)
                 /\ d = Link(a, pd, j, e, up)
    BY <1>9
  <2> DEFINE g == a.got
             there == Put(place, g, Bottom(i, j))
  <2>2. g \notin DOMAIN s.pt /\ g \in Nat \ {0}
    BY <1>4, <2>1
  <2>3. /\ g \in DOMAIN a.pt /\ there[g] = Bottom(i, j)
        /\ a.pt[BootPdpt][i] = s.pt[BootPdpt][i]
        /\ PdEntry(a.pt, i, j) = PdEntry(s.pt, i, j)
        /\ SameLeaves(s.pt, a.pt)
    <3> DEFINE q == Put(s.pt, g, EmptyTable)
    <3>1. Beside(s.pt, q, g)
      BY <1>1, <2>2, LooseLeaves
    <3>2. there[g] = Bottom(i, j)
      BY DEF Put
    <3> QED BY <2>1, <3>1, <3>2 DEF Beside
  <2>4. Tree(a.pt, R, there) /\ DOMAIN a = Fields
    BY <2>1 DEF Good
  <2>5. PdOf(a.pt, i) = pd /\ pd # 0 /\ PdEntry(a.pt, i, j) = e
    BY <1>3, <1>9, <2>3 DEF PdOf, pd
  <2>6. /\ DOMAIN d = Fields /\ d.got = g
        /\ d.pt = Linking(a.pt, g, pd, j, e, up)
        /\ d.mem = a.mem /\ d.free = a.free /\ d.astray = a.astray
    BY <2>1, <2>4, LinkFacts
  <2> HIDE DEF g, there
  <2>7. d.pt = Linking(a.pt, g, PdOf(a.pt, i), j, PdEntry(a.pt, i, j), up)
    BY <2>5, <2>6
  <2>8. /\ Tree(d.pt, R, there) /\ SameLeaves(a.pt, d.pt) /\ DOMAIN d.pt = DOMAIN a.pt
        /\ PdOf(d.pt, i) = PdOf(a.pt, i) /\ PdEntry(d.pt, i, j) = Entry(g, up, FALSE)
        /\ \A r \in R : d.pt[r] = a.pt[r]
    <3>1. PdOf(a.pt, i) # 0 /\ (PdEntry(a.pt, i, j).to = 0 \/ PdEntry(a.pt, i, j).huge)
      BY <1>9, <2>5
    <3> DEFINE q == Linking(a.pt, g, PdOf(a.pt, i), j, PdEntry(a.pt, i, j), up)
    <3>2. Relinked(a.pt, q, R, there, i, j, g, up)
      BY <2>2, <2>3, <2>4, <3>1, LinkBottom
    <3> QED BY <2>7, <3>2 DEF Relinked, Kept
  <2>9. Good(a, R, there) /\ Grown(s, a, R)
    BY <2>1 DEF g, there
  <2>10. Good(d, R, there) /\ Grown(s, d, R)
    BY <2>6, <2>8, <2>9, Linked
  <2>11. SameLeaves(s.pt, d.pt)
    BY <2>3, <2>8, SameLeavesTwice
  <2>12. /\ PdOf(d.pt, i) = pd /\ pd # 0
         /\ d.got = PdEntry(d.pt, i, j).to /\ d.got # 0
         /\ ~PdEntry(d.pt, i, j).huge
    BY <2>2, <2>5, <2>6, <2>8 DEF Entry
  <2> QED BY <1>9, <2>10, <2>11, <2>12 DEF d, pd
<1> QED
  BY <1>2, <1>5, <1>6, <1>7, <1>8, <1>9 DEF d, e, pd, Outcome

-----------------------------------------------------------------------------
(* vmm_map_page *)

UserSet(s, d, R, place, t, k) ==
  /\ Good(d, R, place) /\ Grown(s, d, R)
  /\ Opened(s.pt, d.pt, R, place)
  /\ d.pt[t][k].user
  /\ d.err = s.err

LEMMA SetUserOpens ==
  ASSUME NEW s, NEW R, NEW place, Good(s, R, place),
         NEW t \in DOMAIN s.pt, \A i, j \in Slots : place[t] # Bottom(i, j),
         NEW k \in Slots, ~s.pt[t][k].huge
  PROVE  UserSet(s, SetUser(s, t, k, TRUE), R, place, t, k)
<1> DEFINE d == SetUser(s, t, k, TRUE)
<1>1. Tree(s.pt, R, place) /\ DOMAIN s = Fields
  BY DEF Good
<1>2. /\ DOMAIN d = Fields /\ d.pt = Marking(s.pt, t, k, TRUE)
      /\ d.mem = s.mem /\ d.free = s.free /\ d.err = s.err /\ d.astray = s.astray
  BY <1>1 DEF SetUser, Fields, Marking
<1> HIDE DEF d
<1>3. Opened(s.pt, d.pt, R, place) /\ d.pt[t][k].user
  <2>1. OpenedAt(s.pt, d.pt, R, place, t, k, TRUE)
    BY <1>1, <1>2, Marked
  <2> QED BY <2>1 DEF OpenedAt
<1>4. Tree(d.pt, R, place) /\ DOMAIN d.pt = DOMAIN s.pt
  BY <1>3 DEF Opened
<1>5. Good(d, R, place)
  BY <1>2, <1>4 DEF Good
<1>6. \A r \in R : s.pt[r][0].user => d.pt[r][0].user
  BY <1>1, <1>3, Sizes DEF Opened, Tree, TopLevel
<1>7. Grown(s, d, R)
  BY <1>2, <1>4, <1>6 DEF Grown
<1> QED
  BY <1>2, <1>3, <1>5, <1>7 DEF d, UserSet

LeafMapped(s, d, R, place, i, j, k, f) ==
  /\ Good(d, R, place) /\ Grown(s, d, R)
  /\ Replaced(s.pt, d.pt, R, place, i, j, k, f, TRUE)
  /\ d.err = s.err

LEMMA SetLeafMaps ==
  ASSUME NEW s, NEW R, NEW place, Good(s, R, place),
         NEW i \in Slots, NEW j \in Slots, NEW k \in Slots,
         PdEntry(s.pt, i, j).to # 0, ~PdEntry(s.pt, i, j).huge,
         s.pt[BootPdpt][i].user, PdEntry(s.pt, i, j).user,
         NEW f \in Nat
  PROVE  LeafMapped(s, SetLeaf(s, PdEntry(s.pt, i, j).to, k, f, TRUE), R, place, i, j, k, f)
<1> DEFINE t == PdEntry(s.pt, i, j).to
           d == SetLeaf(s, t, k, f, TRUE)
           c == Touch(s, t)
<1>1. Tree(s.pt, R, place) /\ DOMAIN s = Fields
  BY DEF Good
<1>2. /\ DOMAIN c = Fields /\ c.pt = s.pt /\ c.mem = s.mem /\ c.free = s.free
      /\ c.err = s.err /\ (s.astray => c.astray)
  BY <1>1, Touched
<1>3. d = [c EXCEPT !.pt[t][k] = Entry(f, TRUE, FALSE)]
  BY DEF SetLeaf
<1> HIDE DEF c, t
<1>4. /\ DOMAIN d = Fields /\ d.pt = Setting(s.pt, t, k, f, TRUE)
      /\ d.mem = s.mem /\ d.free = s.free /\ d.err = s.err /\ (s.astray => d.astray)
  BY <1>2, <1>3 DEF Fields, Setting
<1> HIDE DEF d
<1>5. Replaced(s.pt, d.pt, R, place, i, j, k, f, TRUE)
  BY <1>1, <1>4, LeafSet DEF t
<1>6. Tree(d.pt, R, place) /\ DOMAIN d.pt = DOMAIN s.pt /\ \A r \in R : d.pt[r] = s.pt[r]
  BY <1>5 DEF Replaced
<1>7. Good(d, R, place)
  BY <1>4, <1>6 DEF Good
<1>8. Grown(s, d, R)
  BY <1>4, <1>6 DEF Grown
<1> QED
  BY <1>4, <1>5, <1>7, <1>8 DEF d, t, LeafMapped

\* a, b and c are where the descent to page v has come after each level.
Arrived(s, R, v, a, b, c) ==
  /\ \E place : Good(c, R, place)
  /\ Grown(s, c, R)
  /\ SameLeaves(s.pt, c.pt)
  /\ ~Stopped(c) => /\ a.got = BootPdpt
                    /\ b.got = PdOf(c.pt, I3(v)) /\ b.got # 0
                    /\ c.got = PdEntry(c.pt, I3(v), I2(v)).to /\ c.got # 0
                    /\ ~PdEntry(c.pt, I3(v), I2(v)).huge

LEMMA Descent ==
  ASSUME NEW s, NEW R, NEW place, Good(s, R, place), NEW r \in R, NEW v \in Pages
  PROVE  LET a == Descend(s, r, I4(v), TRUE)
             b == Descend(a, a.got, I3(v), TRUE)
             c == Descend(b, b.got, I2(v), TRUE)
         IN  Arrived(s, R, v, a, b, c)
<1> DEFINE i == I3(v)
           j == I2(v)
           a == Descend(s, r, I4(v), TRUE)
           b == Descend(a, a.got, i, TRUE)
           c == Descend(b, b.got, j, TRUE)
<1>1. I4(v) = 0 /\ i \in Slots /\ j \in Slots
  BY Indices
<1> HIDE DEF i, j
<1>2. /\ Good(a, R, place) /\ Grown(s, a, R) /\ a.pt = s.pt
      /\ ~Stopped(a) => a.got = BootPdpt
  <2>1. a = Descend(s, r, 0, TRUE)
    BY <1>1
  <2>2. AtTop(s, Descend(s, r, 0, TRUE), R, place)
    BY DescendTop
  <2> QED BY <2>1, <2>2 DEF AtTop
<1> HIDE DEF a
<1>3. /\ \E there : Good(b, R, there)
      /\ Grown(a, b, R) /\ SameLeaves(a.pt, b.pt)
      /\ ~Stopped(b) => ~Stopped(a) /\ b.got = PdOf(b.pt, i) /\ b.got # 0
  <2>1. CASE Stopped(a)
    <3>1. b = a
      BY <2>1 DEF Descend
    <3> QED BY <1>2, <2>1, <3>1, Refl
  <2>2. CASE ~Stopped(a)
    <3> DEFINE d == Descend(a, BootPdpt, i, TRUE)
    <3>1. b = d
      BY <1>2, <2>2
    <3>2. /\ \E there : Good(d, R, there)
          /\ Grown(a, d, R) /\ SameLeaves(a.pt, d.pt)
          /\ ~Stopped(d) => d.got = PdOf(d.pt, i) /\ d.got # 0
      BY <1>1, <1>2, DescendMiddle
    <3> QED BY <2>2, <3>1, <3>2
  <2> QED BY <2>1, <2>2
<1>4. PICK there : Good(b, R, there)
  BY <1>3
<1> HIDE DEF b
<1>5. /\ \E at : Good(c, R, at)
      /\ Grown(b, c, R) /\ SameLeaves(b.pt, c.pt)
      /\ ~Stopped(c) => /\ ~Stopped(b)
                        /\ PdOf(c.pt, i) = b.got /\ b.got # 0
                        /\ c.got = PdEntry(c.pt, i, j).to /\ c.got # 0
                        /\ ~PdEntry(c.pt, i, j).huge
  <2>1. CASE Stopped(b)
    <3>1. c = b
      BY <2>1 DEF Descend
    <3> QED BY <1>4, <2>1, <3>1, Refl
  <2>2. CASE ~Stopped(b)
    <3> DEFINE d == Descend(b, PdOf(b.pt, i), j, TRUE)
    <3>1. c = d /\ b.got = PdOf(b.pt, i) /\ PdOf(b.pt, i) # 0
      BY <1>3, <2>2
    <3>2. /\ \E at : Good(d, R, at)
          /\ Grown(b, d, R) /\ SameLeaves(b.pt, d.pt)
          /\ ~Stopped(d) => /\ PdOf(d.pt, i) = PdOf(b.pt, i) /\ PdOf(b.pt, i) # 0
                            /\ d.got = PdEntry(d.pt, i, j).to /\ d.got # 0
                            /\ ~PdEntry(d.pt, i, j).huge
      BY <1>1, <1>4, <3>1, DescendBottom
    <3> QED BY <2>2, <3>1, <3>2
  <2> QED BY <2>1, <2>2
<1> HIDE DEF c
<1>6. Grown(s, c, R) /\ SameLeaves(s.pt, c.pt)
  <2>1. Grown(s, b, R) /\ SameLeaves(s.pt, b.pt)
    BY <1>2, <1>3, GrownTwice, SameLeavesTwice
  <2> QED BY <1>5, <2>1, GrownTwice, SameLeavesTwice
<1>7. Arrived(s, R, v, a, b, c)
  BY <1>2, <1>3, <1>5, <1>6 DEF Arrived, i, j
<1> QED
  BY <1>7 DEF a, b, c, i, j

\* What a page leads to.
Leaf(pt, v) == PtEntry(pt, I3(v), I2(v), I1(v))

\* vmm_map_page maps page v of root r to frame f or stops, and changes nothing else.
Mapping(s, m, R, r, v, f) ==
  /\ \E place : Good(m, R, place)
  /\ Grown(s, m, R)
  /\ \A w \in Pages \ {v} : Leaf(m.pt, w) = Leaf(s.pt, w)
  /\ \/ Leaf(m.pt, v) = Leaf(s.pt, v) /\ Stopped(m)
     \/ Leaf(m.pt, v) = Entry(f, TRUE, FALSE) /\ m.pt[r][0].user /\ ~m.err

LEMMA SameLeaf ==
  ASSUME NEW p, NEW q, SameLeaves(p, q), NEW w \in Pages
  PROVE  Leaf(q, w) = Leaf(p, w)
BY Indices DEF SameLeaves, Leaf

LEMMA OnlyOne == ASSUME NEW x PROVE Only({x}) = x
BY DEF Only

\* The descent and the leaf, without the sets of one.
LEMMA MapPageIs ==
  ASSUME NEW s, NEW r, NEW v, NEW f
  PROVE  LET a == Descend(s, r, I4(v), TRUE)
             b == Descend(a, a.got, I3(v), TRUE)
             c == Descend(b, b.got, I2(v), TRUE)
         IN  vmm_map_page(s, r, v, f, TRUE) = MapLeaf(a, b, c, r, v, f, TRUE)
<1> DEFINE a == Descend(s, r, I4(v), TRUE)
           b == Descend(a, a.got, I3(v), TRUE)
           c == Descend(b, b.got, I2(v), TRUE)
           C(x, y) == Only({MapLeaf(x, y, z, r, v, f, TRUE) : z \in {Descend(y, y.got, I2(v), TRUE)}})
           B(x) == Only({C(x, y) : y \in {Descend(x, x.got, I3(v), TRUE)}})
<1>1. vmm_map_page(s, r, v, f, TRUE) = Only({B(x) : x \in {a}})
  BY DEF vmm_map_page
<1>2. C(a, b) = MapLeaf(a, b, c, r, v, f, TRUE)
  <2> HIDE DEF a, b
  <2>1. {MapLeaf(a, b, z, r, v, f, TRUE) : z \in {c}} = {MapLeaf(a, b, c, r, v, f, TRUE)}
    OBVIOUS
  <2> QED BY <2>1, OnlyOne
<1>3. B(a) = C(a, b)
  <2> HIDE DEF a, C
  <2>1. {C(a, y) : y \in {b}} = {C(a, b)}
    OBVIOUS
  <2> QED BY <2>1, OnlyOne
<1>4. Only({B(x) : x \in {a}}) = B(a)
  <2> HIDE DEF a, B
  <2>1. {B(x) : x \in {a}} = {B(a)}
    OBVIOUS
  <2> QED BY <2>1, OnlyOne
<1> QED
  BY <1>1, <1>2, <1>3, <1>4

LEMMA MapPage ==
  ASSUME NEW s, NEW R, NEW place, Good(s, R, place), NEW r \in R, NEW v \in Pages, NEW f \in Nat
  PROVE  Mapping(s, vmm_map_page(s, r, v, f, TRUE), R, r, v, f)
<1> DEFINE i == I3(v)
           j == I2(v)
           k == I1(v)
           a == Descend(s, r, I4(v), TRUE)
           b == Descend(a, a.got, i, TRUE)
           c == Descend(b, b.got, j, TRUE)
           x == SetUser(c, r, I4(v), TRUE)
           y == SetUser(x, a.got, i, TRUE)
           z == SetUser(y, b.got, j, TRUE)
           l == SetLeaf(z, c.got, k, f, TRUE)
           m == vmm_map_page(s, r, v, f, TRUE)
<1>1. I4(v) = 0 /\ i \in Slots /\ j \in Slots /\ k \in Slots
  BY Indices
<1>2. Arrived(s, R, v, a, b, c)
  BY Descent
<1>3. m = IF Stopped(c) THEN c ELSE GoOn(l)
  <2>1. m = MapLeaf(a, b, c, r, v, f, TRUE)
    BY MapPageIs
  <2> HIDE DEF m, a, b, c
  <2> QED BY <2>1 DEF MapLeaf
<1> HIDE DEF m, i, j, k, a, b, c, x, y, z, l
<1>4. PICK at : Good(c, R, at)
  BY <1>2 DEF Arrived
<1>5. Grown(s, c, R) /\ SameLeaves(s.pt, c.pt)
  BY <1>2 DEF Arrived
<1>6. CASE Stopped(c)
  <2>1. m = c
    BY <1>3, <1>6
  <2>2. \A w \in Pages : Leaf(m.pt, w) = Leaf(s.pt, w)
    BY <1>5, <2>1, SameLeaf
  <2> QED
    BY <1>4, <1>5, <1>6, <2>1, <2>2 DEF Mapping, m
<1>7. CASE ~Stopped(c)
  <2>1. /\ a.got = BootPdpt /\ b.got = PdOf(c.pt, i) /\ b.got # 0
        /\ c.got = PdEntry(c.pt, i, j).to /\ c.got # 0
        /\ ~PdEntry(c.pt, i, j).huge
        /\ ~c.err
    BY <1>2, <1>7 DEF Arrived, i, j, Stopped
  <2>2. Tree(c.pt, R, at)
    BY <1>4 DEF Good
  <2>3. /\ r \in DOMAIN c.pt /\ ~c.pt[r][0].huge /\ at[r] = Root
        /\ BootPdpt \in DOMAIN c.pt /\ ~c.pt[BootPdpt][i].huge /\ at[BootPdpt] = Top
        /\ b.got \in DOMAIN c.pt /\ at[b.got] = Middle(i)
    BY <1>1, <2>1, <2>2 DEF Tree, Tables, TopLevel, MiddleLevel
  <2>4. \A n, o \in Slots : at[r] # Bottom(n, o) /\ at[BootPdpt] # Bottom(n, o) /\ at[b.got] # Bottom(n, o)
    BY <1>1, <2>3, Places
  <2>5. /\ Good(x, R, at) /\ Grown(c, x, R) /\ Opened(c.pt, x.pt, R, at)
        /\ x.pt[r][0].user /\ x.err = c.err
    <3>1. UserSet(c, x, R, at, r, 0)
      BY <1>1, <1>4, <2>3, <2>4, Sizes, SetUserOpens DEF x
    <3> QED BY <3>1 DEF UserSet
  <2>6. BootPdpt \in DOMAIN x.pt /\ ~x.pt[BootPdpt][i].huge
    BY <1>1, <2>3, <2>5 DEF Opened
  <2>7. /\ Good(y, R, at) /\ Grown(x, y, R) /\ Opened(x.pt, y.pt, R, at)
        /\ y.pt[BootPdpt][i].user /\ y.err = x.err
    <3>1. UserSet(x, y, R, at, BootPdpt, i)
      BY <1>1, <2>1, <2>4, <2>5, <2>6, SetUserOpens DEF y
    <3> QED BY <3>1 DEF UserSet
  <2>8. /\ PdOf(y.pt, i) = b.got /\ b.got \in DOMAIN y.pt
        /\ PdEntry(y.pt, i, j) = y.pt[b.got][j] /\ PdEntry(c.pt, i, j) = c.pt[b.got][j]
        /\ y.pt[b.got][j].to = c.got /\ ~y.pt[b.got][j].huge
    BY <1>1, <2>1, <2>3, <2>5, <2>7 DEF Opened, PdEntry
  <2>9. /\ Good(z, R, at) /\ Grown(y, z, R) /\ Opened(y.pt, z.pt, R, at)
        /\ z.pt[b.got][j].user /\ z.err = y.err
    <3>1. UserSet(y, z, R, at, b.got, j)
      BY <1>1, <2>4, <2>7, <2>8, SetUserOpens DEF z
    <3> QED BY <3>1 DEF UserSet
  <2>10. /\ PdOf(z.pt, i) = b.got
         /\ PdEntry(z.pt, i, j) = z.pt[b.got][j]
         /\ PdEntry(z.pt, i, j).to = c.got /\ ~PdEntry(z.pt, i, j).huge
         /\ PdEntry(z.pt, i, j).user
    BY <1>1, <2>1, <2>8, <2>9 DEF Opened, PdEntry
  <2>11. z.pt[BootPdpt][i].user /\ z.pt[r][0].user
    <3>1. BootPdpt \in DOMAIN y.pt /\ r \in DOMAIN x.pt /\ r \in DOMAIN y.pt
      BY <2>3, <2>5, <2>7 DEF Opened
    <3>2. y.pt[r][0].user
      BY <2>5, <2>7, <3>1, Sizes DEF Opened
    <3> QED BY <1>1, <2>7, <2>9, <3>1, <3>2, Sizes DEF Opened
  <2>12. /\ Good(l, R, at) /\ Grown(z, l, R)
         /\ Replaced(z.pt, l.pt, R, at, i, j, k, f, TRUE)
         /\ l.err = z.err
    <3> DEFINE t == PdEntry(z.pt, i, j).to
               d == SetLeaf(z, t, k, f, TRUE)
    <3>1. l = d
      BY <2>10 DEF l
    <3>2. LeafMapped(z, d, R, at, i, j, k, f)
      BY <1>1, <2>1, <2>9, <2>10, <2>11, SetLeafMaps
    <3> QED BY <3>1, <3>2 DEF LeafMapped
  <2>13. m = GoOn(l) /\ SameBut(l, m)
    <3>1. DOMAIN l = Fields
      BY <2>12 DEF Good
    <3> QED BY <1>3, <1>7, <3>1, TouchedAll DEF GoOn
  <2>14. Grown(s, l, R)
    <3>1. Grown(s, x, R)
      BY <1>5, <2>5, GrownTwice
    <3>2. Grown(s, y, R)
      BY <2>7, <3>1, GrownTwice
    <3>3. Grown(s, z, R)
      BY <2>9, <3>2, GrownTwice
    <3> QED BY <2>12, <3>3, GrownTwice
  <2>15. SameLeaves(s.pt, z.pt)
    <3>1. SameLeaves(c.pt, x.pt) /\ SameLeaves(x.pt, y.pt) /\ SameLeaves(y.pt, z.pt)
      BY <2>5, <2>7, <2>9 DEF Opened
    <3>2. SameLeaves(s.pt, x.pt)
      BY <1>5, <3>1, SameLeavesTwice
    <3>3. SameLeaves(s.pt, y.pt)
      BY <3>1, <3>2, SameLeavesTwice
    <3> QED BY <3>1, <3>3, SameLeavesTwice
  <2>16. ASSUME NEW w \in Pages \ {v} PROVE Leaf(l.pt, w) = Leaf(s.pt, w)
    <3>1. Leaf(z.pt, w) = Leaf(s.pt, w)
      BY <2>15, SameLeaf
    <3>2. /\ I3(w) \in Slots /\ I2(w) \in Slots /\ I1(w) \in Slots
          /\ w = (I3(w) * N + I2(w)) * N + I1(w)
          /\ v = (I3(v) * N + I2(v)) * N + I1(v)
      BY Indices
    <3>3. ~(I3(w) = i /\ I2(w) = j /\ I1(w) = k)
      BY <3>2 DEF i, j, k
    <3>4. PtEntry(l.pt, I3(w), I2(w), I1(w)) = PtEntry(z.pt, I3(w), I2(w), I1(w))
      BY <2>12, <3>2, <3>3 DEF Replaced
    <3> QED BY <3>1, <3>4 DEF Leaf
  <2>17. Leaf(l.pt, v) = Entry(f, TRUE, FALSE)
    BY <2>12 DEF Replaced, Leaf, i, j, k
  <2>18. l.pt[r][0].user /\ ~l.err
    BY <2>1, <2>5, <2>7, <2>9, <2>11, <2>12 DEF Replaced
  <2>19. Good(m, R, at)
    BY <2>12, <2>13 DEF Good, SameBut
  <2>20. Grown(s, m, R)
    BY <2>13, <2>14 DEF Grown, SameBut
  <2>21. /\ \A w \in Pages \ {v} : Leaf(m.pt, w) = Leaf(s.pt, w)
         /\ Leaf(m.pt, v) = Entry(f, TRUE, FALSE) /\ m.pt[r][0].user /\ ~m.err
    BY <2>13, <2>16, <2>17, <2>18 DEF SameBut
  <2> QED
    BY <2>19, <2>20, <2>21 DEF Mapping, m
<1> QED
  BY <1>6, <1>7

-----------------------------------------------------------------------------
(* Pages of programs *)

UserLeaf(s, v) == Leaf(s.pt, v).user
FrameOf(s, v) == Leaf(s.pt, v).to

\* Each page ring 3 may reach has a frame of its own, which is in use and not by
\* a table ...
Apart(s) ==
  /\ \A v \in Pages : UserLeaf(s, v) => /\ FrameOf(s, v) \in MemFrames
                                        /\ FrameOf(s, v) \notin s.free
                                        /\ FrameOf(s, v) \notin DOMAIN s.pt
  /\ \A v, w \in Pages : UserLeaf(s, v) /\ UserLeaf(s, w) /\ v # w => FrameOf(s, v) # FrameOf(s, w)

\* ... and which was last written for a program.
Owned(s) ==
  \A v \in Pages : UserLeaf(s, v) => /\ FrameOf(s, v) \in DOMAIN s.mem
                                     /\ s.mem[FrameOf(s, v)].owner \in Program

Sound(s, R) ==
  /\ \E place : Good(s, R, place)
  /\ Apart(s)
  /\ Owned(s)

Holds(s, v, tag) == UserLeaf(s, v) /\ s.mem[FrameOf(s, v)] = tag

\* A step from s to t that maps at most the pages V.
Maps(s, t, R, V) ==
  /\ Sound(t, R)
  /\ Grown(s, t, R)
  /\ \A w \in Pages \ V : Leaf(t.pt, w) = Leaf(s.pt, w)

\* ... one that gives page v of root r a frame with the contents tag, or stops.
Gives(s, t, R, r, v, tag) ==
  /\ Maps(s, t, R, {v})
  /\ ~Stopped(t) => Holds(t, v, tag) /\ t.pt[r][0].user

PageStep(s, t, R, r, v, tag) ==
  /\ Gives(s, t, R, r, v, tag)
  /\ Stopped(s) => t = s

\* What a page holds it keeps while its leaf is not changed.
LEMMA StillHolds ==
  ASSUME NEW s, NEW t, NEW R, Sound(s, R), Grown(s, t, R),
         NEW v \in Pages, Leaf(t.pt, v) = Leaf(s.pt, v), NEW tag, Holds(s, v, tag)
  PROVE  Holds(t, v, tag)
<1>1. FrameOf(s, v) \in DOMAIN s.mem /\ FrameOf(s, v) \notin s.free
  BY DEF Sound, Apart, Owned, Holds
<1>2. t.mem[FrameOf(s, v)] = s.mem[FrameOf(s, v)]
  BY <1>1 DEF Grown
<1> QED
  BY <1>2 DEF Holds, UserLeaf, FrameOf

\* A step that leaves every page alone.
LEMMA StaysSound ==
  ASSUME NEW s, NEW R, Sound(s, R), NEW t, NEW Q, NEW place, Good(t, Q, place),
         Grown(s, t, R), \A w \in Pages : Leaf(t.pt, w) = Leaf(s.pt, w)
  PROVE  Sound(t, Q)
<1>1. \A w \in Pages : UserLeaf(t, w) = UserLeaf(s, w) /\ FrameOf(t, w) = FrameOf(s, w)
  BY DEF UserLeaf, FrameOf
<1>2. Apart(t)
  <2>1. t.free \subseteq s.free /\ DOMAIN t.pt \subseteq DOMAIN s.pt \cup s.free
    BY DEF Grown
  <2> QED BY <1>1, <2>1 DEF Sound, Apart
<1>3. Owned(t)
  BY <1>1 DEF Sound, Apart, Owned, Grown
<1> QED
  BY <1>2, <1>3 DEF Sound

LEMMA MapsNothing ==
  ASSUME NEW s, NEW R, Sound(s, R), NEW V
  PROVE  Maps(s, s, R, V)
BY Refl DEF Maps

LEMMA MapsTwice ==
  ASSUME NEW s, NEW t, NEW u, NEW R, NEW V, NEW W, Maps(s, t, R, V), Maps(t, u, R, W)
  PROVE  Maps(s, u, R, V \cup W)
<1>1. Sound(u, R) /\ Grown(s, u, R)
  BY GrownTwice DEF Maps
<1> QED
  BY <1>1 DEF Maps

\* The frame f, just allocated, is mapped by m and then written.
LEMMA Filled ==
  ASSUME NEW s, NEW R, Sound(s, R), NEW f \in s.free, NEW r \in R, NEW v \in Pages,
         NEW tag, tag.owner \in Program,
         NEW a, a.pt = s.pt, a.mem = s.mem, a.free = s.free \ {f}, a.astray = s.astray,
         NEW m, Mapping(a, m, R, r, v, f),
         NEW t, DOMAIN t = Fields, t.pt = m.pt, t.mem = Put(m.mem, f, tag), t.free = m.free,
         t.err = m.err, m.astray => t.astray
  PROVE  Gives(s, t, R, r, v, tag)
<1>1. PICK place : Good(m, R, place)
  BY DEF Mapping
<1>2. /\ f \in MemFrames /\ f \notin DOMAIN s.pt /\ f \notin a.free
  BY DEF Sound, Good
<1>3. Grown(a, m, R)
  BY DEF Mapping
<1>4. /\ t.free \subseteq a.free /\ f \notin t.free /\ f \notin DOMAIN t.pt
      /\ DOMAIN s.pt \subseteq DOMAIN t.pt
      /\ DOMAIN t.pt \subseteq DOMAIN s.pt \cup (s.free \ t.free)
  BY <1>2, <1>3 DEF Grown
<1>5. Good(t, R, place)
  BY <1>1 DEF Good
<1>6. ASSUME NEW g \in DOMAIN s.mem \ s.free
      PROVE  g # f /\ g \in DOMAIN t.mem /\ t.mem[g] = s.mem[g]
  <2>1. g # f /\ g \in DOMAIN a.mem \ a.free
    OBVIOUS
  <2>2. g \in DOMAIN m.mem /\ m.mem[g] = s.mem[g]
    BY <1>3, <2>1 DEF Grown
  <2> QED BY <2>1, <2>2 DEF Put
<1>7. f \in DOMAIN t.mem /\ t.mem[f] = tag
  BY DEF Put
<1>8. Grown(s, t, R)
  <2>1. s.astray => t.astray
    BY <1>3 DEF Grown
  <2>2. \A q \in R : s.pt[q][0].user => t.pt[q][0].user
    BY <1>3 DEF Grown
  <2> QED BY <1>4, <1>6, <2>1, <2>2 DEF Grown
<1>9. ASSUME NEW w \in Pages \ {v} PROVE Leaf(t.pt, w) = Leaf(s.pt, w)
  BY DEF Mapping
<1>10. \/ Leaf(t.pt, v) = Leaf(s.pt, v) /\ Stopped(m)
       \/ Leaf(t.pt, v) = Entry(f, TRUE, FALSE) /\ t.pt[r][0].user
  BY DEF Mapping
<1>11. ASSUME NEW w \in Pages, Leaf(t.pt, w) = Leaf(s.pt, w), UserLeaf(t, w)
       PROVE  /\ FrameOf(t, w) = FrameOf(s, w) /\ UserLeaf(s, w)
              /\ FrameOf(t, w) \in MemFrames /\ FrameOf(t, w) \notin t.free
              /\ FrameOf(t, w) \notin DOMAIN t.pt /\ FrameOf(t, w) # f
              /\ FrameOf(t, w) \in DOMAIN t.mem /\ t.mem[FrameOf(t, w)].owner \in Program
  <2>1. FrameOf(t, w) = FrameOf(s, w) /\ UserLeaf(s, w)
    BY <1>11 DEF FrameOf, UserLeaf
  <2>2. /\ FrameOf(s, w) \in MemFrames /\ FrameOf(s, w) \notin s.free
        /\ FrameOf(s, w) \notin DOMAIN s.pt
        /\ FrameOf(s, w) \in DOMAIN s.mem /\ s.mem[FrameOf(s, w)].owner \in Program
    BY <2>1 DEF Sound, Apart, Owned
  <2>3. FrameOf(s, w) \notin t.free /\ FrameOf(s, w) \notin DOMAIN t.pt /\ FrameOf(s, w) # f
    BY <1>4, <2>2
  <2> QED BY <1>6, <2>1, <2>2, <2>3
<1>12. ASSUME NEW w \in Pages, UserLeaf(t, w), Leaf(t.pt, w) # Leaf(s.pt, w)
       PROVE  w = v /\ FrameOf(t, w) = f
  BY <1>9, <1>10, <1>12 DEF FrameOf, Entry
<1>13. Apart(t)
  <2>1. ASSUME NEW w \in Pages, UserLeaf(t, w)
        PROVE  /\ FrameOf(t, w) \in MemFrames /\ FrameOf(t, w) \notin t.free
               /\ FrameOf(t, w) \notin DOMAIN t.pt
    BY <1>2, <1>4, <1>11, <1>12, <2>1
  <2>2. ASSUME NEW u \in Pages, NEW w \in Pages, UserLeaf(t, u), UserLeaf(t, w), u # w
        PROVE  FrameOf(t, u) # FrameOf(t, w)
    <3>1. CASE Leaf(t.pt, u) = Leaf(s.pt, u) /\ Leaf(t.pt, w) = Leaf(s.pt, w)
      BY <1>11, <2>2, <3>1 DEF Sound, Apart
    <3>2. CASE Leaf(t.pt, u) # Leaf(s.pt, u)
      <4>1. u = v /\ FrameOf(t, u) = f /\ Leaf(t.pt, w) = Leaf(s.pt, w)
        BY <1>9, <1>12, <2>2, <3>2
      <4> QED BY <1>11, <2>2, <4>1
    <3>3. CASE Leaf(t.pt, w) # Leaf(s.pt, w)
      <4>1. w = v /\ FrameOf(t, w) = f /\ Leaf(t.pt, u) = Leaf(s.pt, u)
        BY <1>9, <1>12, <2>2, <3>3
      <4> QED BY <1>11, <2>2, <4>1
    <3> QED BY <3>1, <3>2, <3>3
  <2> QED BY <2>1, <2>2 DEF Apart
<1>14. Owned(t)
  BY <1>7, <1>11, <1>12 DEF Owned
<1>15. Maps(s, t, R, {v})
  BY <1>5, <1>8, <1>9, <1>13, <1>14 DEF Maps, Sound
<1>16. ~Stopped(t) => Holds(t, v, tag) /\ t.pt[r][0].user
  <2> SUFFICES ASSUME ~Stopped(t) PROVE Holds(t, v, tag) /\ t.pt[r][0].user
    OBVIOUS
  <2>1. ~Stopped(m)
    BY DEF Stopped
  <2>2. Leaf(t.pt, v) = Entry(f, TRUE, FALSE) /\ t.pt[r][0].user
    BY <1>10, <2>1
  <2> QED BY <1>7, <2>2 DEF Holds, UserLeaf, FrameOf, Entry
<1> QED
  BY <1>15, <1>16 DEF Gives

LEMMA Unmoved ==
  ASSUME NEW s, NEW R, Sound(s, R), NEW t, DOMAIN t = Fields,
         t.pt = s.pt, t.mem = s.mem, t.free = s.free, s.astray => t.astray, NEW V
  PROVE  Maps(s, t, R, V)
<1>1. Grown(s, t, R)
  BY DEF Grown
<1>2. PICK place : Good(t, R, place)
  BY DEF Sound, Good
<1>3. \A w \in Pages : Leaf(t.pt, w) = Leaf(s.pt, w)
  OBVIOUS
<1>4. Sound(t, R)
  BY <1>1, <1>2, <1>3, StaysSound
<1> QED
  BY <1>1, <1>3, <1>4 DEF Maps

\* A frame that pmm_alloc has taken is mapped.
Taken(s, a, R, r, v) ==
  /\ DOMAIN a = Fields /\ a.got \in s.free
  /\ a.pt = s.pt /\ a.mem = s.mem /\ a.free = s.free \ {a.got}
  /\ a.err = s.err /\ a.astray = s.astray
  /\ Mapping(a, vmm_map_page(a, r, v, a.got, TRUE), R, r, v, a.got)

LEMMA AllocMapped ==
  ASSUME NEW s, NEW R, Sound(s, R), NEW r \in R, NEW v \in Pages, ~pmm_alloc(s).err
  PROVE  Taken(s, pmm_alloc(s), R, r, v)
<1> DEFINE a == pmm_alloc(s)
<1>1. PICK place : Good(s, R, place)
  BY DEF Sound
<1>2. /\ DOMAIN a = Fields
      /\ a.pt = s.pt /\ a.mem = s.mem /\ a.astray = s.astray
      /\ a.err = s.err /\ a.got \in s.free /\ a.free = s.free \ {a.got}
  BY <1>1, Allocated DEF Good
<1> HIDE DEF a
<1>3. Good(a, R, place) /\ a.got \in Nat
  BY <1>1, <1>2, Frames DEF Good
<1>4. Mapping(a, vmm_map_page(a, r, v, a.got, TRUE), R, r, v, a.got)
  BY <1>3, MapPage
<1>5. Taken(s, a, R, r, v)
  BY <1>2, <1>4 DEF Taken
<1> QED
  BY <1>5 DEF a

LEMMA AllocFails ==
  ASSUME NEW s, NEW R, Sound(s, R), NEW a, a = pmm_alloc(s), a.err, ~s.err, NEW V
  PROVE  Maps(s, a, R, V) /\ Stopped(a)
<1>1. /\ DOMAIN a = Fields
      /\ a.pt = s.pt /\ a.mem = s.mem /\ a.astray = s.astray /\ a.free = s.free
  BY Allocated DEF Sound, Good
<1> QED
  BY <1>1, Unmoved DEF Stopped

LEMMA AllocPage ==
  ASSUME NEW s, NEW R, Sound(s, R), NEW r, Stopped(s) \/ r \in R, NEW v \in Pages,
         NEW tag, tag.owner \in Program
  PROVE  PageStep(s, vmm_alloc_page(s, r, v, tag), R, r, v, tag)
<1> DEFINE a == pmm_alloc(s)
           m == vmm_map_page(a, r, v, a.got, TRUE)
           t == vmm_alloc_page(s, r, v, tag)
<1>1. CASE Stopped(s)
  <2>1. t = s
    BY <1>1 DEF vmm_alloc_page
  <2> QED BY <1>1, <2>1, MapsNothing DEF PageStep, Gives
<1>2. CASE ~Stopped(s) /\ a.err
  <2>1. t = a
    BY <1>2 DEF vmm_alloc_page
  <2>2. ~s.err
    BY <1>2 DEF Stopped
  <2>3. Maps(s, a, R, {v}) /\ Stopped(a)
    BY <1>2, <2>2, AllocFails
  <2> QED BY <1>2, <2>1, <2>3 DEF PageStep, Gives
<1>3. CASE ~Stopped(s) /\ ~a.err
  <2>1. t = [m EXCEPT !.mem = Put(@, a.got, tag)]
    BY <1>3 DEF vmm_alloc_page
  <2>2. r \in R
    BY <1>3
  <2>3. Taken(s, a, R, r, v)
    BY <1>3, <2>2, AllocMapped
  <2> DEFINE f == a.got
  <2> HIDE DEF a
  <2>4. /\ DOMAIN a = Fields /\ f \in s.free
        /\ a.pt = s.pt /\ a.mem = s.mem /\ a.free = s.free \ {f} /\ a.astray = s.astray
        /\ Mapping(a, m, R, r, v, f)
    BY <2>3 DEF Taken
  <2> HIDE DEF m, t, f
  <2>5. DOMAIN m = Fields
    BY <2>4 DEF Mapping, Good
  <2>6. /\ DOMAIN t = Fields /\ t.pt = m.pt /\ t.mem = Put(m.mem, f, tag)
        /\ t.free = m.free /\ t.err = m.err /\ (m.astray => t.astray)
    BY <2>1, <2>5 DEF Fields, f
  <2>7. Gives(s, t, R, r, v, tag)
    BY <2>2, <2>4, <2>6, Filled
  <2> QED BY <1>3, <2>7 DEF PageStep, t
<1> QED
  BY <1>1, <1>2, <1>3

\* A page of a segment; the frame goes back when it cannot be mapped.
LEMMA LoadPage ==
  ASSUME NEW s, NEW R, Sound(s, R), NEW r, Stopped(s) \/ r \in R, NEW v \in Pages,
         NEW p \in Program
  PROVE  PageStep(s, load_page(s, r, p, v), R, r, v, Tag(p, v, "data"))
<1> DEFINE a == pmm_alloc(s)
           m == vmm_map_page(a, r, v, a.got, TRUE)
           tag == Tag(p, v, "data")
           t == load_page(s, r, p, v)
<1>1. CASE Stopped(s)
  <2>1. t = s
    BY <1>1 DEF load_page
  <2> QED BY <1>1, <2>1, MapsNothing DEF PageStep, Gives
<1>2. CASE ~Stopped(s) /\ a.err
  <2>1. t = a
    BY <1>2 DEF load_page
  <2>2. ~s.err
    BY <1>2 DEF Stopped
  <2>3. Maps(s, a, R, {v}) /\ Stopped(a)
    BY <1>2, <2>2, AllocFails
  <2> QED BY <1>2, <2>1, <2>3 DEF PageStep, Gives
<1>3. CASE ~Stopped(s) /\ ~a.err
  <2> DEFINE c == TouchAll(m, {a.got, File[p]})
             f == a.got
  <2>1. t = IF m.err THEN [m EXCEPT !.free = @ \cup {f}]
            ELSE [c EXCEPT !.mem = Put(@, f, tag)]
    BY <1>3 DEF load_page
  <2>2. r \in R
    BY <1>3
  <2>3. Taken(s, a, R, r, v)
    BY <1>3, <2>2, AllocMapped
  <2> HIDE DEF a
  <2>4. /\ DOMAIN a = Fields /\ f \in s.free
        /\ a.pt = s.pt /\ a.mem = s.mem /\ a.free = s.free \ {f} /\ a.astray = s.astray
        /\ Mapping(a, m, R, r, v, f)
    BY <2>3 DEF Taken
  <2> HIDE DEF m, t, f
  <2>5. PICK place : Good(m, R, place)
    BY <2>4 DEF Mapping
  <2>6. DOMAIN m = Fields
    BY <2>5 DEF Good
  <2>7. CASE m.err
    <3>1. /\ DOMAIN t = Fields /\ t.pt = m.pt /\ t.mem = m.mem
          /\ t.free = m.free \cup {f} /\ t.err = m.err /\ t.astray = m.astray
      BY <2>1, <2>6, <2>7 DEF Fields
    <3>2. Grown(a, m, R) /\ f \notin DOMAIN s.pt /\ f \in MemFrames
      BY <2>4 DEF Mapping, Sound, Good
    <3>3. f \notin DOMAIN m.pt
      BY <2>4, <3>2 DEF Grown
    <3>4. Good(t, R, place)
      BY <2>5, <3>1, <3>2, <3>3 DEF Good
    <3>5. Grown(s, t, R)
      BY <2>4, <3>1, <3>2, <3>3 DEF Grown
    <3>6. \A w \in Pages : Leaf(t.pt, w) = Leaf(s.pt, w)
      BY <2>4, <2>7, <3>1 DEF Mapping
    <3>7. Sound(t, R)
      BY <3>4, <3>5, <3>6, StaysSound
    <3> QED
      BY <1>3, <2>7, <3>1, <3>5, <3>6, <3>7 DEF PageStep, Gives, Maps, Stopped, t
  <2>8. CASE ~m.err
    <3>1. /\ DOMAIN c = Fields /\ c.pt = m.pt /\ c.mem = m.mem /\ c.free = m.free
          /\ c.err = m.err /\ (m.astray => c.astray)
      BY <2>6, TouchedAll DEF SameBut
    <3> HIDE DEF c
    <3>2. /\ DOMAIN t = Fields /\ t.pt = m.pt /\ t.mem = Put(m.mem, f, tag)
          /\ t.free = m.free /\ t.err = m.err /\ (m.astray => t.astray)
      BY <2>1, <2>8, <3>1 DEF Fields
    <3>3. tag.owner \in Program
      BY DEF Tag
    <3> HIDE DEF tag
    <3>4. Gives(s, t, R, r, v, tag)
      BY <2>2, <2>4, <3>2, <3>3, Filled
    <3> QED BY <1>3, <3>4 DEF PageStep, t, tag
  <2> QED BY <2>7, <2>8
<1> QED
  BY <1>1, <1>2, <1>3


-----------------------------------------------------------------------------
(* A failure means that there is no frame left *)

Spent(s) == DOMAIN s = Fields /\ (s.err => s.free = {})

LEMMA SpentTouched ==
  ASSUME NEW s, Spent(s), NEW F
  PROVE  Spent(TouchAll(s, F))
BY TouchedAll DEF Spent, SameBut

LEMMA SpentAlloc ==
  ASSUME NEW s, Spent(s)
  PROVE  Spent(pmm_alloc(s))
<1> DEFINE ahead == {f \in s.free : f >= s.last}
           f == Min(IF ahead # {} THEN ahead ELSE s.free)
           a == pmm_alloc(s)
<1>1. CASE s.free = {}
  <2>1. a = [s EXCEPT !.err = TRUE]
    BY <1>1 DEF pmm_alloc
  <2> QED BY <1>1, <2>1 DEF Spent, Fields
<1>2. CASE s.free # {}
  <2>1. a = [s EXCEPT !.got = f, !.free = s.free \ {f}, !.last = f + 1]
    BY <1>2 DEF pmm_alloc
  <2> HIDE DEF f
  <2> QED BY <1>2, <2>1 DEF Spent, Fields
<1> QED
  BY <1>1, <1>2

LEMMA SpentTable ==
  ASSUME NEW s, Spent(s)
  PROVE  Spent(alloc_table(s))
<1> DEFINE a == pmm_alloc(s)
           c == TouchAll(a, {a.got})
<1>1. Spent(a) /\ Spent(c)
  <2>1. Spent(a)
    BY SpentAlloc
  <2> HIDE DEF a
  <2> QED BY <2>1, SpentTouched
<1>2. CASE a.err
  BY <1>1, <1>2 DEF alloc_table
<1>3. CASE ~a.err
  <2> DEFINE p == Put(c.pt, a.got, EmptyTable)
             q == Put(c.mem, a.got, KernelTag("table"))
             b == alloc_table(s)
  <2>1. b = [c EXCEPT !.pt = p, !.mem = q]
    BY <1>3 DEF alloc_table, Touch
  <2> HIDE DEF a, c, p, q, b
  <2>2. Spent(b)
    BY <1>1, <2>1 DEF Spent, Fields
  <2> QED BY <2>2 DEF b
<1> QED
  BY <1>2, <1>3

LEMMA SpentTables ==
  ASSUME NEW s, Spent(s), NEW p
  PROVE  Spent([s EXCEPT !.pt = p])
BY DEF Spent, Fields

LEMMA SpentDescend ==
  ASSUME NEW s, Spent(s), NEW t, NEW i, NEW up
  PROVE  Spent(Descend(s, t, i, up))
<1> DEFINE e == s.pt[t][i]
           c == Touch(s, t)
           a == alloc_table(c)
           d == Descend(s, t, i, up)
<1>1. Spent(c) /\ Spent(a)
  <2>1. Spent(c)
    BY SpentTouched DEF Touch
  <2> HIDE DEF c
  <2> QED BY <2>1, SpentTable
<1>2. CASE Stopped(s)
  BY <1>2 DEF Descend
<1>3. CASE ~Stopped(s) /\ e.to # 0 /\ ~e.huge
  <2>1. d = [c EXCEPT !.got = e.to]
    BY <1>3 DEF Descend, Follow
  <2> HIDE DEF c, e, d
  <2>2. Spent(d)
    BY <1>1, <2>1 DEF Spent, Fields
  <2> QED BY <2>2 DEF d
<1>4. CASE ~Stopped(s) /\ (e.to = 0 \/ e.huge)
  <2>1. d = IF Stopped(a) THEN a ELSE Link(a, t, i, e, up)
    BY <1>4 DEF Descend
  <2> DEFINE p == [a.pt EXCEPT ![a.got] = Below(e)]
             q == [p EXCEPT ![t][i] = Entry(a.got, up, FALSE)]
             l == [a EXCEPT !.pt = q]
  <2> HIDE DEF a, e, d
  <2>2. Link(a, t, i, e, up) = l
    BY <1>1 DEF Link, Spent, Fields
  <2> HIDE DEF q
  <2>3. Spent(l)
    BY <1>1, SpentTables
  <2> QED BY <1>1, <2>1, <2>2, <2>3 DEF d
<1> QED
  BY <1>2, <1>3, <1>4

LEMMA SpentMap ==
  ASSUME NEW s, Spent(s), NEW r, NEW v, NEW f
  PROVE  Spent(vmm_map_page(s, r, v, f, TRUE))
<1> DEFINE a == Descend(s, r, I4(v), TRUE)
           b == Descend(a, a.got, I3(v), TRUE)
           c == Descend(b, b.got, I2(v), TRUE)
           x == SetUser(c, r, I4(v), TRUE)
           y == SetUser(x, a.got, I3(v), TRUE)
           z == SetUser(y, b.got, I2(v), TRUE)
           l == SetLeaf(z, c.got, I1(v), f, TRUE)
           m == vmm_map_page(s, r, v, f, TRUE)
<1>1. m = IF Stopped(c) THEN c ELSE GoOn(l)
  <2>1. m = MapLeaf(a, b, c, r, v, f, TRUE)
    BY MapPageIs
  <2> HIDE DEF m, a, b, c
  <2> QED BY <2>1 DEF MapLeaf
<1>2. Spent(a)
  BY SpentDescend
<1> HIDE DEF a
<1>3. Spent(b)
  BY <1>2, SpentDescend
<1> HIDE DEF b
<1>4. Spent(c)
  BY <1>3, SpentDescend
<1> HIDE DEF c
<1>5. ASSUME NEW u, Spent(u), NEW t, NEW i PROVE Spent(SetUser(u, t, i, TRUE))
  <2> DEFINE p == [u.pt EXCEPT ![t][i].user = @ \/ TRUE]
  <2>1. SetUser(u, t, i, TRUE) = [u EXCEPT !.pt = p]
    BY <1>5 DEF SetUser, Spent, Fields
  <2> HIDE DEF p
  <2> QED BY <1>5, <2>1, SpentTables
<1>6. Spent(x)
  BY <1>4, <1>5
<1> HIDE DEF x
<1>7. Spent(y)
  BY <1>5, <1>6
<1> HIDE DEF y
<1>8. Spent(z)
  BY <1>5, <1>7
<1> HIDE DEF z
<1>9. Spent(l)
  <2> DEFINE w == TouchAll(z, {c.got})
             p == [w.pt EXCEPT ![c.got][I1(v)] = Entry(f, TRUE, FALSE)]
  <2>1. Spent(w)
    BY <1>8, SpentTouched
  <2>2. l = [w EXCEPT !.pt[c.got][I1(v)] = Entry(f, TRUE, FALSE)]
    BY DEF SetLeaf, Touch
  <2> HIDE DEF w
  <2>3. l = [w EXCEPT !.pt = p]
    BY <2>1, <2>2 DEF Spent, Fields
  <2> HIDE DEF p, l
  <2> QED BY <2>1, <2>3, SpentTables
<1> HIDE DEF l
<1>10. Spent(GoOn(l))
  BY <1>9, SpentTouched DEF GoOn
<1> HIDE DEF m
<1>11. Spent(m)
  BY <1>1, <1>4, <1>10
<1> QED
  BY <1>11 DEF m

LEMMA SpentPage ==
  ASSUME NEW s, Spent(s), NEW r, NEW v, NEW tag
  PROVE  Spent(vmm_alloc_page(s, r, v, tag))
<1> DEFINE a == pmm_alloc(s)
           m == vmm_map_page(a, r, v, a.got, TRUE)
           t == vmm_alloc_page(s, r, v, tag)
<1>1. Spent(a)
  BY SpentAlloc
<1>2. Spent(m)
  <2> HIDE DEF a
  <2> QED BY <1>1, SpentMap
<1>3. CASE Stopped(s)
  BY <1>3 DEF vmm_alloc_page
<1>4. CASE ~Stopped(s) /\ a.err
  BY <1>1, <1>4 DEF vmm_alloc_page
<1>5. CASE ~Stopped(s) /\ ~a.err
  <2> DEFINE q == Put(m.mem, a.got, tag)
  <2>1. t = [m EXCEPT !.mem = q]
    BY <1>5 DEF vmm_alloc_page
  <2> HIDE DEF m, q, t
  <2>2. Spent(t)
    BY <1>2, <2>1 DEF Spent, Fields
  <2> QED BY <2>2 DEF t
<1> QED
  BY <1>3, <1>4, <1>5

-----------------------------------------------------------------------------
(* Page after page *)

\* The three loops over pages: one turn of each.
Turn(loop, s, r, v, p) ==
  CASE loop = "stack" -> vmm_alloc_page(s, r, v, Tag(p, v, "data"))
    [] loop = "load" -> load_page(s, r, p, v)
    [] loop = "grow" -> vmm_alloc_page([s EXCEPT !.err = FALSE], r, v, Tag(p, v, "new"))

\* ... and what it puts into the page.
What(loop) == IF loop = "grow" THEN "new" ELSE "data"

Loops == {"stack", "load", "grow"}

\* f is the memory after each of n turns.
Turns(f, loop, s, r, from, n, p) ==
  f = [k \in 0 .. n |-> IF k = 0 THEN s ELSE Turn(loop, f[k - 1], r, from + k - 1, p)]

LEMMA Loop ==
  ASSUME NEW loop, NEW s, NEW r, NEW from, NEW n \in Nat, NEW p
  PROVE  \E f : Turns(f, loop, s, r, from, n, p)
<1> DEFINE P == {m \in 0 .. n : \E f : Turns(f, loop, s, r, from, m, p)}
<1>1. 0 \in P
  <2> DEFINE f == [k \in 0 .. 0 |-> s]
  <2>1. Turns(f, loop, s, r, from, 0, p)
    BY DEF Turns
  <2> QED BY <2>1
<1>2. ASSUME NEW m \in 1 .. n, m - 1 \in P PROVE m \in P
  <2>1. PICK f : Turns(f, loop, s, r, from, m - 1, p)
    BY <1>2
  <2> DEFINE last == Turn(loop, f[m - 1], r, from + m - 1, p)
             g == [k \in 0 .. m |-> IF k = m THEN last ELSE f[k]]
  <2>2. /\ DOMAIN f = 0 .. (m - 1) /\ f[0] = s
        /\ \A k \in 1 .. (m - 1) : f[k] = Turn(loop, f[k - 1], r, from + k - 1, p)
    BY <2>1 DEF Turns
  <2>3. \A k \in 0 .. m : IF k = 0 THEN g[k] = s
                          ELSE g[k] = Turn(loop, g[k - 1], r, from + k - 1, p)
    <3> SUFFICES ASSUME NEW k \in 0 .. m
                 PROVE  IF k = 0 THEN g[k] = s
                        ELSE g[k] = Turn(loop, g[k - 1], r, from + k - 1, p)
      OBVIOUS
    <3>1. k # 0 => k - 1 \in 0 .. m /\ k - 1 # m
      OBVIOUS
    <3>2. CASE k = 0
      BY <2>2, <3>2
    <3>3. CASE k = m
      <4>1. g[k] = last /\ g[k - 1] = f[m - 1]
        BY <3>1, <3>3
      <4> QED BY <3>3, <4>1
    <3>4. CASE k # 0 /\ k # m
      <4>1. g[k] = f[k] /\ g[k - 1] = f[k - 1] /\ k \in 1 .. (m - 1)
        BY <3>1, <3>4
      <4> HIDE DEF g
      <4> QED BY <2>2, <3>4, <4>1
    <3> QED BY <3>2, <3>3, <3>4
  <2>4. g = [k \in 0 .. m |-> g[k]]
    OBVIOUS
  <2> HIDE DEF g
  <2>5. Turns(g, loop, s, r, from, m, p)
    BY <2>3, <2>4 DEF Turns
  <2> QED BY <2>5
<1>3. n \in P
  <2> HIDE DEF P
  <2> QED BY <1>1, <1>2, UpTo
<1> QED
  BY <1>3

Reset(s) == [s EXCEPT !.err = FALSE]

LEMMA ResetKeeps ==
  ASSUME NEW s, NEW R, Sound(s, R)
  PROVE  /\ Maps(s, Reset(s), R, {})
         /\ Reset(s).pt = s.pt /\ Reset(s).mem = s.mem /\ Reset(s).astray = s.astray
         /\ Reset(s).err = FALSE
<1>1. DOMAIN s = Fields
  BY DEF Sound, Good
<1>2. /\ DOMAIN Reset(s) = Fields
      /\ Reset(s).pt = s.pt /\ Reset(s).mem = s.mem /\ Reset(s).free = s.free
      /\ Reset(s).astray = s.astray /\ Reset(s).err = FALSE
  BY <1>1 DEF Reset, Fields
<1>3. Maps(s, Reset(s), R, {})
  BY <1>2, Unmoved
<1> QED
  BY <1>2, <1>3

\* One turn maps its page or stops.
LEMMA EachTurn ==
  ASSUME NEW loop \in Loops, NEW s, NEW R, Sound(s, R), NEW r \in R, NEW v \in Pages,
         NEW p \in Program
  PROVE  Gives(s, Turn(loop, s, r, v, p), R, r, v, Tag(p, v, What(loop)))
<1> DEFINE tag == Tag(p, v, What(loop))
           t == Turn(loop, s, r, v, p)
<1>1. tag.owner \in Program
  BY DEF Tag
<1> HIDE DEF tag
<1>2. CASE loop = "stack"
  <2>1. t = vmm_alloc_page(s, r, v, tag)
    BY <1>2 DEF Turn, tag, What
  <2>2. PageStep(s, vmm_alloc_page(s, r, v, tag), R, r, v, tag)
    BY <1>1, AllocPage
  <2> HIDE DEF t
  <2> QED BY <2>1, <2>2 DEF PageStep, Gives, tag, t
<1>3. CASE loop = "load"
  <2>1. t = load_page(s, r, p, v)
    BY <1>3 DEF Turn
  <2>2. PageStep(s, load_page(s, r, p, v), R, r, v, tag)
    BY <1>3, LoadPage DEF tag, What
  <2> HIDE DEF t
  <2> QED BY <2>1, <2>2 DEF PageStep, Gives, tag, t
<1>4. CASE loop = "grow"
  <2> DEFINE u == Reset(s)
  <2>1. t = vmm_alloc_page(u, r, v, tag)
    BY <1>4 DEF Turn, tag, Reset, What
  <2>2. Maps(s, u, R, {})
    BY ResetKeeps
  <2> HIDE DEF u, t
  <2>3. Sound(u, R)
    BY <2>2 DEF Maps
  <2>4. PageStep(u, vmm_alloc_page(u, r, v, tag), R, r, v, tag)
    BY <1>1, <2>3, AllocPage
  <2>5. PageStep(u, t, R, r, v, tag)
    BY <2>1, <2>4
  <2>6. Maps(u, t, R, {v})
    BY <2>5 DEF PageStep, Gives
  <2>7. Maps(s, t, R, {} \cup {v})
    BY <2>2, <2>6, MapsTwice
  <2>8. {} \cup {v} = {v}
    OBVIOUS
  <2>9. Maps(s, t, R, {v})
    BY <2>7, <2>8
  <2> QED BY <2>5, <2>9 DEF PageStep, Gives, tag, t
<1> QED
  BY <1>2, <1>3, <1>4 DEF Loops

\* After m turns the m pages are mapped, unless memory ran out on the way.
AllHold(t, p, V, what) == \A w \in V : Holds(t, w, Tag(p, w, what))

After(f, m, s, R, r, from, p, what) ==
  /\ Maps(s, f[m], R, from .. (from + m - 1))
  /\ (\A k \in 1 .. m : ~f[k].err) /\ ~f[m].astray =>
        /\ AllHold(f[m], p, from .. (from + m - 1), what)
        /\ m > 0 => f[m].pt[r][0].user

LEMMA Turned ==
  ASSUME NEW loop \in Loops, NEW s, NEW R, Sound(s, R), NEW r \in R,
         NEW from \in Nat, NEW n \in Nat, from + n <= StackTop, NEW p \in Program,
         NEW f, Turns(f, loop, s, r, from, n, p)
  PROVE  \A m \in 0 .. n : After(f, m, s, R, r, from, p, What(loop))
<1> DEFINE P == {m \in 0 .. n : After(f, m, s, R, r, from, p, What(loop))}
<1>1. f[0] = s /\ \A k \in 1 .. n : f[k] = Turn(loop, f[k - 1], r, from + k - 1, p)
  BY DEF Turns
<1>2. 0 \in P
  <2>1. from .. (from + 0 - 1) = {}
    OBVIOUS
  <2>2. Maps(s, f[0], R, {})
    BY <1>1, MapsNothing
  <2> QED BY <2>1, <2>2 DEF After, AllHold
<1>3. ASSUME NEW m \in 1 .. n, m - 1 \in P PROVE m \in P
  <2> DEFINE v == from + m - 1
             V == from .. (from + (m - 1) - 1)
             x == f[m - 1]
             y == f[m]
  <2>1. /\ v \in Pages /\ V \cup {v} = from .. (from + m - 1) /\ v \notin V /\ V \subseteq Pages
        /\ m - 1 \in 0 .. n
    BY Sizes DEF Pages
  <2>2. After(f, m - 1, s, R, r, from, p, What(loop))
    BY <1>3
  <2>3. Maps(s, x, R, V)
    BY <2>2 DEF After
  <2>4. Sound(x, R)
    BY <2>3 DEF Maps
  <2>5. y = Turn(loop, x, r, v, p)
    BY <1>1
  <2> HIDE DEF x, y, v
  <2>6. Gives(x, Turn(loop, x, r, v, p), R, r, v, Tag(p, v, What(loop)))
    BY <2>1, <2>4, EachTurn
  <2>7. Gives(x, y, R, r, v, Tag(p, v, What(loop)))
    BY <2>5, <2>6
  <2>8. Maps(x, y, R, {v})
    BY <2>7 DEF Gives
  <2>9. Maps(s, y, R, V \cup {v})
    BY <2>3, <2>8, MapsTwice
  <2>10. ASSUME \A k \in 1 .. m : ~f[k].err, ~y.astray
         PROVE  AllHold(y, p, V \cup {v}, What(loop)) /\ y.pt[r][0].user
    <3>1. ~y.err
      BY <2>10 DEF y
    <3>2. Holds(y, v, Tag(p, v, What(loop))) /\ y.pt[r][0].user
      BY <2>7, <2>10, <3>1 DEF Gives, Stopped
    <3>3. Grown(x, y, R)
      BY <2>8 DEF Maps
    <3>4. ~x.astray
      BY <2>10, <3>3 DEF Grown
    <3>5. \A k \in 1 .. (m - 1) : ~f[k].err
      BY <2>10
    <3>6. AllHold(x, p, V, What(loop))
      BY <2>2, <3>4, <3>5 DEF After, x
    <3>7. ASSUME NEW w \in V PROVE Holds(y, w, Tag(p, w, What(loop)))
      <4>1. Leaf(y.pt, w) = Leaf(x.pt, w)
        BY <2>1, <2>8 DEF Maps
      <4>2. Holds(x, w, Tag(p, w, What(loop))) /\ w \in Pages
        BY <2>1, <3>6 DEF AllHold
      <4> QED BY <2>4, <3>3, <4>1, <4>2, StillHolds
    <3> QED BY <3>2, <3>7 DEF AllHold
  <2>11. After(f, m, s, R, r, from, p, What(loop))
    BY <2>1, <2>9, <2>10 DEF After, y
  <2> QED BY <2>11
<1>4. 0 .. n \subseteq P
  <2> HIDE DEF P
  <2> QED BY <1>2, <1>3, UpTo
<1> QED
  BY <1>4

\* A turn of brk or mmap that failed left no frame.
LEMMA GrowSpent ==
  ASSUME NEW s, NEW R, Sound(s, R), NEW r \in R,
         NEW from \in Nat, NEW n \in Nat, from + n <= StackTop, NEW p \in Program,
         NEW f, Turns(f, "grow", s, r, from, n, p)
  PROVE  f[n].free # {} => \A k \in 1 .. n : ~f[k].err
<1> DEFINE P == {m \in 0 .. n : f[m].free # {} => \A k \in 1 .. m : ~f[k].err}
<1>1. 0 \in P
  OBVIOUS
<1>2. ASSUME NEW m \in 1 .. n, m - 1 \in P PROVE m \in P
  <2> DEFINE v == from + m - 1
             x == f[m - 1]
             y == f[m]
  <2>1. v \in Pages /\ m - 1 \in 0 .. n /\ "grow" \in Loops
    BY Sizes DEF Pages, Loops
  <2>2. After(f, m - 1, s, R, r, from, p, What("grow"))
    BY <2>1, Turned
  <2>3. Sound(x, R)
    BY <2>2 DEF After, Maps
  <2>4. y = Turn("grow", x, r, v, p)
    BY DEF Turns
  <2> HIDE DEF x, y, v
  <2>5. Gives(x, y, R, r, v, Tag(p, v, What("grow")))
    BY <2>1, <2>3, <2>4, EachTurn
  <2>6. y.free \subseteq x.free
    BY <2>5 DEF Gives, Maps, Grown
  <2>7. Spent(y)
    <3>1. y = vmm_alloc_page(Reset(x), r, v, Tag(p, v, "new"))
      BY <2>4 DEF Turn, Reset
    <3>2. Spent(Reset(x))
      BY <2>3 DEF Sound, Good, Reset, Spent, Fields
    <3> QED BY <3>1, <3>2, SpentPage
  <2>8. ASSUME y.free # {}, NEW k \in 1 .. m PROVE ~f[k].err
    <3>1. CASE k = m
      BY <2>7, <2>8, <3>1 DEF Spent, y
    <3>2. CASE k # m
      <4>1. k \in 1 .. (m - 1) /\ x.free # {}
        BY <2>6, <2>8, <3>2
      <4> QED BY <1>2, <4>1 DEF x
    <3> QED BY <3>1, <3>2
  <2> QED BY <2>8 DEF y
<1>3. 0 .. n \subseteq P
  <2> HIDE DEF P
  <2> QED BY <1>1, <1>2, UpTo
<1> QED
  BY <1>3

\* The loops of a starting program stop at the first failure.
LEMMA TurnStops ==
  ASSUME NEW loop \in {"stack", "load"}, NEW s, Stopped(s), NEW r, NEW v, NEW p
  PROVE  Turn(loop, s, r, v, p) = s
<1>1. CASE loop = "stack"
  BY <1>1 DEF Turn, vmm_alloc_page
<1>2. CASE loop = "load"
  BY <1>2 DEF Turn, load_page
<1> QED
  BY <1>1, <1>2

LEMMA Sticks ==
  ASSUME NEW loop \in {"stack", "load"}, NEW s, NEW r, NEW from \in Nat, NEW n \in Nat, NEW p,
         NEW f, Turns(f, loop, s, r, from, n, p)
  PROVE  \A j \in 0 .. n : Stopped(f[j]) => f[n] = f[j]
<1> SUFFICES ASSUME NEW j \in 0 .. n, Stopped(f[j]) PROVE f[n] = f[j]
  OBVIOUS
<1> DEFINE P == {m \in 0 .. n : j <= m => f[m] = f[j]}
<1>1. 0 \in P
  OBVIOUS
<1>2. ASSUME NEW m \in 1 .. n, m - 1 \in P PROVE m \in P
  <2>1. CASE j <= m - 1
    <3>1. f[m] = Turn(loop, f[m - 1], r, from + m - 1, p)
      BY DEF Turns
    <3>2. f[m - 1] = f[j]
      BY <1>2, <2>1
    <3>3. f[m] = f[j]
      BY <3>1, <3>2, TurnStops
    <3> QED BY <3>3
  <2>2. CASE ~ (j <= m - 1)
    BY <2>2
  <2> QED BY <2>1, <2>2
<1>3. 0 .. n \subseteq P
  <2> HIDE DEF P
  <2> QED BY <1>1, <1>2, UpTo
<1>4. n \in P
  BY <1>3
<1> QED
  BY <1>4

\* What such a loop does to the memory.
AllMapped(s, t, R, r, V, p) ==
  /\ Maps(s, t, R, V)
  /\ Stopped(s) => Stopped(t) /\ Maps(s, t, R, {})
  /\ ~Stopped(t) => AllHold(t, p, V, "data") /\ t.pt[r][0].user

LEMMA StartLoop ==
  ASSUME NEW loop \in {"stack", "load"}, NEW s, NEW R, Sound(s, R), NEW r, Stopped(s) \/ r \in R,
         NEW from \in Nat, NEW n \in Nat \ {0}, from + n <= StackTop, NEW p \in Program,
         NEW f, Turns(f, loop, s, r, from, n, p)
  PROVE  AllMapped(s, f[n], R, r, from .. (from + n - 1), p)
<1>0. n \in Nat /\ 0 \in 0 .. n /\ n > 0
  OBVIOUS
<1>1. f[0] = s
  BY <1>0 DEF Turns
<1>2. CASE Stopped(s)
  <2>1. Stopped(f[0])
    BY <1>1, <1>2
  <2>2. f[n] = f[0]
    BY <1>0, <2>1, Sticks
  <2> QED BY <1>1, <1>2, <2>2, MapsNothing DEF AllMapped
<1>3. CASE ~Stopped(s)
  <2>1. r \in R /\ loop \in Loops
    BY <1>3 DEF Loops
  <2>2. After(f, n, s, R, r, from, p, What(loop)) /\ What(loop) = "data"
    BY <1>0, <2>1, Turned DEF What
  <2>3. ASSUME ~Stopped(f[n]) PROVE ~f[n].astray /\ \A k \in 1 .. n : ~f[k].err
    <3>1. ASSUME NEW k \in 1 .. n, f[k].err PROVE FALSE
      <4>1. Stopped(f[k]) /\ k \in 0 .. n
        BY <3>1 DEF Stopped
      <4>2. f[n] = f[k]
        BY <1>0, <4>1, Sticks
      <4> QED BY <2>3, <4>1, <4>2
    <3> QED BY <2>3, <3>1 DEF Stopped
  <2> QED BY <1>0, <1>3, <2>2, <2>3 DEF After, AllMapped
<1> QED
  BY <1>2, <1>3

LEMMA StackMapped ==
  ASSUME NEW s, NEW R, Sound(s, R), NEW r, Stopped(s) \/ r \in R, NEW p \in Program
  PROVE  AllMapped(s, map_stack(s, r, p), R, r, Stack, p)
<1> DEFINE from == StackTop - StackPages
           G(f) == f = [k \in 0 .. StackPages |->
                          IF k = 0 THEN s
                          ELSE vmm_alloc_page(f[k - 1], r, StackTop - StackPages + k - 1,
                                              Tag(p, StackTop - StackPages + k - 1, "data"))]
           h == CHOOSE f : G(f)
<1>1. /\ StackPages \in Nat \ {0} /\ from \in Nat /\ from + StackPages <= StackTop
      /\ Stack = from .. (from + StackPages - 1)
  BY Sizes, LayoutAssumption DEF Stack
<1>2. map_stack(s, r, p) = h[StackPages]
  BY DEF map_stack
<1>3. \A f : Turns(f, "stack", s, r, from, StackPages, p) <=> G(f)
  BY DEF Turns, Turn
<1>4. \E f : Turns(f, "stack", s, r, from, StackPages, p)
  BY <1>1, Loop
<1> HIDE DEF G
<1>5. G(h)
  BY <1>3, <1>4
<1>6. Turns(h, "stack", s, r, from, StackPages, p)
  BY <1>3, <1>5
<1> HIDE DEF h, from
<1>7. AllMapped(s, h[StackPages], R, r, from .. (from + StackPages - 1), p)
  BY <1>1, <1>6, StartLoop
<1> QED
  BY <1>1, <1>2, <1>7

\* The headers are read first.
LEMMA ImageMapped ==
  ASSUME NEW s, NEW R, Sound(s, R), NEW r, Stopped(s) \/ r \in R, NEW p \in Program
  PROVE  AllMapped(s, elf_load(s, r, p), R, r, Image(p), p)
<1> DEFINE n == ImageSize[p]
           c == Touch(s, File[p])
           G(f) == f = [k \in 0 .. ImageSize[p] |->
                          IF k = 0 THEN Touch(s, File[p])
                          ELSE load_page(f[k - 1], r, p, ImageStart + k - 1)]
           h == CHOOSE f : G(f)
<1>1. /\ n \in Nat \ {0} /\ ImageStart \in Nat /\ ImageStart + n <= StackTop
      /\ Image(p) = ImageStart .. (ImageStart + n - 1)
  <2>1. /\ n \in Nat \ {0} /\ ImageStart \in Nat /\ StackPages \in Nat /\ StackTop \in Nat
        /\ ImageStart + n <= StackTop - StackPages
    BY Sizes, LayoutAssumption
  <2> QED BY <2>1 DEF Image
<1>2. elf_load(s, r, p) = h[n]
  BY DEF elf_load
<1>3. \A f : Turns(f, "load", c, r, ImageStart, n, p) <=> G(f)
  BY DEF Turns, Turn
<1>4. \E f : Turns(f, "load", c, r, ImageStart, n, p)
  BY <1>1, Loop
<1> HIDE DEF G
<1>5. G(h)
  BY <1>3, <1>4
<1>6. Turns(h, "load", c, r, ImageStart, n, p)
  BY <1>3, <1>5
<1>7. /\ DOMAIN c = Fields /\ c.pt = s.pt /\ c.mem = s.mem /\ c.free = s.free
      /\ c.err = s.err /\ (s.astray => c.astray)
  BY Touched DEF Sound, Good
<1> HIDE DEF h, n, c
<1>8. Maps(s, c, R, {}) /\ Sound(c, R) /\ (Stopped(s) => Stopped(c))
  <2>1. Maps(s, c, R, {})
    BY <1>7, Unmoved
  <2> QED BY <1>7, <2>1 DEF Maps, Stopped
<1>9. AllMapped(c, h[n], R, r, Image(p), p)
  <2>1. Stopped(c) \/ r \in R
    BY <1>8
  <2>2. Sound(c, R) /\ "load" \in {"stack", "load"}
    BY <1>8
  <2>3. AllMapped(c, h[n], R, r, ImageStart .. (ImageStart + n - 1), p)
    BY <1>1, <1>6, <2>1, <2>2, StartLoop
  <2> QED BY <1>1, <2>3
<1>10. Maps(s, h[n], R, {} \cup Image(p)) /\ {} \cup Image(p) = Image(p)
  BY <1>8, <1>9, MapsTwice DEF AllMapped
<1>11. ASSUME Stopped(s) PROVE Stopped(h[n]) /\ Maps(s, h[n], R, {})
  <2>1. Stopped(h[n]) /\ Maps(c, h[n], R, {})
    BY <1>8, <1>9, <1>11 DEF AllMapped
  <2>2. Maps(s, h[n], R, {} \cup {}) /\ {} \cup {} = {}
    BY <1>8, <2>1, MapsTwice
  <2> QED BY <2>1, <2>2
<1>12. AllMapped(s, h[n], R, r, Image(p), p)
  BY <1>9, <1>10, <1>11 DEF AllMapped
<1> QED
  BY <1>2, <1>12

-----------------------------------------------------------------------------
(* A new address space *)

\* What vmm_create_pml4 does to the tables.
Copying(pt, g) == [pt EXCEPT ![g] = pt[KernelPml4]]

LEMMA TopCopied ==
  ASSUME NEW pt, NEW R, NEW place, Tree(pt, R, place), KernelPml4 \in R,
         NEW g \in DOMAIN pt, place[g] = Root
  PROVE  LET q == Copying(pt, g)
         IN  Tree(q, R \cup {g}, place) /\ SameLeaves(pt, q) /\ DOMAIN q = DOMAIN pt
<1> DEFINE q == Copying(pt, g)
<1>1. /\ DOMAIN q = DOMAIN pt /\ q[g] = pt[KernelPml4]
      /\ \A f \in DOMAIN pt : f # g => q[f] = pt[f]
  BY DEF Copying
<1> HIDE DEF q
<1>2. KernelPml4 \in DOMAIN pt /\ pt[KernelPml4] \in Table
  BY DEF Tree, Tables, TopLevel
<1>3. Tables(q, place)
  BY <1>1, <1>2 DEF Tree, Tables
<1>4. TopLevel(q, R \cup {g}, place)
  <2> SUFFICES ASSUME NEW r \in R \cup {g}
               PROVE  /\ r \in DOMAIN q /\ place[r] = Root
                      /\ q[r][0].to = BootPdpt /\ ~q[r][0].huge
    BY DEF TopLevel
  <2>1. CASE r = g
    BY <1>1, <1>2, <2>1 DEF Tree, TopLevel
  <2>2. CASE r # g
    BY <1>1, <2>2 DEF Tree, TopLevel
  <2> QED BY <2>1, <2>2
<1>5. BootPdpt \in DOMAIN pt /\ BootPdpt # g
  BY Places, Sizes DEF Tree, Tables
<1>6. q[BootPdpt] = pt[BootPdpt]
  BY <1>1, <1>5
<1>7. \A i \in Slots : PdOf(q, i) = PdOf(pt, i)
  BY <1>6 DEF PdOf
<1>8. MiddleLevel(q, place)
  BY <1>1, <1>6, <1>7 DEF Tree, MiddleLevel
<1>9. ASSUME NEW i \in Slots, NEW j \in Slots PROVE PdEntry(q, i, j) = PdEntry(pt, i, j)
  <2>1. CASE PdOf(pt, i) = 0
    BY <1>7, <2>1 DEF PdEntry
  <2>2. CASE PdOf(pt, i) # 0
    <3>1. PdOf(pt, i) \in DOMAIN pt /\ place[PdOf(pt, i)] = Middle(i)
      BY <2>2 DEF Tree, MiddleLevel
    <3>2. PdOf(pt, i) # g
      BY <3>1, Places
    <3> QED BY <1>1, <1>7, <3>1, <3>2 DEF PdEntry
  <2> QED BY <2>1, <2>2
<1>10. BottomLevel(q, place)
  BY <1>1, <1>9 DEF Tree, BottomLevel
<1>11. SameLeaves(pt, q)
  <2> SUFFICES ASSUME NEW i \in Slots, NEW j \in Slots, NEW k \in Slots
               PROVE  PtEntry(q, i, j, k) = PtEntry(pt, i, j, k)
    BY DEF SameLeaves
  <2> DEFINE e == PdEntry(pt, i, j)
  <2>1. PdEntry(q, i, j) = e
    BY <1>9
  <2>2. CASE e.huge \/ e.to = 0
    BY <2>1, <2>2 DEF PtEntry
  <2>3. CASE ~e.huge /\ e.to # 0
    <3>1. e.to \in DOMAIN pt /\ place[e.to] = Bottom(i, j)
      BY <2>3 DEF Tree, BottomLevel
    <3>2. e.to # g
      BY <3>1, Places
    <3> QED BY <1>1, <2>1, <2>3, <3>1, <3>2 DEF PtEntry
  <2> QED BY <2>2, <2>3
<1>12. LeafLevel(q)
  BY <1>6, <1>9, <1>11 DEF Tree, LeafLevel, SameLeaves
<1> QED
  BY <1>1, <1>3, <1>4, <1>8, <1>10, <1>11, <1>12 DEF Tree, q

\* The new top level leads to the tree, unless the memory ran out.
Created(s, t, R) ==
  /\ Maps(s, t, R, {})
  /\ ~Stopped(t) => t.got \notin R /\ Sound(t, R \cup {t.got})

LEMMA Pml4Created ==
  ASSUME NEW s, NEW R, Sound(s, R), KernelPml4 \in R, ~s.err
  PROVE  Created(s, vmm_create_pml4(s), R)
<1> DEFINE a == alloc_table(s)
           b == vmm_create_pml4(s)
           g == a.got
<1>1. PICK place : Good(s, R, place)
  BY DEF Sound
<1> DEFINE there == Put(place, g, Root)
<1>2. /\ DOMAIN a = Fields
      /\ \/ a.err /\ a.free = s.free /\ a.pt = s.pt /\ Good(a, R, place) /\ Grown(s, a, R)
         \/ /\ g \in s.free /\ g \notin a.free /\ a.free \subseteq s.free
            /\ a.pt = Put(s.pt, g, EmptyTable)
            /\ Good(a, R, there) /\ Grown(s, a, R)
  BY <1>1, TableAllocated
<1>3. b = IF Stopped(a) THEN a ELSE [a EXCEPT !.pt = Copying(@, g)]
  BY DEF vmm_create_pml4, Copying
<1> HIDE DEF a, b, g
<1>4. Tree(s.pt, R, place) /\ s.free \cap DOMAIN s.pt = {}
  BY <1>1 DEF Good
<1>5. \E at : Good(a, R, at)
  BY <1>2
<1>6. SameLeaves(s.pt, a.pt)
  <2>1. CASE a.pt = s.pt
    BY <2>1 DEF SameLeaves
  <2>2. CASE g \in s.free /\ a.pt = Put(s.pt, g, EmptyTable)
    <3>1. g \notin DOMAIN s.pt
      BY <1>4, <2>2
    <3>2. Beside(s.pt, Put(s.pt, g, EmptyTable), g)
      BY <1>4, <3>1, LooseLeaves
    <3> QED BY <2>2, <3>2 DEF Beside
  <2> QED BY <1>2, <2>1, <2>2
<1>7. Sound(a, R) /\ Maps(s, a, R, {})
  <2>1. \A w \in Pages : Leaf(a.pt, w) = Leaf(s.pt, w)
    BY <1>6, SameLeaf
  <2>2. Grown(s, a, R)
    BY <1>2
  <2>3. Sound(a, R)
    BY <1>5, <2>1, <2>2, StaysSound
  <2> QED BY <2>1, <2>2, <2>3 DEF Maps
<1>8. CASE Stopped(a)
  <2>1. Created(s, b, R)
    BY <1>3, <1>7, <1>8 DEF Created
  <2> QED BY <2>1 DEF b
<1>9. CASE ~Stopped(a)
  <2> DEFINE Q == R \cup {g}
  <2>1. /\ g \in s.free /\ a.pt = Put(s.pt, g, EmptyTable) /\ Good(a, R, there)
    BY <1>2, <1>9 DEF Stopped
  <2>2. g \in DOMAIN a.pt /\ there[g] = Root
    BY <2>1 DEF Put
  <2>3. /\ DOMAIN b = Fields /\ b.pt = Copying(a.pt, g) /\ b.mem = a.mem /\ b.free = a.free
        /\ b.got = g /\ b.err = a.err /\ b.astray = a.astray
    BY <1>2, <1>3, <1>9 DEF Fields, g
  <2>4. Tree(a.pt, R, there)
    BY <2>1 DEF Good
  <2> HIDE DEF there
  <2>5. Tree(b.pt, Q, there) /\ SameLeaves(a.pt, b.pt) /\ DOMAIN b.pt = DOMAIN a.pt
    BY <2>2, <2>3, <2>4, TopCopied
  <2>6. Good(b, Q, there) /\ Good(b, R, there)
    BY <2>1, <2>3, <2>5 DEF Good, Tree, TopLevel
  <2>7. g \notin R
    BY <1>4, <2>1 DEF Tree, TopLevel
  <2>8. \A r \in R : b.pt[r] = a.pt[r]
    BY <2>3, <2>4, <2>7 DEF Copying, Tree, TopLevel
  <2>9. Grown(a, b, R)
    BY <2>3, <2>5, <2>8 DEF Grown
  <2>10. \A w \in Pages : Leaf(b.pt, w) = Leaf(a.pt, w)
    BY <2>5, SameLeaf
  <2>11. Sound(b, Q) /\ Sound(b, R)
    BY <1>7, <2>6, <2>9, <2>10, StaysSound
  <2>12. Maps(a, b, R, {})
    BY <2>9, <2>10, <2>11 DEF Maps
  <2>13. {} \cup {} = {}
    OBVIOUS
  <2>14. Maps(s, b, R, {})
    BY <1>7, <2>12, <2>13, MapsTwice
  <2>15. Created(s, b, R)
    BY <2>3, <2>7, <2>11, <2>14 DEF Created
  <2> QED BY <2>15 DEF b
<1> QED
  BY <1>8, <1>9

-----------------------------------------------------------------------------
(* The kernel's own frames *)

\* A run of free frames is taken and written for the kernel, unless there is none.
RunTaken(s, a, tag) ==
  /\ DOMAIN a = Fields /\ a.pt = s.pt /\ a.astray = s.astray
  /\ \/ a.err /\ a.free = s.free /\ a.mem = s.mem
     \/ \E run \in SUBSET s.free :
          /\ a.err = s.err /\ a.free = s.free \ run
          /\ a.mem = [f \in DOMAIN s.mem \cup run |-> IF f \in run THEN tag ELSE s.mem[f]]

LEMMA Contiguous ==
  ASSUME NEW s, DOMAIN s = Fields, s.free \subseteq MemFrames, NEW n, NEW tag
  PROVE  RunTaken(s, pmm_alloc_contiguous(s, n, tag), tag)
<1> DEFINE run(i) == i .. (i + n - 1)
           runs == {i \in s.free : run(i) \subseteq s.free}
           ahead == {i \in runs : i >= s.last}
           behind == {i \in runs : i + n <= s.last}
           T == IF ahead # {} THEN ahead ELSE behind
           a == pmm_alloc_contiguous(s, n, tag)
<1>1. CASE ahead = {} /\ behind = {}
  <2>1. a = [s EXCEPT !.err = TRUE]
    BY <1>1 DEF pmm_alloc_contiguous
  <2> QED BY <2>1 DEF Fields, RunTaken
<1>2. CASE ~ (ahead = {} /\ behind = {})
  <2> DEFINE g == Min(T)
             last == IF ahead # {} THEN g + n ELSE s.last
             mem == [f \in DOMAIN s.mem \cup run(g) |-> IF f \in run(g) THEN tag ELSE s.mem[f]]
  <2>1. T \subseteq runs /\ T # {} /\ runs \subseteq s.free /\ s.free \subseteq Nat
    BY <1>2, Frames
  <2>2. \A i \in runs : run(i) \subseteq s.free
    OBVIOUS
  <2>3. a = [s EXCEPT !.got = g, !.free = s.free \ run(g), !.last = last, !.mem = mem]
    BY <1>2 DEF pmm_alloc_contiguous
  <2> HIDE DEF T, runs, a
  <2>4. g \in T
    BY <2>1, Least
  <2>5. run(g) \subseteq s.free
    BY <2>1, <2>2, <2>4
  <2> DEFINE A == run(g)
  <2>6. a = [s EXCEPT !.got = g, !.free = s.free \ A, !.last = last, !.mem = mem]
        /\ mem = [f \in DOMAIN s.mem \cup A |-> IF f \in A THEN tag ELSE s.mem[f]]
        /\ A \in SUBSET s.free
    BY <2>3, <2>5
  <2> HIDE DEF A, mem, last, g
  <2>7. /\ DOMAIN a = Fields /\ a.pt = s.pt /\ a.astray = s.astray /\ a.err = s.err
        /\ a.free = s.free \ A /\ a.mem = mem
    BY <2>6 DEF Fields
  <2>8. RunTaken(s, a, tag)
    BY <2>6, <2>7 DEF RunTaken
  <2> QED BY <2>8 DEF a
<1> QED
  BY <1>1, <1>2

\* What the kernel does for itself leaves every page alone, and a failure lasts.
Aside(s, t, R) == Maps(s, t, R, {}) /\ (~Stopped(t) => ~Stopped(s))

LEMMA AsideTwice ==
  ASSUME NEW s, NEW t, NEW u, NEW R, Aside(s, t, R), Aside(t, u, R)
  PROVE  Aside(s, u, R)
<1>1. {} \cup {} = {}
  OBVIOUS
<1> QED
  BY <1>1, MapsTwice DEF Aside

LEMMA AsideNothing ==
  ASSUME NEW s, NEW R, Sound(s, R)
  PROVE  Aside(s, s, R)
BY MapsNothing DEF Aside

LEMMA AsideTouched ==
  ASSUME NEW s, NEW R, Sound(s, R), NEW F
  PROVE  Aside(s, TouchAll(s, F), R)
<1> DEFINE t == TouchAll(s, F)
<1>1. SameBut(s, t)
  BY TouchedAll DEF Sound, Good
<1> HIDE DEF t
<1>2. Maps(s, t, R, {})
  BY <1>1, Unmoved DEF SameBut
<1> QED
  BY <1>1, <1>2 DEF Aside, SameBut, Stopped, t

LEMMA AsideGot ==
  ASSUME NEW s, NEW R, Sound(s, R), NEW f
  PROVE  Aside(s, [s EXCEPT !.got = f], R)
<1> DEFINE t == [s EXCEPT !.got = f]
<1>1. /\ DOMAIN t = Fields /\ t.pt = s.pt /\ t.mem = s.mem /\ t.free = s.free
      /\ t.err = s.err /\ t.astray = s.astray
  BY DEF Sound, Good, Fields
<1> HIDE DEF t
<1>2. Maps(s, t, R, {})
  BY <1>1, Unmoved
<1> QED
  BY <1>1, <1>2 DEF Aside, Stopped, t

LEMMA AsideTaken ==
  ASSUME NEW s, NEW R, Sound(s, R), NEW n, NEW tag
  PROVE  Aside(s, pmm_alloc_contiguous(s, n, tag), R)
<1> DEFINE t == pmm_alloc_contiguous(s, n, tag)
<1>1. RunTaken(s, t, tag)
  BY Contiguous DEF Sound, Good
<1> HIDE DEF t
<1>2. ASSUME t.free = s.free, t.mem = s.mem
      PROVE  Maps(s, t, R, {})
  BY <1>1, <1>2, Unmoved DEF RunTaken
<1>3. ASSUME NEW A \in SUBSET s.free, t.free = s.free \ A,
             t.mem = [f \in DOMAIN s.mem \cup A |-> IF f \in A THEN tag ELSE s.mem[f]]
      PROVE  Maps(s, t, R, {})
  <2>1. DOMAIN t = Fields /\ t.pt = s.pt /\ t.astray = s.astray
    BY <1>1 DEF RunTaken
  <2>2. PICK place : Good(s, R, place)
    BY DEF Sound
  <2>3. Good(t, R, place)
    BY <1>3, <2>1, <2>2 DEF Good
  <2>4. \A f \in DOMAIN s.mem \ s.free : f \in DOMAIN t.mem /\ t.mem[f] = s.mem[f]
    BY <1>3
  <2>5. Grown(s, t, R)
    BY <1>3, <2>1, <2>4 DEF Grown
  <2>6. \A w \in Pages : Leaf(t.pt, w) = Leaf(s.pt, w)
    BY <2>1
  <2>7. Sound(t, R)
    BY <2>3, <2>5, <2>6, StaysSound
  <2> QED BY <2>5, <2>6, <2>7 DEF Maps
<1>4. Maps(s, t, R, {})
  BY <1>1, <1>2, <1>3 DEF RunTaken
<1>5. ~Stopped(t) => ~Stopped(s)
  BY <1>1 DEF RunTaken, Stopped
<1> QED
  BY <1>4, <1>5 DEF Aside, t

LEMMA AsidePool ==
  ASSUME NEW s, NEW R, Sound(s, R)
  PROVE  Aside(s, add_pool(s), R)
<1> DEFINE a == pmm_alloc_contiguous(s, PoolPages, KernelTag("pool"))
<1>1. Aside(s, a, R)
  BY AsideTaken
<1>2. add_pool(s) = a \/ add_pool(s) = TouchAll(a, {a.got})
  BY DEF add_pool, Touch
<1> HIDE DEF a
<1>3. Aside(a, a, R) /\ Aside(a, TouchAll(a, {a.got}), R)
  BY <1>1, AsideTouched, AsideNothing DEF Aside, Maps
<1> QED
  BY <1>1, <1>2, <1>3, AsideTwice

LEMMA AsideMalloc ==
  ASSUME NEW s, NEW R, Sound(s, R), NEW m \in malloc(s)
  PROVE  Aside(s, m, R) /\ (Stopped(s) => m = s)
<1> DEFINE heap == Heap \cup Pools(s)
           walks == {TouchAll(s, walked) : walked \in SUBSET heap}
           found == {[Touch(w, f) EXCEPT !.got = f] : w \in walks, f \in heap}
           added == {a \in {add_pool(w) : w \in walks} :
                       ~a.err /\ Cardinality(Pools(a)) <= MaxPools}
<1>1. CASE Stopped(s)
  <2>1. m = s
    BY <1>1 DEF malloc
  <2> QED BY <2>1, AsideNothing
<1>2. CASE ~Stopped(s)
  <2>1. m \in found \/ m \in added
    BY <1>2 DEF malloc
  <2>2. \A w \in walks : Aside(s, w, R)
    BY AsideTouched
  <2>3. \A w \in walks : Sound(w, R)
    BY <2>2 DEF Aside, Maps
  <2>4. CASE m \in found
    <3>1. PICK w \in walks, f \in heap : m = [Touch(w, f) EXCEPT !.got = f]
      BY <2>4
    <3> DEFINE x == TouchAll(w, {f})
    <3>2. Aside(s, w, R) /\ Sound(w, R) /\ m = [x EXCEPT !.got = f]
      BY <2>2, <2>3, <3>1 DEF Touch
    <3>3. Aside(w, x, R)
      BY <3>2, AsideTouched
    <3> HIDE DEF x
    <3>4. Aside(s, x, R) /\ Sound(x, R)
      BY <3>2, <3>3, AsideTwice DEF Aside, Maps
    <3>5. Aside(x, m, R)
      BY <3>2, <3>4, AsideGot
    <3> QED BY <1>2, <3>4, <3>5, AsideTwice
  <2>5. CASE m \in added
    <3>1. PICK w \in walks : m = add_pool(w) /\ ~m.err
      BY <2>5
    <3>2. Aside(s, w, R) /\ Sound(w, R)
      BY <2>2, <2>3, <3>1
    <3> QED BY <1>2, <3>1, <3>2, AsidePool, AsideTwice
  <2> QED BY <2>1, <2>4, <2>5
<1> QED
  BY <1>1, <1>2

LEMMA AsideTask ==
  ASSUME NEW s, NEW R, Sound(s, R), NEW at
  PROVE  Aside(s, task_create_user(s, at), R) /\ (Stopped(s) => task_create_user(s, at) = s)
<1> DEFINE a == pmm_alloc_contiguous(s, KStackPages, KernelTag("stack"))
           t == task_create_user(s, at)
<1>1. CASE Stopped(s)
  <2>1. t = s
    BY <1>1 DEF task_create_user
  <2> QED BY <2>1, AsideNothing
<1>2. CASE ~Stopped(s)
  <2>1. Aside(s, a, R)
    BY AsideTaken
  <2>2. t = TouchAll(a, {at}) \/ t = TouchAll(a, {at, a.got + KStackPages - 1})
    <3>1. CASE a.err
      BY <1>2, <3>1 DEF task_create_user, Touch
    <3>2. CASE ~a.err
      BY <1>2, <3>2 DEF task_create_user
    <3> QED BY <3>1, <3>2
  <2> HIDE DEF a, t
  <2>3. Aside(a, t, R)
    BY <2>1, <2>2, AsideTouched DEF Aside, Maps
  <2> QED BY <1>2, <2>1, <2>3, AsideTwice DEF t
<1> QED
  BY <1>1, <1>2

-----------------------------------------------------------------------------
(* Translation leads where the leaf says *)

Leads(pt, r, v) ==
  /\ Lookup(pt, r, v).frame = Leaf(pt, v).to
  /\ Lookup(pt, r, v).user <=> pt[r][0].user /\ Leaf(pt, v).user
  /\ ~Leaf(pt, v).user => Lookup(pt, r, v) = [frame |-> Leaf(pt, v).to, user |-> FALSE]

LEMMA Translation ==
  ASSUME NEW pt, NEW R, NEW place, Tree(pt, R, place), NEW r \in R, NEW v \in Pages
  PROVE  Leads(pt, r, v)
<1> DEFINE i == I3(v)
           j == I2(v)
           k == I1(v)
           e4 == pt[r][I4(v)]
           e3 == IF e4.to = 0 THEN Absent ELSE pt[e4.to][i]
           e2 == IF e3.to = 0 THEN Absent ELSE pt[e3.to][j]
           e1 == IF e2.to = 0 /\ ~e2.huge THEN Absent ELSE pt[e2.to][k]
           m == Lookup(pt, r, v)
           l == Leaf(pt, v)
<1>1. I4(v) = 0 /\ i \in Slots /\ j \in Slots /\ k \in Slots
  BY Indices
<1>2. m = IF e2.huge THEN [frame |-> e2.to + k, user |-> e4.user /\ e3.user /\ e2.user]
          ELSE [frame |-> e1.to, user |-> (e4.user /\ e3.user /\ e2.user) /\ e1.user]
  BY DEF Lookup
<1>3. l = PtEntry(pt, i, j, k)
  BY DEF Leaf
<1> HIDE DEF m, l, i, j, k
<1>4. e4 = pt[r][0] /\ e3 = pt[BootPdpt][i]
  <2>1. e4 = pt[r][0] /\ e4.to = BootPdpt
    BY <1>1 DEF Tree, TopLevel
  <2> HIDE DEF e4
  <2> QED BY <2>1 DEF BootPdpt
<1> HIDE DEF e4
<1>5. e2 = PdEntry(pt, i, j)
  BY <1>4 DEF PdEntry, PdOf
<1> HIDE DEF e3, e2
<1>6. CASE e2.huge
  <2>1. l = Entry(e2.to + k, FALSE, FALSE)
    BY <1>3, <1>5, <1>6 DEF PtEntry
  <2>2. l.to = e2.to + k /\ ~l.user
    BY <2>1 DEF Entry
  <2>3. ~e2.user
    BY <1>1, <1>5, <1>6 DEF Tree, BottomLevel
  <2>4. m = [frame |-> e2.to + k, user |-> e4.user /\ e3.user /\ e2.user]
    BY <1>2, <1>6
  <2>5. m = [frame |-> e2.to + k, user |-> FALSE]
    BY <2>3, <2>4
  <2> QED BY <2>2, <2>5 DEF Leads, m, l
<1>7. CASE ~e2.huge
  <2>1. e1 = l
    <3>1. CASE e2.to = 0
      BY <1>3, <1>5, <1>7, <3>1 DEF PtEntry
    <3>2. CASE e2.to # 0
      BY <1>3, <1>5, <1>7, <3>2 DEF PtEntry
    <3> QED BY <3>1, <3>2
  <2>2. m = [frame |-> e1.to, user |-> (e4.user /\ e3.user /\ e2.user) /\ e1.user]
    BY <1>2, <1>7
  <2> HIDE DEF e1
  <2>3. m = [frame |-> l.to, user |-> (e4.user /\ e3.user /\ e2.user) /\ l.user]
    BY <2>1, <2>2
  <2>4. l.user => e3.user /\ e2.user
    BY <1>1, <1>3, <1>4, <1>5 DEF Tree, LeafLevel
  <2>5. m.frame = l.to /\ (m.user <=> (e4.user /\ e3.user /\ e2.user) /\ l.user)
    BY <2>3
  <2>6. ~l.user => m = [frame |-> l.to, user |-> FALSE]
    BY <2>3
  <2> QED BY <1>4, <2>4, <2>5, <2>6 DEF Leads, m, l
<1> QED
  BY <1>6, <1>7

-----------------------------------------------------------------------------
(* argc and argv *)

\* The last page of the stack is written, nothing else changes.
ArgvWritten(s, t, p) ==
  /\ t.pt = s.pt /\ t.free = s.free /\ t.err = s.err /\ t.astray = s.astray
  /\ Holds(t, StackTop - 1, Tag(p, StackTop - 1, "argv"))
  /\ \A tag : \A v \in Pages \ {StackTop - 1} : Holds(s, v, tag) => Holds(t, v, tag)

LEMMA ArgvPut ==
  ASSUME NEW s, NEW R, Sound(s, R), cr3 \in R, NEW p \in Program,
         UserLeaf(s, StackTop - 1), ~Stopped(s)
  PROVE  Sound(elf_setup_stack(s, p), R) /\ ArgvWritten(s, elf_setup_stack(s, p), p)
<1> DEFINE w == StackTop - 1
           f == FrameOf(s, w)
           tag == Tag(p, w, "argv")
           t == elf_setup_stack(s, p)
<1>1. PICK place : Good(s, R, place)
  BY DEF Sound
<1>2. w \in Pages
  BY Sizes DEF Pages
<1>3. Lookup(s.pt, cr3, w).frame = f
  <2>1. Leads(s.pt, cr3, w)
    BY <1>1, <1>2, Translation DEF Good
  <2> QED BY <2>1 DEF Leads, FrameOf
<1>4. t = [s EXCEPT !.mem = Put(@, f, tag)]
  BY <1>3 DEF elf_setup_stack
<1>5. tag.owner \in Program
  BY DEF Tag
<1> HIDE DEF t, tag, f, w
<1>6. /\ DOMAIN t = Fields /\ t.pt = s.pt /\ t.free = s.free /\ t.err = s.err
      /\ t.astray = s.astray /\ t.mem = Put(s.mem, f, tag)
  BY <1>1, <1>4 DEF Good, Fields
<1>7. Good(t, R, place)
  BY <1>1, <1>6 DEF Good
<1>8. \A v \in Pages : UserLeaf(t, v) = UserLeaf(s, v) /\ FrameOf(t, v) = FrameOf(s, v)
  BY <1>6 DEF UserLeaf, FrameOf
<1>9. Apart(t)
  BY <1>6, <1>8 DEF Sound, Apart
<1>10. \A g \in DOMAIN s.mem : g \in DOMAIN t.mem /\ (g # f => t.mem[g] = s.mem[g])
  BY <1>6 DEF Put
<1>11. f \in DOMAIN t.mem /\ t.mem[f] = tag
  BY <1>6 DEF Put
<1>12. Owned(t)
  <2> SUFFICES ASSUME NEW v \in Pages, UserLeaf(s, v)
               PROVE  /\ FrameOf(s, v) \in DOMAIN t.mem
                      /\ t.mem[FrameOf(s, v)].owner \in Program
    BY <1>8 DEF Owned
  <2>1. FrameOf(s, v) \in DOMAIN s.mem /\ s.mem[FrameOf(s, v)].owner \in Program
    BY DEF Sound, Owned
  <2> QED BY <1>5, <1>10, <1>11, <2>1
<1>13. Sound(t, R)
  BY <1>7, <1>9, <1>12 DEF Sound
<1>14. Holds(t, w, tag)
  BY <1>2, <1>8, <1>11 DEF Holds, f, w
<1>15. ASSUME NEW v \in Pages \ {w}, NEW what, Holds(s, v, what) PROVE Holds(t, v, what)
  <2>1. UserLeaf(s, v) /\ UserLeaf(s, w) /\ v # w
    BY <1>15 DEF Holds, w
  <2>2. FrameOf(s, v) # f /\ FrameOf(s, v) \in DOMAIN s.mem
    BY <1>2, <2>1 DEF Sound, Apart, Owned, f
  <2> QED BY <1>8, <1>10, <1>15, <2>2 DEF Holds
<1> QED
  BY <1>6, <1>13, <1>14, <1>15 DEF ArgvWritten, t, tag, w

-----------------------------------------------------------------------------
(* What the pages are for *)

LEMMA Areas ==
  ASSUME NEW p \in Program
  PROVE  Image(p) \subseteq Images /\ Image(p) \subseteq Pages /\ Image(p) \cap Stack = {}
<1>1. /\ ImageStart \in Nat /\ ImageSize[p] \in Nat \ {0} /\ StackPages \in Nat \ {0}
      /\ StackTop \in Nat /\ ImageStart + ImageSize[p] <= StackTop - StackPages
  BY Sizes, LayoutAssumption
<1>2. Image(p) \subseteq Pages /\ Image(p) \cap Stack = {}
  BY <1>1 DEF Image, Pages, Stack
<1> QED
  BY <1>2 DEF Images

\* Low memory but for the pages X is as the boot tables map it.
Ident(s, X) ==
  \A w \in (0 .. (N * N - 1)) \ X : Leaf(s.pt, w) = Entry(w, FALSE, FALSE)

LEMMA IdentKept ==
  ASSUME NEW s, NEW t, NEW R, NEW V, Maps(s, t, R, V),
         NEW X, Ident(s, X), NEW Y, X \subseteq Y, V \subseteq Y \cup Stack
  PROVE  Ident(t, Y)
<1> SUFFICES ASSUME NEW w \in (0 .. (N * N - 1)) \ Y
             PROVE  Leaf(t.pt, w) = Entry(w, FALSE, FALSE)
  BY DEF Ident
<1>1. w \in Pages \ V
  BY Sizes
<1> QED
  BY <1>1 DEF Ident, Maps

\* Root r has what program p needs, but for the pages A it has asked for anew.
Ready(s, r, p, A) ==
  /\ s.pt[r][0].user
  /\ AllHold(s, p, Image(p) \ A, "data")
  /\ \A v \in Stack \ A : UserLeaf(s, v)
  /\ StackTop - 1 \notin A => Holds(s, StackTop - 1, Tag(p, StackTop - 1, "argv"))

LEMMA AllHoldKept ==
  ASSUME NEW s, NEW t, NEW R, NEW V, Sound(s, R), Maps(s, t, R, V), NEW p, NEW what,
         NEW W, W \subseteq Pages, W \cap V = {}, AllHold(s, p, W, what)
  PROVE  AllHold(t, p, W, what)
<1> SUFFICES ASSUME NEW w \in W PROVE Holds(t, w, Tag(p, w, what))
  BY DEF AllHold
<1>1. w \in Pages \ V /\ Leaf(t.pt, w) = Leaf(s.pt, w) /\ Grown(s, t, R)
  BY DEF Maps
<1>2. Holds(s, w, Tag(p, w, what))
  BY DEF AllHold
<1> QED
  BY <1>1, <1>2, StillHolds

LEMMA ReadyKept ==
  ASSUME NEW s, NEW t, NEW R, NEW V, Sound(s, R), Maps(s, t, R, V), NEW r \in R,
         NEW p \in Program, NEW A, Ready(s, r, p, A), NEW B, A \subseteq B, V \subseteq B
  PROVE  Ready(t, r, p, B)
<1>1. t.pt[r][0].user
  BY DEF Ready, Maps, Grown
<1>2. AllHold(t, p, Image(p) \ B, "data")
  <2> DEFINE W == Image(p) \ B
  <2>1. W \subseteq Pages /\ W \cap V = {}
    BY Areas
  <2>2. AllHold(s, p, W, "data")
    BY DEF Ready, AllHold
  <2> HIDE DEF W
  <2>3. AllHold(t, p, W, "data")
    BY <2>1, <2>2, AllHoldKept
  <2> QED BY <2>3 DEF W
<1>3. \A v \in Stack \ B : v \in Pages \ V /\ Leaf(t.pt, v) = Leaf(s.pt, v)
  BY Sizes DEF Maps
<1>4. \A v \in Stack \ B : UserLeaf(t, v)
  BY <1>3 DEF Ready, UserLeaf
<1>5. ASSUME StackTop - 1 \notin B
      PROVE  Holds(t, StackTop - 1, Tag(p, StackTop - 1, "argv"))
  <2> DEFINE v == StackTop - 1
             tag == Tag(p, v, "argv")
  <2>1. v \in Pages /\ Leaf(t.pt, v) = Leaf(s.pt, v) /\ Holds(s, v, tag) /\ Grown(s, t, R)
    BY <1>3, <1>5, Sizes DEF Ready, Maps
  <2> HIDE DEF v, tag
  <2>2. Holds(t, v, tag)
    BY <2>1, StillHolds
  <2> QED BY <2>2 DEF v, tag
<1> QED
  BY <1>1, <1>2, <1>4, <1>5 DEF Ready

LEMMA SoundFewer ==
  ASSUME NEW s, NEW Q, Sound(s, Q), NEW R, R \subseteq Q
  PROVE  Sound(s, R)
<1>1. PICK place : Good(s, Q, place)
  BY DEF Sound
<1>2. Good(s, R, place)
  BY <1>1 DEF Good, Tree, TopLevel
<1> QED
  BY <1>2 DEF Sound

\* A program that is started: with a failure on the way nothing is lost,
\* without one the new address space is ready.
Launched(c, R, g, p, X) ==
  /\ Sound(c, R)
  /\ Ident(c, X)
  /\ ~Stopped(c) => g \notin R /\ Sound(c, R \cup {g}) /\ Ready(c, g, p, {})

LEMMA Launch ==
  ASSUME NEW R, Sound(vm, R), KernelPml4 \in R, cr3 \in R, ~vm.err,
         NEW X, Images \subseteq X, Ident(vm, X), NEW p \in Program, NEW m, NEW at,
         LET a == elf_create_pml4(p)
         IN  m \in malloc(elf_setup_stack(elf_load(a, a.got, p), p))
  PROVE  Launched(task_create_user(m, at), R, elf_create_pml4(p).got, p, X)
<1> DEFINE x == vmm_create_pml4(vm)
           g == x.got
           Q == R \cup {g}
           y == map_stack(x, g, p)
           a == elf_create_pml4(p)
           b == elf_load(a, g, p)
           s == elf_setup_stack(b, p)
           c == task_create_user(m, at)
<1>1. Created(vm, x, R)
  BY Pml4Created
<1>2. a = [y EXCEPT !.got = g]
  BY DEF elf_create_pml4
<1>0. m \in malloc(elf_setup_stack(elf_load(a, a.got, p), p))
  OBVIOUS
<1> HIDE DEF x, g, y, a, s, c
<1>3. Sound(x, R) /\ Ident(x, X)
  <2>1. Maps(vm, x, R, {}) /\ {} \subseteq X \cup Stack
    BY <1>1 DEF Created
  <2>2. Ident(x, X)
    BY <2>1, IdentKept
  <2> QED BY <2>1, <2>2 DEF Maps
<1>4. ASSUME NEW P, Sound(x, P), Stopped(x) \/ g \in P
      PROVE  /\ AllMapped(x, y, P, g, Stack, p)
             /\ Maps(y, a, P, {}) /\ a.got = g /\ a.err = y.err /\ a.astray = y.astray
             /\ AllMapped(a, b, P, g, Image(p), p)
  <2>1. AllMapped(x, y, P, g, Stack, p)
    BY <1>4, StackMapped DEF y
  <2>2. Sound(y, P) /\ (Stopped(x) => Stopped(y))
    BY <2>1 DEF AllMapped, Maps
  <2>3. DOMAIN y = Fields
    BY <2>2 DEF Sound, Good
  <2>4. /\ DOMAIN a = Fields /\ a.pt = y.pt /\ a.mem = y.mem /\ a.free = y.free
        /\ a.got = g /\ a.err = y.err /\ a.astray = y.astray
    BY <1>2, <2>3 DEF Fields
  <2>5. Maps(y, a, P, {})
    BY <2>2, <2>4, Unmoved
  <2>6. Sound(a, P) /\ (Stopped(a) \/ g \in P)
    BY <1>4, <2>2, <2>4, <2>5 DEF Maps, Stopped
  <2>7. AllMapped(a, b, P, g, Image(p), p)
    BY <2>6, ImageMapped
  <2> QED BY <2>1, <2>4, <2>5, <2>7
<1>8. a.got = g
  <2>1. Stopped(x) \/ (Sound(x, Q) /\ g \in Q)
    BY <1>1 DEF Created, g
  <2> HIDE DEF Q
  <2> QED BY <1>3, <1>4, <2>1
<1>9. m \in malloc(s)
  BY <1>0, <1>8 DEF s
<1> HIDE DEF b
<1>5. ASSUME Stopped(b), Sound(b, R), Ident(b, X) PROVE Launched(c, R, g, p, X)
  <2>1. s = b
    BY <1>5 DEF s, elf_setup_stack
  <2>2. m = b
    BY <1>5, <1>9, <2>1, AsideMalloc
  <2>3. c = b
    BY <1>5, <2>2, AsideTask DEF c
  <2> QED BY <1>5, <2>3 DEF Launched
<1>6. ASSUME Stopped(x) PROVE Launched(c, R, g, p, X)
  <2>1. AllMapped(x, y, R, g, Stack, p) /\ Maps(y, a, R, {}) /\ AllMapped(a, b, R, g, Image(p), p)
        /\ a.err = y.err /\ a.astray = y.astray
    BY <1>3, <1>4, <1>6
  <2>2. Stopped(y) /\ Maps(x, y, R, {})
    BY <1>6, <2>1 DEF AllMapped
  <2>3. Stopped(a)
    BY <2>1, <2>2 DEF Stopped
  <2>4. Stopped(b) /\ Maps(a, b, R, {})
    BY <2>1, <2>3 DEF AllMapped
  <2>5. Maps(x, a, R, {} \cup {})
    BY <2>1, <2>2, MapsTwice
  <2>6. Maps(x, b, R, ({} \cup {}) \cup {}) /\ ({} \cup {}) \cup {} \subseteq X \cup Stack
    BY <2>4, <2>5, MapsTwice
  <2>7. Sound(b, R) /\ Ident(b, X)
    BY <1>3, <2>6, IdentKept DEF Maps
  <2> QED BY <1>5, <2>4, <2>7
<1>7. ASSUME ~Stopped(x) PROVE Launched(c, R, g, p, X)
  <2>1. g \notin R /\ Sound(x, Q)
    BY <1>1, <1>7 DEF Created, g
  <2>2. R \subseteq Q /\ g \in Q /\ cr3 \in Q
    OBVIOUS
  <2> HIDE DEF Q
  <2>3. /\ AllMapped(x, y, Q, g, Stack, p)
        /\ Maps(y, a, Q, {}) /\ a.err = y.err /\ a.astray = y.astray
        /\ AllMapped(a, b, Q, g, Image(p), p)
    BY <1>4, <2>1, <2>2
  <2>4. Maps(x, y, Q, Stack) /\ Maps(a, b, Q, Image(p))
    BY <2>3 DEF AllMapped
  <2>5. /\ Image(p) \subseteq X /\ Image(p) \subseteq Pages /\ Image(p) \cap Stack = {}
        /\ Stack \subseteq Pages /\ StackTop - 1 \in Stack
    BY Areas, Sizes
  <2>6. Ident(b, X)
    <3>1. Ident(y, X)
      BY <1>3, <2>4, IdentKept
    <3>2. Ident(a, X)
      BY <2>3, <3>1, IdentKept
    <3> QED BY <2>4, <2>5, <3>2, IdentKept
  <2>7. Sound(y, Q) /\ Sound(a, Q) /\ Sound(b, Q) /\ Sound(b, R)
    BY <2>2, <2>3, <2>4, SoundFewer DEF Maps
  <2>8. CASE Stopped(b)
    BY <1>5, <2>6, <2>7, <2>8
  <2>9. CASE ~Stopped(b)
    <3>1. ~Stopped(a)
      BY <2>3, <2>9 DEF AllMapped
    <3>2. ~Stopped(y)
      BY <2>3, <3>1 DEF Stopped
    <3>3. AllHold(y, p, Stack, "data") /\ y.pt[g][0].user /\ AllHold(b, p, Image(p), "data") /\ b.pt[g][0].user
      BY <2>3, <2>9, <3>2 DEF AllMapped
    <3>4. AllHold(b, p, Stack, "data")
      <4>1. AllHold(a, p, Stack, "data")
        BY <2>3, <2>5, <2>7, <3>3, AllHoldKept
      <4> QED BY <2>4, <2>5, <2>7, <4>1, AllHoldKept
    <3>5. \A v \in Stack : UserLeaf(b, v)
      BY <3>4 DEF AllHold, Holds
    <3>6. Sound(s, Q) /\ ArgvWritten(b, s, p)
      BY <2>2, <2>5, <2>7, <2>9, <3>5, ArgvPut DEF s
    <3>7. Ident(s, X)
      BY <2>6, <3>6 DEF ArgvWritten, Ident
    <3>8. Maps(s, c, Q, {})
      <4>1. Aside(s, m, Q) /\ Sound(m, Q)
        BY <1>9, <3>6, AsideMalloc DEF Aside, Maps
      <4>2. Aside(m, c, Q)
        BY <4>1, AsideTask DEF c
      <4> QED BY <4>1, <4>2, AsideTwice DEF Aside
    <3>9. Ready(s, g, p, {})
      <4>1. s.pt[g][0].user
        BY <3>3, <3>6 DEF ArgvWritten
      <4>2. AllHold(s, p, Image(p) \ {}, "data")
        BY <2>5, <3>3, <3>6 DEF AllHold, ArgvWritten
      <4>3. \A v \in Stack \ {} : UserLeaf(s, v)
        BY <3>5, <3>6 DEF ArgvWritten, UserLeaf
      <4> QED BY <3>6, <4>1, <4>2, <4>3 DEF Ready, ArgvWritten
    <3>10. Ready(c, g, p, {})
      BY <2>2, <3>6, <3>8, <3>9, ReadyKept
    <3>11. Sound(c, Q) /\ Sound(c, R) /\ Ident(c, X)
      BY <2>2, <3>7, <3>8, IdentKept, SoundFewer DEF Maps
    <3> QED BY <2>1, <3>10, <3>11 DEF Launched, Q
  <2> QED BY <2>8, <2>9
<1> QED
  BY <1>6, <1>7, <1>8 DEF b, c, s, a

-----------------------------------------------------------------------------
(* The invariant *)

Roots == {KernelPml4, cr3}

\* Low memory but for the images and what was asked for is the kernel's.
Safe == Sound(vm, Roots) /\ ~vm.err /\ Ident(vm, Images \cup named)

\* The program that runs has what it needs.
Served ==
  /\ running \in Program \cup {None}
  /\ running = None => cr3 = KernelPml4
  /\ brk \in 0 .. StackTop
  /\ asked \subseteq Pages
  /\ running # None => Ready(vm, cr3, running, asked)

\* ... and what it asked for, unless there is no frame left.
Backed ==
  running # None /\ ~vm.astray /\ vm.free # {} => AllHold(vm, running, asked, "new")

Inv == Safe /\ Served /\ Backed

\* The boot tables are a tree and map low memory to itself.
LEMMA InitInv == Init => Inv
<1> SUFFICES ASSUME Init PROVE Inv
  OBVIOUS
<1> DEFINE R == {KernelPml4}
           place == [f \in {KernelPml4, BootPdpt, BootPd} |->
                       CASE f = KernelPml4 -> Root [] f = BootPdpt -> Top [] f = BootPd -> Middle(0)]
           pt == vm.pt
<1>1. /\ running = None /\ cr3 = KernelPml4 /\ Roots = R
      /\ DOMAIN vm = Fields /\ vm.free = MemFrames /\ ~vm.err
      /\ DOMAIN pt = {KernelPml4, BootPdpt, BootPd}
  BY DEF Init, Fields, Roots
<1>2. /\ pt[KernelPml4] = [EmptyTable EXCEPT ![0] = Entry(BootPdpt, FALSE, FALSE)]
      /\ pt[BootPdpt] = [EmptyTable EXCEPT ![0] = Entry(BootPd, FALSE, FALSE)]
      /\ pt[BootPd] = [i \in 0 .. (N - 1) |-> Entry(i * N, FALSE, TRUE)]
  BY DEF Init, KernelPml4, BootPdpt, BootPd
<1>3. /\ place[KernelPml4] = Root /\ place[BootPdpt] = Top /\ place[BootPd] = Middle(0)
      /\ DOMAIN place = DOMAIN pt
  BY <1>1 DEF KernelPml4, BootPdpt, BootPd
<1> HIDE DEF pt, place
<1>4. /\ pt[KernelPml4] \in Table /\ pt[KernelPml4][0] = Entry(BootPdpt, FALSE, FALSE)
      /\ pt[BootPdpt] \in Table /\ pt[BootPdpt][0] = Entry(BootPd, FALSE, FALSE)
      /\ \A i \in Slots : i # 0 => pt[BootPdpt][i] = Absent
  <2> DEFINE first(e) == [EmptyTable EXCEPT ![0] = e]
  <2>1. ASSUME NEW e \in EntryType
        PROVE  first(e) \in Table /\ first(e)[0] = e /\ \A i \in Slots : i # 0 => first(e)[i] = Absent
    BY Entries, Sizes DEF Table
  <2>2. Entry(BootPdpt, FALSE, FALSE) \in EntryType /\ Entry(BootPd, FALSE, FALSE) \in EntryType
    BY DEF Entry, EntryType, BootPdpt, BootPd
  <2>3. /\ pt[KernelPml4] = first(Entry(BootPdpt, FALSE, FALSE))
        /\ pt[BootPdpt] = first(Entry(BootPd, FALSE, FALSE))
    BY <1>2
  <2> DEFINE e == Entry(BootPdpt, FALSE, FALSE)
             d == Entry(BootPd, FALSE, FALSE)
  <2> HIDE DEF first, e, d
  <2>4. e \in EntryType /\ d \in EntryType /\ pt[KernelPml4] = first(e) /\ pt[BootPdpt] = first(d)
    BY <2>2, <2>3 DEF e, d
  <2>5. first(e) \in Table /\ first(e)[0] = e
    BY <2>1, <2>4
  <2>6. first(d) \in Table /\ first(d)[0] = d /\ \A i \in Slots : i # 0 => first(d)[i] = Absent
    BY <2>1, <2>4
  <2> QED BY <2>4, <2>5, <2>6 DEF e, d
<1>5. /\ pt[BootPd] \in Table
      /\ \A i \in Slots : pt[BootPd][i] = Entry(i * N, FALSE, TRUE)
  <2>1. \A i \in Slots : i * N \in Nat
    BY Sizes DEF Slots
  <2>2. \A i \in Slots : Entry(i * N, FALSE, TRUE) \in EntryType
    BY <2>1 DEF Entry, EntryType
  <2>3. pt[BootPd] = [i \in Slots |-> Entry(i * N, FALSE, TRUE)]
    BY <1>2 DEF Slots
  <2> QED BY <2>2, <2>3 DEF Table
<1>6. Tables(pt, place)
  BY <1>1, <1>3, <1>4, <1>5 DEF Tables
<1>7. TopLevel(pt, R, place)
  BY <1>1, <1>3, <1>4 DEF TopLevel, Entry
<1>8. PdOf(pt, 0) = BootPd /\ \A i \in Slots : i # 0 => PdOf(pt, i) = 0
  BY <1>4 DEF PdOf, Entry, Absent
<1>9. MiddleLevel(pt, place)
  BY <1>1, <1>3, <1>4, <1>8 DEF MiddleLevel, Entry, Absent
<1>10. ASSUME NEW i \in Slots, NEW j \in Slots
       PROVE  PdEntry(pt, i, j) = IF i = 0 THEN Entry(j * N, FALSE, TRUE) ELSE Absent
  <2>1. CASE i = 0
    <3>1. PdOf(pt, i) = BootPd /\ BootPd # 0
      BY <1>8, <2>1 DEF BootPd
    <3>2. PdEntry(pt, i, j) = pt[BootPd][j]
      BY <3>1 DEF PdEntry
    <3> QED BY <1>5, <2>1, <3>2
  <2>2. CASE i # 0
    BY <1>8, <2>2 DEF PdEntry
  <2> QED BY <2>1, <2>2
<1>11. BottomLevel(pt, place)
  BY <1>10 DEF BottomLevel, Entry, Absent
<1>12. ASSUME NEW i \in Slots, NEW j \in Slots, NEW k \in Slots
       PROVE  PtEntry(pt, i, j, k) = IF i = 0 THEN Entry(j * N + k, FALSE, FALSE) ELSE Absent
  <2>1. CASE i = 0
    <3>1. PdEntry(pt, i, j) = Entry(j * N, FALSE, TRUE)
      BY <1>10, <2>1
    <3>2. Entry(j * N, FALSE, TRUE).huge /\ Entry(j * N, FALSE, TRUE).to = j * N
      BY DEF Entry
    <3> QED BY <2>1, <3>1, <3>2 DEF PtEntry
  <2>2. CASE i # 0
    <3>1. PdEntry(pt, i, j) = Absent
      BY <1>10, <2>2
    <3> QED BY <2>2, <3>1, Entries DEF PtEntry
  <2> QED BY <2>1, <2>2
<1>13. LeafLevel(pt)
  BY <1>12 DEF LeafLevel, Entry, Absent
<1>14. Tree(pt, R, place)
  BY <1>6, <1>7, <1>9, <1>11, <1>13 DEF Tree
<1>15. Good(vm, R, place)
  <2>1. MemFrames \cap {KernelPml4, BootPdpt, BootPd} = {}
    BY Frames
  <2> QED BY <1>1, <1>14, <2>1 DEF Good, pt
<1>16. \A v \in Pages : ~UserLeaf(vm, v)
  <2> SUFFICES ASSUME NEW v \in Pages PROVE ~Leaf(pt, v).user
    BY DEF UserLeaf, pt
  <2>1. Leaf(pt, v) = Absent \/ \E to : Leaf(pt, v) = Entry(to, FALSE, FALSE)
    <3>1. I3(v) \in Slots /\ I2(v) \in Slots /\ I1(v) \in Slots
      BY Indices
    <3>2. PtEntry(pt, I3(v), I2(v), I1(v)) =
            IF I3(v) = 0 THEN Entry(I2(v) * N + I1(v), FALSE, FALSE) ELSE Absent
      BY <1>12, <3>1
    <3> QED BY <3>2 DEF Leaf
  <2> QED BY <2>1 DEF Entry, Absent
<1>17. Sound(vm, R)
  BY <1>15, <1>16 DEF Sound, Apart, Owned
<1>18. Ident(vm, Images \cup named)
  <2> SUFFICES ASSUME NEW w \in (0 .. (N * N - 1)) \ (Images \cup named)
               PROVE  Leaf(pt, w) = Entry(w, FALSE, FALSE)
    BY DEF Ident, pt
  <2>1. w \in Pages /\ I3(w) = 0 /\ w = I2(w) * N + I1(w)
    BY LowIndices
  <2>2. I3(w) \in Slots /\ I2(w) \in Slots /\ I1(w) \in Slots
    BY <2>1, Indices
  <2>3. Leaf(pt, w) = Entry(I2(w) * N + I1(w), FALSE, FALSE)
    BY <1>12, <2>1, <2>2 DEF Leaf
  <2> QED BY <2>1, <2>3
<1>19. brk \in 0 .. StackTop /\ asked \subseteq Pages
  BY Sizes DEF Init
<1> QED
  BY <1>1, <1>17, <1>18, <1>19 DEF Inv, Safe, Served, Backed

-----------------------------------------------------------------------------
(* The steps *)

\* n pages are mapped anew, wherever the program says.
LEMMA GrowKeeps ==
  ASSUME Inv, ~vm.astray, running # None, NEW from \in Nat, NEW n \in Nat, from + n <= StackTop,
         Grow(from, n), UNCHANGED <<running, cr3>>, brk' \in 0 .. StackTop
  PROVE  Inv'
<1> DEFINE p == running
           R == Roots
           G(f) == f = [k \in 0 .. n |->
                          IF k = 0 THEN vm
                          ELSE vmm_alloc_page([f[k - 1] EXCEPT !.err = FALSE], cr3, from + k - 1,
                                              Tag(running, from + k - 1, "new"))]
           h == CHOOSE f : G(f)
           u == h[n]
           V == from .. (from + n - 1)
           X == Images \cup named
           Y == Images \cup named'
<1>1. /\ p \in Program /\ cr3 \in R /\ R' = R /\ Sound(vm, R) /\ Ident(vm, X) /\ ~vm.err
      /\ Ready(vm, cr3, p, asked) /\ asked \subseteq Pages
  BY DEF Inv, Safe, Served, Roots
<1>2. V \subseteq Pages
  BY Sizes DEF Pages
<1>3. asked' = asked \cup V /\ named' = named \cup V
  BY DEF Grow, Asks
<1>4. X \subseteq Y /\ V \subseteq Y \cup Stack /\ asked \subseteq asked' /\ V \subseteq asked'
      /\ asked' \subseteq Pages
  BY <1>1, <1>2, <1>3
<1>5. GrowPages(from, n) = h
  BY DEF GrowPages
<1>6. \A f : Turns(f, "grow", vm, cr3, from, n, p) <=> G(f)
  BY DEF Turns, Turn
<1>7. \E f : Turns(f, "grow", vm, cr3, from, n, p)
  BY Loop
<1> HIDE DEF G
<1>8. G(h)
  BY <1>6, <1>7
<1>9. Turns(h, "grow", vm, cr3, from, n, p)
  BY <1>6, <1>8
<1>10. vm' = Reset(u)
  BY <1>5 DEF Grow, Reset
<1> HIDE DEF h, R, p, X, Y
<1>11. After(h, n, vm, R, cr3, from, p, "new")
  <2>1. "grow" \in Loops /\ n \in 0 .. n /\ What("grow") = "new"
    BY DEF Loops, What
  <2>2. After(h, n, vm, R, cr3, from, p, What("grow"))
    BY <1>1, <1>9, <2>1, Turned
  <2> QED BY <2>1, <2>2
<1>12. Maps(vm, u, R, V)
  BY <1>11 DEF After
<1>13. u.free # {} => \A k \in 1 .. n : ~h[k].err
  BY <1>1, <1>9, GrowSpent
<1> HIDE DEF u
<1>14. Sound(u, R)
  BY <1>12 DEF Maps
<1>15. /\ Maps(u, vm', R, {})
       /\ vm'.err = FALSE /\ vm'.astray = u.astray
  BY <1>10, <1>14, ResetKeeps
<1> HIDE DEF V
<1>16. V \cup {} = V /\ V \cap {} = {}
  OBVIOUS
<1>17. Maps(vm, vm', R, V)
  BY <1>12, <1>15, <1>16, MapsTwice
<1>18. Safe'
  <2>1. Sound(vm', R) /\ Ident(vm', Y)
    BY <1>1, <1>4, <1>17, IdentKept DEF Maps
  <2> QED BY <1>1, <1>15, <2>1 DEF Safe, R, Y
<1>19. Served'
  <2>1. Ready(vm', cr3, p, asked')
    BY <1>1, <1>4, <1>17, ReadyKept
  <2> QED BY <1>1, <1>4, <2>1 DEF Served, p
<1>20. ASSUME ~vm'.astray, vm'.free # {}
       PROVE  AllHold(vm', p, asked', "new")
  <2>1. u.free # {} /\ vm.free # {}
    BY <1>15, <1>17, <1>20 DEF Maps, Grown
  <2>2. AllHold(u, p, V, "new")
    BY <1>11, <1>13, <1>15, <1>20, <2>1 DEF After, u, V
  <2>3. AllHold(vm', p, V, "new")
    BY <1>2, <1>14, <1>15, <1>16, <2>2, AllHoldKept DEF V
  <2>4. AllHold(vm, p, asked \ V, "new")
    BY <2>1 DEF Inv, Backed, p, AllHold
  <2>5. AllHold(vm', p, asked \ V, "new")
    <3> DEFINE W == asked \ V
    <3>1. W \subseteq Pages /\ W \cap V = {} /\ AllHold(vm, p, W, "new")
      BY <1>1, <2>4
    <3> HIDE DEF W
    <3>2. AllHold(vm', p, W, "new")
      BY <1>1, <1>17, <3>1, AllHoldKept
    <3> QED BY <3>2 DEF W
  <2> QED BY <1>3, <2>3, <2>5 DEF AllHold, V
<1>21. Backed'
  BY <1>20 DEF Backed, p
<1> QED
  BY <1>18, <1>19, <1>21 DEF Inv

LEMMA RunKeeps ==
  ASSUME Inv, NEW p \in Program, program_run(p)
  PROVE  Inv'
<1> DEFINE R == Roots
           a == elf_create_pml4(p)
           b == elf_load(a, a.got, p)
           s == elf_setup_stack(b, p)
           g == a.got
           X == Images \cup named
<1>1. /\ running = None /\ cr3 = KernelPml4 /\ R = {KernelPml4}
      /\ Sound(vm, R) /\ ~vm.err /\ Ident(vm, X) /\ Images \subseteq X
      /\ brk \in 0 .. StackTop /\ asked \subseteq Pages
  BY DEF program_run, Inv, Safe, Served, Roots
<1>2. PICK m \in malloc(s) :
        LET c == task_create_user(m, m.got)
        IN  /\ brk' = IF Stopped(b) THEN brk ELSE ImageStart + ImageSize[p]
            /\ vm' = Reset(c)
            /\ \/ Stopped(c) /\ UNCHANGED <<running, cr3, asked>>
               \/ ~Stopped(c) /\ running' = p /\ cr3' = g /\ asked' = {}
            /\ UNCHANGED named
  BY DEF program_run, Reset
<1> DEFINE c == task_create_user(m, m.got)
<1>3. Launched(c, R, g, p, X)
  <2> HIDE DEF R, X
  <2> QED BY <1>1, <1>2, Launch DEF R
<1>4. Stopped(b) => Stopped(c)
  <2> SUFFICES ASSUME Stopped(b) PROVE Stopped(c)
    OBVIOUS
  <2> HIDE DEF b
  <2>1. s = b
    BY DEF elf_setup_stack
  <2>2. malloc(s) = {b}
    BY <2>1 DEF malloc
  <2>3. m = b
    BY <1>2, <2>2
  <2> QED BY <2>3 DEF task_create_user
<1>11. /\ brk' = brk \/ brk' = ImageStart + ImageSize[p]
       /\ vm' = Reset(c) /\ UNCHANGED named
       /\ \/ Stopped(c) /\ UNCHANGED <<running, cr3, asked>>
          \/ ~Stopped(c) /\ running' = p /\ cr3' = g /\ asked' = {}
  BY <1>2
<1> HIDE DEF R, X
<1> HIDE DEF b, c, g
<1>5. Sound(c, R) /\ Ident(c, X)
  BY <1>3 DEF Launched
<1>6. ASSUME NEW Q, Sound(c, Q)
      PROVE  /\ Sound(vm', Q) /\ Ident(vm', X) /\ ~vm'.err
             /\ Maps(c, vm', Q, {})
  <2>1. Maps(c, vm', Q, {}) /\ vm'.err = FALSE
    BY <1>11, <1>6, ResetKeeps
  <2>2. {} \subseteq X \cup Stack
    OBVIOUS
  <2>3. Ident(vm', X)
    BY <1>5, <2>1, <2>2, IdentKept
  <2> QED BY <2>1, <2>3 DEF Maps
<1>10. /\ Images \cup named' = X /\ brk' \in 0 .. StackTop
  <2>1. /\ ImageStart \in Nat /\ ImageSize[p] \in Nat /\ StackPages \in Nat /\ StackTop \in Nat
        /\ ImageStart + ImageSize[p] <= StackTop - StackPages
    BY Sizes, LayoutAssumption
  <2>2. brk' = brk \/ brk' = ImageStart + ImageSize[p]
    BY <1>11
  <2> QED BY <1>1, <1>11, <2>1, <2>2 DEF X
<1>7. CASE Stopped(c)
  <2>1. running' = None /\ cr3' = KernelPml4 /\ Roots' = R /\ asked' = asked
    BY <1>1, <1>11, <1>7 DEF R, Roots
  <2>2. Safe'
    BY <1>5, <1>6, <1>10, <2>1 DEF Safe
  <2> QED BY <1>1, <1>10, <2>1, <2>2 DEF Inv, Served, Backed
<1>8. CASE ~Stopped(c)
  <2> DEFINE Q == R \cup {g}
  <2>1. Sound(c, Q) /\ Ready(c, g, p, {})
    BY <1>3, <1>8 DEF Launched
  <2>2. running' = p /\ cr3' = g /\ asked' = {} /\ Roots' = Q
    BY <1>1, <1>11, <1>8 DEF Roots, R
  <2>3. g \in Q
    OBVIOUS
  <2> HIDE DEF Q
  <2>4. Safe'
    BY <1>6, <1>10, <2>1, <2>2 DEF Safe
  <2>5. Ready(vm', g, p, {})
    BY <1>6, <2>1, <2>3, ReadyKept
  <2>6. None \notin Program
    BY LayoutAssumption
  <2>7. Served'
    BY <1>10, <2>2, <2>5, <2>6 DEF Served
  <2>8. Backed'
    BY <2>2 DEF Backed, AllHold
  <2> QED BY <2>4, <2>7, <2>8 DEF Inv
<1> QED
  BY <1>7, <1>8

LEMMA ExitKeeps == Inv /\ program_exit => Inv'
<1> SUFFICES ASSUME Inv, program_exit PROVE Inv'
  OBVIOUS
<1>1. PICK F : vm' = TouchAll(vm, F)
  BY DEF program_exit
<1>2. /\ running' = None /\ cr3' = KernelPml4 /\ asked' = {}
      /\ UNCHANGED <<brk, named>>
  BY DEF program_exit
<1>3. Sound(vm, Roots) /\ ~vm.err /\ Ident(vm, Images \cup named) /\ brk \in 0 .. StackTop
  BY DEF Inv, Safe, Served
<1>4. Roots' \subseteq Roots
  BY <1>2 DEF Roots
<1>5. Aside(vm, vm', Roots) /\ SameBut(vm, vm')
  BY <1>1, <1>3, AsideTouched, TouchedAll DEF Sound, Good
<1>6. Sound(vm', Roots') /\ Ident(vm', Images \cup named)
  <2>1. Sound(vm', Roots) /\ Ident(vm', Images \cup named)
    BY <1>3, <1>5, IdentKept DEF Aside, Maps
  <2> QED BY <1>4, <2>1, SoundFewer
<1>7. Safe'
  BY <1>2, <1>3, <1>5, <1>6 DEF Safe, SameBut
<1> QED
  BY <1>2, <1>3, <1>7 DEF Inv, Served, Backed

LEMMA DesktopKeeps == Inv /\ desktop => Inv'
<1> SUFFICES ASSUME Inv, desktop PROVE Inv'
  OBVIOUS
<1> DEFINE x == GoOn(vm)
           R == Roots
           X == Images \cup named
<1>1. PICK F : vm' = TouchAll(x, F)
  BY DEF desktop
<1>2. UNCHANGED <<running, cr3, brk, asked, named>> /\ ~vm.astray
  BY DEF desktop
<1>3. /\ Sound(vm, R) /\ ~vm.err /\ Ident(vm, X) /\ Served /\ Backed
      /\ R' = R /\ X' = X
  BY <1>2 DEF Inv, Safe, Roots
<1> HIDE DEF R, X
<1>4. Aside(vm, x, R) /\ SameBut(vm, x)
  BY <1>3, AsideTouched, TouchedAll DEF Sound, Good, GoOn
<1> HIDE DEF x
<1>5. Aside(x, vm', R) /\ SameBut(x, vm')
  BY <1>1, <1>4, AsideTouched, TouchedAll DEF Aside, Maps, SameBut
<1>6. Maps(vm, vm', R, {}) /\ vm'.err = vm.err /\ vm'.free = vm.free
  BY <1>4, <1>5, AsideTwice DEF Aside, SameBut
<1>7. Safe'
  <2>1. Sound(vm', R) /\ Ident(vm', X)
    BY <1>3, <1>6, IdentKept DEF Maps
  <2> QED BY <1>3, <1>6, <2>1 DEF Safe, R, X
<1>8. running # None => running \in Program /\ Ready(vm', cr3, running, asked)
  <2> SUFFICES ASSUME running # None
               PROVE  running \in Program /\ Ready(vm', cr3, running, asked)
    OBVIOUS
  <2>1. running \in Program /\ Ready(vm, cr3, running, asked) /\ cr3 \in R
    BY <1>3 DEF Served, R, Roots
  <2> QED BY <1>3, <1>6, <2>1, ReadyKept
<1>9. Served'
  BY <1>2, <1>3, <1>8 DEF Served
<1>10. Backed'
  <2> SUFFICES ASSUME running # None, vm.free # {}
               PROVE  AllHold(vm', running, asked, "new")
    BY <1>2, <1>6 DEF Backed
  <2>1. AllHold(vm, running, asked, "new") /\ asked \subseteq Pages /\ asked \cap {} = {}
    BY <1>2, <1>3 DEF Backed, Served
  <2> QED BY <1>3, <1>6, <2>1, AllHoldKept
<1> QED
  BY <1>7, <1>9, <1>10 DEF Inv

LEMMA BrkKeeps ==
  ASSUME Inv, NEW new \in Breaks, sys_brk(new)
  PROVE  Inv'
<1>1. ~vm.astray /\ running # None /\ brk' = new /\ UNCHANGED <<running, cr3>>
  BY DEF sys_brk
<1>2. new \in 1 .. StackTop /\ brk \in 0 .. StackTop /\ StackTop \in Nat
  BY Sizes, LayoutAssumption DEF Inv, Served
<1>3. CASE new > brk
  <2> DEFINE n == new - brk
  <2>1. brk \in Nat /\ n \in Nat /\ brk + n <= StackTop /\ brk' \in 0 .. StackTop
    BY <1>1, <1>2, <1>3
  <2>2. Grow(brk, n)
    BY <1>3 DEF sys_brk
  <2> HIDE DEF n
  <2> QED BY <1>1, <2>1, <2>2, GrowKeeps
<1>4. CASE ~ (new > brk)
  <2>1. UNCHANGED <<vm, asked, named>>
    BY <1>4 DEF sys_brk
  <2>2. brk' \in 0 .. StackTop /\ Roots' = Roots
    BY <1>1, <1>2 DEF Roots
  <2> QED BY <1>1, <2>1, <2>2 DEF Inv, Safe, Served, Backed
<1> QED
  BY <1>3, <1>4

LEMMA MmapKeeps ==
  ASSUME Inv, NEW n \in Lengths, sys_mmap(n)
  PROVE  Inv'
<1>1. /\ ~vm.astray /\ running # None /\ brk + n <= StackTop
      /\ Grow(brk, n) /\ brk' = brk + n /\ UNCHANGED <<running, cr3>>
  BY DEF sys_mmap
<1>2. n \in Nat /\ brk \in 0 .. StackTop /\ StackTop \in Nat
  BY Sizes, LayoutAssumption DEF Inv, Served
<1>3. brk \in Nat /\ brk' \in 0 .. StackTop
  BY <1>1, <1>2
<1> QED
  BY <1>1, <1>2, <1>3, GrowKeeps

LEMMA MmapAtKeeps ==
  ASSUME Inv, NEW addr \in Addresses, NEW n \in Lengths, sys_mmap_at(addr, n)
  PROVE  Inv'
<1>1. /\ ~vm.astray /\ running # None /\ addr + n <= StackTop
      /\ Grow(addr, n) /\ UNCHANGED <<running, cr3, brk>>
  BY DEF sys_mmap_at
<1>2. n \in Nat /\ addr \in Nat /\ brk' \in 0 .. StackTop
  BY <1>1, Sizes, LayoutAssumption DEF Inv, Served
<1> QED
  BY <1>1, <1>2, GrowKeeps

LEMMA StepInv == Inv /\ [Next]_vars => Inv'
<1> SUFFICES ASSUME Inv, [Next]_vars PROVE Inv'
  OBVIOUS
<1>1. CASE \E p \in Program : program_run(p)
  BY <1>1, RunKeeps
<1>2. CASE program_exit
  BY <1>2, ExitKeeps
<1>3. CASE desktop
  BY <1>3, DesktopKeeps
<1>4. CASE \E new \in Breaks : sys_brk(new)
  BY <1>4, BrkKeeps
<1>5. CASE \E n \in Lengths : sys_mmap(n)
  BY <1>5, MmapKeeps
<1>6. CASE \E addr \in Addresses, n \in Lengths : sys_mmap_at(addr, n)
  BY <1>6, MmapAtKeeps
<1>7. CASE UNCHANGED vars
  <2>1. UNCHANGED <<vm, running, cr3, brk, asked, named>>
    BY <1>7 DEF vars
  <2>2. Roots' = Roots
    BY <2>1 DEF Roots
  <2> QED BY <2>1, <2>2 DEF Inv, Safe, Served, Backed
<1> QED
  BY <1>1, <1>2, <1>3, <1>4, <1>5, <1>6, <1>7 DEF Next

-----------------------------------------------------------------------------
(* What follows from the invariant *)

\* At all times, wherever programs ask for pages, the tables that the kernel and
\* the running program go through are one tree, no frame that ring 3 may reach is
\* free, a table or the kernel's, low memory that nobody asked for is the
\* kernel's, and the program in force has what it has not asked for anew.
THEOREM Invariant == Spec => []Inv
<1> QED
  BY InitInv, StepInv, PTL DEF Spec

LEMMA MappedFacts ==
  ASSUME Inv, NEW r \in Roots, NEW v \in Pages
  PROVE  Leads(vm.pt, r, v)
<1>1. PICK place : Good(vm, Roots, place)
  BY DEF Inv, Safe, Sound
<1> QED
  BY <1>1, Translation DEF Good

\* A page ring 3 reaches has a user leaf; a page that holds something, and that
\* ring 3 has a way to, it reaches.
LEMMA Reached ==
  ASSUME Inv, NEW v \in Pages
  PROVE  /\ Mapped(cr3, v).frame = FrameOf(vm, v)
         /\ v \in UserPages => UserLeaf(vm, v)
         /\ UserLeaf(vm, v) /\ vm.pt[cr3][0].user => v \in UserPages
<1>1. Leads(vm.pt, cr3, v)
  BY MappedFacts DEF Roots
<1>2. Mapped(cr3, v).frame = FrameOf(vm, v)
  BY <1>1 DEF Leads, Mapped, FrameOf
<1>3. Mapped(cr3, v).user <=> vm.pt[cr3][0].user /\ UserLeaf(vm, v)
  BY <1>1 DEF Leads, Mapped, UserLeaf
<1>4. UserLeaf(vm, v) => FrameOf(vm, v) # 0
  BY Frames DEF Inv, Safe, Sound, Apart
<1> QED
  BY <1>2, <1>3, <1>4 DEF UserPages, Pages

\* Low memory that no program is linked at or asked for stays identity mapped and
\* closed to ring 3 in every address space, whatever vmm_map_page splits and
\* marks and wherever brk and mmap map pages.
THEOREM KernelMapStays == Spec => []KernelMapKept
<1>1. Inv => KernelMapKept
  <2> SUFFICES ASSUME Inv, NEW root \in {KernelPml4, cr3},
                      NEW v \in (0 .. (N * N - 1)) \ (Images \cup named)
               PROVE  Mapped(root, v) = [frame |-> v, user |-> FALSE]
    BY DEF KernelMapKept
  <2>1. v \in Pages /\ root \in Roots
    BY Sizes DEF Roots
  <2>2. Leads(vm.pt, root, v)
    BY <2>1, MappedFacts
  <2>3. Leaf(vm.pt, v) = Entry(v, FALSE, FALSE)
    BY DEF Inv, Safe, Ident
  <2>4. Leaf(vm.pt, v).to = v /\ ~Leaf(vm.pt, v).user
    BY <2>3 DEF Entry
  <2> QED BY <2>2, <2>4 DEF Leads, Mapped
<1> QED
  BY <1>1, Invariant, PTL

\* A program that runs finds its image, its stack and its arguments in the
\* frames its page tables lead to, although the kernel wrote them through others,
\* but for the pages it had replaced by brk or mmap itself.
THEOREM ProgramsComplete == Spec => []ProgramComplete
<1>1. Inv => ProgramComplete
  <2> SUFFICES ASSUME Inv, running # None
               PROVE  /\ \A v \in Image(running) \ asked :
                           v \in UserPages /\ Written(v) = Tag(running, v, "data")
                      /\ Stack \ asked \subseteq UserPages
                      /\ StackTop - 1 \notin asked =>
                           Written(StackTop - 1) = Tag(running, StackTop - 1, "argv")
    BY DEF ProgramComplete
  <2>1. running \in Program /\ Ready(vm, cr3, running, asked)
    BY DEF Inv, Served
  <2>2. Image(running) \subseteq Pages /\ Stack \subseteq Pages /\ StackTop - 1 \in Stack
    BY <2>1, Areas, Sizes
  <2>3. ASSUME NEW v \in Image(running) \ asked
        PROVE  v \in UserPages /\ Written(v) = Tag(running, v, "data")
    <3>1. v \in Pages /\ Holds(vm, v, Tag(running, v, "data"))
      BY <2>1, <2>2 DEF Ready, AllHold
    <3> QED BY <2>1, <3>1, Reached DEF Ready, Holds, Written
  <2>4. Stack \ asked \subseteq UserPages
    <3> SUFFICES ASSUME NEW v \in Stack \ asked PROVE v \in UserPages
      OBVIOUS
    <3>1. v \in Pages /\ UserLeaf(vm, v)
      BY <2>1, <2>2 DEF Ready
    <3> QED BY <2>1, <3>1, Reached DEF Ready
  <2>5. ASSUME StackTop - 1 \notin asked
        PROVE  Written(StackTop - 1) = Tag(running, StackTop - 1, "argv")
    <3>1. StackTop - 1 \in Pages
      BY <2>2
    <3> QED BY <2>1, <2>5, <3>1, Reached DEF Ready, Holds, Written
  <2> QED BY <2>3, <2>4, <2>5
<1> QED
  BY <1>1, Invariant, PTL

\* The frames ring 3 reaches are its own: one per page, allocated, and none the
\* kernel uses.
THEOREM FramesStayExclusive == Spec => []FramesExclusive
<1>1. Inv => FramesExclusive
  <2> SUFFICES ASSUME Inv, NEW v \in UserPages
               PROVE  /\ Mapped(cr3, v).frame \in MemFrames \ (vm.free \cup DOMAIN vm.pt)
                      /\ Written(v).owner # "kernel"
                      /\ \A w \in UserPages \ {v} : Mapped(cr3, w).frame # Mapped(cr3, v).frame
    BY DEF FramesExclusive
  <2>1. UserPages \subseteq Pages
    BY DEF UserPages, Pages
  <2>2. \A w \in UserPages : UserLeaf(vm, w) /\ Mapped(cr3, w).frame = FrameOf(vm, w)
    BY <2>1, Reached
  <2>3. Apart(vm) /\ Owned(vm)
    BY DEF Inv, Safe, Sound
  <2>4. Mapped(cr3, v).frame \in MemFrames \ (vm.free \cup DOMAIN vm.pt)
    BY <2>1, <2>2, <2>3 DEF Apart
  <2>5. Written(v).owner \in Program
    BY <2>1, <2>2, <2>3 DEF Owned, Written
  <2>6. Written(v).owner # "kernel"
    BY <2>5, LayoutAssumption
  <2>7. \A w \in UserPages \ {v} : Mapped(cr3, w).frame # Mapped(cr3, v).frame
    BY <2>1, <2>2, <2>3 DEF Apart
  <2> QED BY <2>4, <2>6, <2>7
<1> QED
  BY <1>1, Invariant, PTL

\* Every page a program asked brk and mmap for, below its break, over its image or
\* over the kernel's low memory, is there, new and its own, or there is no frame
\* left: no call loses a page in its middle as long as there is memory.
THEOREM BreakStaysBacked == Spec => []BreakBacked
<1>1. Inv => BreakBacked
  <2> SUFFICES ASSUME Inv, running # None, ~vm.astray, vm.free # {}, NEW v \in asked
               PROVE  v \in UserPages /\ Written(v) = Tag(running, v, "new")
    BY DEF BreakBacked
  <2>1. Ready(vm, cr3, running, asked) /\ v \in Pages
    BY DEF Inv, Served
  <2>2. Holds(vm, v, Tag(running, v, "new"))
    BY DEF Inv, Backed, AllHold
  <2> QED BY <2>1, <2>2, Reached DEF Ready, Holds, Written
<1> QED
  BY <1>1, Invariant, PTL
=============================================================================
