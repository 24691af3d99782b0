--------------------------- MODULE KmallocProofs ----------------------------
(***************************************************************************)
(* Proofs about the heap for every frame size, pool size and set of frames.*)
(* First lists in order of address, then sets of units that blocks tile,   *)
(* then what each function of kmalloc.c makes of a heap, then the steps.   *)
(***************************************************************************)
EXTENDS Kmalloc, SequenceTheorems, WellFoundedInduction, TLAPS

-----------------------------------------------------------------------------
(* Least elements and lists *)

\* The order of the numbers as the set of pairs that the library speaks of.
LEMMA LessThanOnNat == OpToRel(<, Nat) = {ss \in Nat \X Nat : ss[1] < ss[2]}
BY DEF OpToRel

\* A set of numbers that is not empty has a least element, which is its Min.
LEMMA MinIsLeast ==
  ASSUME NEW S \in SUBSET Nat, S # {}
  PROVE  Min(S) \in S /\ \A y \in S : Min(S) <= y
<1> DEFINE R == {ss \in Nat \X Nat : ss[1] < ss[2]}
<1>1. IsWellFoundedOn(R, Nat)
  BY NatLessThanWellFounded, LessThanOnNat
<1>2. PICK x \in S : \A y \in S : ~ (<<y, x>> \in R)
  <2> HIDE DEF R
  <2> QED
    BY <1>1, WFMin
<1>3. ASSUME NEW y \in S PROVE x <= y
  <2>1. x \in Nat /\ y \in Nat
    OBVIOUS
  <2>2. y < x => <<y, x>> \in R
    BY <2>1
  <2> QED
    BY <1>2, <2>1, <2>2
<1> QED
  BY <1>3 DEF Min

Ascending(s) == \A i, j \in DOMAIN s : i < j => s[i] < s[j]

\* A part of an ascending list is one, and holds what stood in its places.
LEMMA AscendingPart ==
  ASSUME NEW s \in Seq(Nat), Ascending(s),
         NEW i \in 1 .. (Len(s) + 1), NEW j \in 0 .. Len(s)
  PROVE  /\ SubSeq(s, i, j) \in Seq(Nat)
         /\ Ascending(SubSeq(s, i, j))
         /\ ToSet(SubSeq(s, i, j)) = {s[k] : k \in i .. j}
<1> DEFINE t == SubSeq(s, i, j)
<1>1. /\ Len(s) \in Nat /\ DOMAIN s = 1 .. Len(s)
      /\ \A k \in 1 .. Len(s) : s[k] \in Nat
  BY LenProperties, ElementOfSeq
<1>2. i \in Int /\ j \in Int /\ \A k \in i .. j : s[k] \in Nat
  BY <1>1
<1>3. /\ t \in Seq(Nat) /\ Len(t) = IF i <= j THEN j - i + 1 ELSE 0
      /\ \A k \in 1 .. (j - i + 1) : t[k] = s[i + k - 1]
  <2> HIDE DEF t
  <2>1. t = SubSeq(s, i, j)
    BY DEF t
  <2> QED
    BY <1>2, <2>1, SubSeqProperties
<1>4. DOMAIN t = 1 .. (j - i + 1)
  BY <1>2, <1>3, LenProperties
<1> HIDE DEF t
<1>5. Ascending(t)
  <2> SUFFICES ASSUME NEW k \in 1 .. (j - i + 1), NEW l \in 1 .. (j - i + 1), k < l
               PROVE  t[k] < t[l]
    BY <1>4 DEF Ascending
  <2>1. /\ i + k - 1 \in DOMAIN s /\ i + l - 1 \in DOMAIN s
        /\ i + k - 1 < i + l - 1
    BY <1>1
  <2>2. s[i + k - 1] < s[i + l - 1]
    BY <2>1 DEF Ascending
  <2> QED
    BY <1>3, <2>2
<1>6. ASSUME NEW k \in i .. j PROVE s[k] \in ToSet(t)
  <2>1. k - i + 1 \in DOMAIN t /\ t[k - i + 1] = s[k]
    <3>1. k - i + 1 \in 1 .. (j - i + 1) /\ i + (k - i + 1) - 1 = k
      BY <1>1
    <3> QED
      BY <1>3, <1>4, <3>1
  <2> QED
    BY <2>1 DEF ToSet
<1>7. ASSUME NEW k \in DOMAIN t PROVE t[k] \in {s[l] : l \in i .. j}
  <2>1. k \in 1 .. (j - i + 1)
    BY <1>4
  <2>2. i + k - 1 \in i .. j
    BY <1>1, <2>1, SMTT(60)
  <2> QED
    BY <1>3, <2>1, <2>2
<1>8. ToSet(t) = {s[k] : k \in i .. j}
  BY <1>6, <1>7 DEF ToSet
<1> QED
  BY <1>3, <1>5, <1>8 DEF t

\* Two ascending lists, all of one below all of the other, make an ascending one.
LEMMA AscendingConcat ==
  ASSUME NEW s \in Seq(Nat), NEW t \in Seq(Nat), Ascending(s), Ascending(t),
         \A x \in ToSet(s), y \in ToSet(t) : x < y
  PROVE  /\ s \o t \in Seq(Nat)
         /\ Ascending(s \o t)
         /\ ToSet(s \o t) = ToSet(s) \cup ToSet(t)
<1> DEFINE u == s \o t
           m == Len(s)
           n == Len(t)
<1>1. /\ m \in Nat /\ DOMAIN s = 1 .. m /\ \A k \in 1 .. m : s[k] \in Nat
      /\ n \in Nat /\ DOMAIN t = 1 .. n /\ \A k \in 1 .. n : t[k] \in Nat
  BY LenProperties, ElementOfSeq
<1>2. /\ u \in Seq(Nat) /\ Len(u) = m + n
      /\ \A k \in 1 .. (m + n) : u[k] = IF k <= m THEN s[k] ELSE t[k - m]
  BY ConcatProperties
<1>3. DOMAIN u = 1 .. (m + n)
  BY <1>2, LenProperties
<1> HIDE DEF u, m, n
<1>4. ASSUME NEW k \in 1 .. m PROVE k \in DOMAIN u /\ u[k] = s[k] /\ s[k] \in ToSet(s)
  <2>1. k \in 1 .. (m + n) /\ k <= m /\ k \in DOMAIN s
    BY <1>1
  <2> QED
    BY <1>2, <1>3, <2>1 DEF ToSet
<1>5. ASSUME NEW k \in 1 .. n
      PROVE  k + m \in DOMAIN u /\ u[k + m] = t[k] /\ t[k] \in ToSet(t)
  <2>1. k + m \in 1 .. (m + n) /\ ~(k + m <= m) /\ k \in DOMAIN t /\ (k + m) - m = k
    BY <1>1
  <2>2. u[k + m] = t[(k + m) - m]
    BY <1>2, <2>1
  <2> QED
    BY <1>3, <2>1, <2>2 DEF ToSet
<1>6. ASSUME NEW k \in DOMAIN u
      PROVE  k \in 1 .. m \/ (k - m \in 1 .. n /\ k = (k - m) + m)
  BY <1>1, <1>3
<1>7. Ascending(u)
  <2> SUFFICES ASSUME NEW k \in DOMAIN u, NEW l \in DOMAIN u, k < l
               PROVE  u[k] < u[l]
    BY DEF Ascending
  <2>1. CASE k \in 1 .. m /\ l \in 1 .. m
    <3>1. s[k] < s[l]
      BY <1>1, <2>1 DEF Ascending
    <3> QED
      BY <1>4, <2>1, <3>1
  <2>2. CASE k \in 1 .. m /\ l - m \in 1 .. n
    <3>1. u[k] = s[k] /\ s[k] \in ToSet(s)
      BY <1>4, <2>2
    <3>2. u[l] = t[l - m] /\ t[l - m] \in ToSet(t)
      <4>1. l = (l - m) + m
        BY <1>1, <1>3
      <4> QED
        BY <1>5, <2>2, <4>1
    <3> QED
      BY <3>1, <3>2
  <2>3. CASE k - m \in 1 .. n /\ l - m \in 1 .. n
    <3>1. k = (k - m) + m /\ l = (l - m) + m /\ k - m < l - m
      BY <1>1, <1>3
    <3>2. u[k] = t[k - m] /\ u[l] = t[l - m]
      BY <1>5, <2>3, <3>1
    <3>3. t[k - m] < t[l - m]
      BY <1>1, <2>3, <3>1 DEF Ascending
    <3> QED
      BY <3>2, <3>3
  <2> QED
    <3>1. ~(k - m \in 1 .. n /\ l \in 1 .. m)
      BY <1>1, <1>3
    <3> QED
      BY <1>6, <2>1, <2>2, <2>3, <3>1
<1>8. ASSUME NEW k \in DOMAIN u PROVE u[k] \in ToSet(s) \cup ToSet(t)
  <2>1. CASE k \in 1 .. m
    BY <1>4, <2>1
  <2>2. CASE k - m \in 1 .. n /\ k = (k - m) + m
    <3>1. u[(k - m) + m] = t[k - m] /\ t[k - m] \in ToSet(t)
      BY <1>5, <2>2
    <3> QED
      BY <2>2, <3>1
  <2> QED
    BY <1>6, <2>1, <2>2
<1>9. ToSet(s) \cup ToSet(t) \subseteq ToSet(u)
  <2>1. \A k \in DOMAIN s : s[k] \in ToSet(u)
    BY <1>1, <1>4 DEF ToSet
  <2>2. \A k \in DOMAIN t : t[k] \in ToSet(u)
    BY <1>1, <1>5 DEF ToSet
  <2> QED
    BY <2>1, <2>2 DEF ToSet
<1>10. ToSet(u) = ToSet(s) \cup ToSet(t)
  <2>1. ToSet(u) \subseteq ToSet(s) \cup ToSet(t)
    BY <1>8 DEF ToSet
  <2> QED
    BY <1>9, <2>1
<1> QED
  BY <1>2, <1>7, <1>10 DEF u

\* An ascending list stays so when a block is put in its place ...
LEMMA InsertSortedFacts ==
  ASSUME NEW s \in Seq(Nat), Ascending(s), NEW b \in Nat, b \notin ToSet(s)
  PROVE  /\ InsertSorted(s, b) \in Seq(Nat)
         /\ Ascending(InsertSorted(s, b))
         /\ ToSet(InsertSorted(s, b)) = ToSet(s) \cup {b}
<1> DEFINE I == {i \in 1 .. (Len(s) + 1) : i <= Len(s) => s[i] >= b}
           p == Position(s, b)
           low == SubSeq(s, 1, p - 1)
           high == SubSeq(s, p, Len(s))
<1>1. /\ Len(s) \in Nat /\ DOMAIN s = 1 .. Len(s)
      /\ \A k \in 1 .. Len(s) : s[k] \in Nat /\ s[k] # b
  BY LenProperties, ElementOfSeq DEF ToSet
<1>2. p \in I /\ \A i \in I : p <= i
  <2>1. I \in SUBSET Nat /\ Len(s) + 1 \in I
    BY <1>1
  <2> QED
    BY <2>1, MinIsLeast DEF Position
<1>3. p \in 1 .. (Len(s) + 1) /\ p - 1 \in 0 .. Len(s)
  BY <1>1, <1>2
<1>4. ASSUME NEW k \in 1 .. (p - 1) PROVE s[k] < b
  <2>1. k \in 1 .. Len(s) /\ ~(p <= k)
    BY <1>1, <1>3
  <2>2. k \notin I
    BY <1>2, <2>1
  <2> QED
    BY <1>1, <2>1, <2>2
<1>5. ASSUME NEW k \in p .. Len(s) PROVE s[k] > b
  <2>1. k \in DOMAIN s /\ p \in DOMAIN s /\ (p = k \/ p < k)
    BY <1>1, <1>3
  <2>2. s[p] > b
    BY <1>1, <1>2, <2>1
  <2>3. p < k => s[p] < s[k]
    BY <2>1 DEF Ascending
  <2> QED
    BY <1>1, <2>1, <2>2, <2>3
<1> HIDE DEF p, I
<1>6. low \in Seq(Nat) /\ Ascending(low) /\ ToSet(low) = {s[k] : k \in 1 .. (p - 1)}
  <2>1. 1 \in 1 .. (Len(s) + 1)
    BY <1>1
  <2> QED
    BY <1>3, <2>1, AscendingPart
<1>7. high \in Seq(Nat) /\ Ascending(high) /\ ToSet(high) = {s[k] : k \in p .. Len(s)}
  <2>1. Len(s) \in 0 .. Len(s)
    BY <1>1
  <2> QED
    BY <1>3, <2>1, AscendingPart
<1>8. <<b>> \in Seq(Nat) /\ Ascending(<<b>>) /\ ToSet(<<b>>) = {b}
  BY DEF Ascending, ToSet
<1>9. InsertSorted(s, b) = low \o <<b>> \o high
  BY DEF InsertSorted, InsertAt, p
<1> HIDE DEF low, high
<1>10. /\ low \o <<b>> \in Seq(Nat) /\ Ascending(low \o <<b>>)
       /\ ToSet(low \o <<b>>) = ToSet(low) \cup {b}
  <2>1. \A x \in ToSet(low), y \in ToSet(<<b>>) : x < y
    BY <1>4, <1>6, <1>8
  <2> QED
    BY <1>6, <1>8, <2>1, AscendingConcat
<1>11. /\ low \o <<b>> \o high \in Seq(Nat) /\ Ascending(low \o <<b>> \o high)
       /\ ToSet(low \o <<b>> \o high) = ToSet(low) \cup {b} \cup ToSet(high)
  <2>1. ASSUME NEW x \in ToSet(low) \cup {b}, NEW y \in ToSet(high) PROVE x < y
    <3>1. PICK k \in p .. Len(s) : y = s[k]
      BY <1>7
    <3>2. y > b /\ y \in Nat
      BY <1>1, <1>3, <1>5, <3>1
    <3>3. CASE x \in ToSet(low)
      <4>1. PICK i \in 1 .. (p - 1) : x = s[i]
        BY <1>6, <3>3
      <4>2. x < b /\ x \in Nat
        BY <1>1, <1>3, <1>4, <4>1
      <4> QED
        BY <3>2, <4>2
    <3> QED
      BY <3>2, <3>3
  <2> QED
    BY <1>7, <1>10, <2>1, AscendingConcat
<1>12. ToSet(low) \cup ToSet(high) = ToSet(s)
  <2>1. 1 .. Len(s) = (1 .. (p - 1)) \cup (p .. Len(s))
    BY <1>1, <1>3
  <2> QED
    BY <1>1, <1>6, <1>7, <2>1 DEF ToSet
<1> QED
  BY <1>9, <1>11, <1>12

\* ... and when one is taken out.
LEMMA RemoveAtFacts ==
  ASSUME NEW s \in Seq(Nat), Ascending(s), NEW i \in 1 .. Len(s)
  PROVE  /\ RemoveAt(s, i) \in Seq(Nat)
         /\ Ascending(RemoveAt(s, i))
         /\ ToSet(RemoveAt(s, i)) = ToSet(s) \ {s[i]}
<1> DEFINE low == SubSeq(s, 1, i - 1)
           high == SubSeq(s, i + 1, Len(s))
<1>1. /\ Len(s) \in Nat /\ DOMAIN s = 1 .. Len(s)
      /\ \A k \in 1 .. Len(s) : s[k] \in Nat
  BY LenProperties, ElementOfSeq
<1>2. low \in Seq(Nat) /\ Ascending(low) /\ ToSet(low) = {s[k] : k \in 1 .. (i - 1)}
  <2>1. 1 \in 1 .. (Len(s) + 1) /\ i - 1 \in 0 .. Len(s)
    BY <1>1
  <2> QED
    BY <2>1, AscendingPart
<1>3. /\ high \in Seq(Nat) /\ Ascending(high)
      /\ ToSet(high) = {s[k] : k \in (i + 1) .. Len(s)}
  <2>1. i + 1 \in 1 .. (Len(s) + 1) /\ Len(s) \in 0 .. Len(s)
    BY <1>1
  <2> QED
    BY <2>1, AscendingPart
<1>4. RemoveAt(s, i) = low \o high
  BY DEF RemoveAt
<1> HIDE DEF low, high
<1>5. ASSUME NEW k \in 1 .. (i - 1), NEW l \in (i + 1) .. Len(s)
      PROVE  s[k] < s[i] /\ s[i] < s[l] /\ s[k] < s[l]
  <2>1. /\ k \in DOMAIN s /\ i \in DOMAIN s /\ l \in DOMAIN s
        /\ k < i /\ i < l /\ k < l
    BY <1>1
  <2> QED
    BY <2>1 DEF Ascending
<1>6. \A x \in ToSet(low), y \in ToSet(high) : x < y
  BY <1>2, <1>3, <1>5
<1>7. ToSet(low) \cup ToSet(high) = ToSet(s) \ {s[i]}
  <2>1. 1 .. Len(s) = (1 .. (i - 1)) \cup {i} \cup ((i + 1) .. Len(s))
    BY <1>1
  <2>2. ASSUME NEW k \in (1 .. (i - 1)) \cup ((i + 1) .. Len(s)) PROVE s[k] # s[i]
    <3>1. k \in DOMAIN s /\ i \in DOMAIN s /\ (k < i \/ i < k)
      BY <1>1
    <3>2. s[k] < s[i] \/ s[i] < s[k]
      BY <3>1 DEF Ascending
    <3> QED
      BY <1>1, <3>1, <3>2
  <2> QED
    BY <1>1, <1>2, <1>3, <2>1, <2>2 DEF ToSet
<1> QED
  BY <1>2, <1>3, <1>4, <1>6, <1>7, AscendingConcat, ZenonT(60)

-----------------------------------------------------------------------------
(* Blocks that tile a set of units *)

Tiles(size_, U) ==
  /\ size_ \in [DOMAIN size_ -> Nat] /\ DOMAIN size_ \subseteq Nat \ {0}
  /\ UNION {b .. (b + size_[b]) : b \in DOMAIN size_} = U
  /\ \A b, c \in DOMAIN size_ :
       b # c => (b .. (b + size_[b])) \cap (c .. (c + size_[c])) = {}

\* Of two blocks, the one that begins first ends before the other begins.
LEMMA BlocksApart ==
  ASSUME NEW z, NEW U, Tiles(z, U),
         NEW b \in DOMAIN z, NEW c \in DOMAIN z, b < c
  PROVE  b + z[b] < c
<1>1. b \in Nat /\ c \in Nat /\ z[b] \in Nat /\ z[c] \in Nat
  BY DEF Tiles
<1>2. c \in c .. (c + z[c])
  BY <1>1
<1>3. c \notin b .. (b + z[b])
  BY <1>1, <1>2 DEF Tiles
<1> QED
  BY <1>1, <1>3

\* A block that can spare a header is cut in two.
LEMMA TilesCut ==
  ASSUME NEW z, NEW U, Tiles(z, U),
         NEW b \in DOMAIN z, NEW n \in Nat, n + 1 <= z[b]
  PROVE  LET c == b + 1 + n
             y == [d \in DOMAIN z \cup {c} |->
                     IF d = b THEN n ELSE IF d = c THEN z[b] - n - 1 ELSE z[d]]
         IN  c \notin DOMAIN z /\ Tiles(y, U)
<1> DEFINE c == b + 1 + n
           y == [d \in DOMAIN z \cup {c} |->
                   IF d = b THEN n ELSE IF d = c THEN z[b] - n - 1 ELSE z[d]]
<1>1. /\ \A d \in DOMAIN z : d \in Nat \ {0} /\ z[d] \in Nat
      /\ c \in Nat \ {0} /\ c # b
  BY DEF Tiles
<1>2. c \in b .. (b + z[b])
  BY <1>1
<1>3. c \notin DOMAIN z
  <2>1. c \in DOMAIN z => c \in c .. (c + z[c])
    BY <1>1
  <2> QED
    BY <1>1, <1>2, <2>1 DEF Tiles
<1>4. /\ DOMAIN y = DOMAIN z \cup {c}
      /\ y[b] = n /\ y[c] = z[b] - n - 1
      /\ \A d \in DOMAIN z \ {b} : y[d] = z[d]
  BY <1>1, <1>3
<1>5. y \in [DOMAIN z \cup {c} -> Nat]
  BY <1>1
<1> HIDE DEF y
<1>6. (b .. (b + y[b])) \cup (c .. (c + y[c])) = b .. (b + z[b])
  BY <1>1, <1>4
<1>7. (b .. (b + y[b])) \cap (c .. (c + y[c])) = {}
  BY <1>1, <1>4
<1>8. UNION {d .. (d + y[d]) : d \in DOMAIN y} = U
  <2>1. ASSUME NEW u \in U PROVE \E d \in DOMAIN y : u \in d .. (d + y[d])
    <3>1. PICK d \in DOMAIN z : u \in d .. (d + z[d])
      BY DEF Tiles
    <3> QED
      BY <1>4, <1>6, <3>1
  <2>2. ASSUME NEW d \in DOMAIN y, NEW u \in d .. (d + y[d]) PROVE u \in U
    <3>1. \A e \in DOMAIN z : e .. (e + z[e]) \subseteq U
      BY DEF Tiles
    <3> QED
      BY <1>4, <1>6, <3>1, <2>2
  <2> QED
    BY <2>1, <2>2
<1>9. ASSUME NEW d \in DOMAIN y, NEW e \in DOMAIN y, d # e
      PROVE  (d .. (d + y[d])) \cap (e .. (e + y[e])) = {}
  <2>1. \A f \in DOMAIN z \ {b} : (b .. (b + z[b])) \cap (f .. (f + z[f])) = {}
    BY DEF Tiles
  <2>2. CASE d \in {b, c} /\ e \in {b, c}
    BY <1>7, <1>9, <2>2
  <2>3. CASE d \in {b, c} /\ e \in DOMAIN z \ {b}
    BY <1>4, <1>6, <2>1, <2>3
  <2>4. CASE e \in {b, c} /\ d \in DOMAIN z \ {b}
    BY <1>4, <1>6, <2>1, <2>4
  <2>5. CASE d \in DOMAIN z \ {b} /\ e \in DOMAIN z \ {b}
    <3>1. (d .. (d + z[d])) \cap (e .. (e + z[e])) = {}
      BY <1>9, <2>5 DEF Tiles
    <3> QED
      BY <1>4, <2>5, <3>1
  <2> QED
    BY <1>4, <2>2, <2>3, <2>4, <2>5
<1>10. DOMAIN y \subseteq Nat \ {0}
  BY <1>1, <1>4
<1>11. Tiles(y, U)
  BY <1>4, <1>5, <1>8, <1>9, <1>10 DEF Tiles
<1> QED
  BY <1>3, <1>11 DEF y

\* Two blocks that touch are joined; the header of the second becomes payload.
LEMMA TilesJoin ==
  ASSUME NEW z, NEW U, Tiles(z, U),
         NEW b \in DOMAIN z, NEW c \in DOMAIN z, b + 1 + z[b] = c
  PROVE  Tiles([d \in DOMAIN z \ {c} |->
                  IF d = b THEN z[d] + 1 + z[c] ELSE z[d]], U)
<1> DEFINE y == [d \in DOMAIN z \ {c} |-> IF d = b THEN z[d] + 1 + z[c] ELSE z[d]]
<1>1. /\ \A d \in DOMAIN z : d \in Nat \ {0} /\ z[d] \in Nat
      /\ c # b
  BY DEF Tiles
<1>2. /\ DOMAIN y = DOMAIN z \ {c}
      /\ y[b] = z[b] + 1 + z[c]
      /\ \A d \in DOMAIN z \ {b, c} : y[d] = z[d]
  BY <1>1
<1>3. y \in [DOMAIN z \ {c} -> Nat]
  BY <1>1
<1> HIDE DEF y
<1>4. b .. (b + y[b]) = (b .. (b + z[b])) \cup (c .. (c + z[c]))
  BY <1>1, <1>2
<1>5. UNION {d .. (d + y[d]) : d \in DOMAIN y} = U
  <2>1. ASSUME NEW u \in U PROVE \E d \in DOMAIN y : u \in d .. (d + y[d])
    <3>1. PICK d \in DOMAIN z : u \in d .. (d + z[d])
      BY DEF Tiles
    <3>2. b \in DOMAIN y
      BY <1>1, <1>2
    <3> QED
      BY <1>2, <1>4, <3>1, <3>2
  <2>2. ASSUME NEW d \in DOMAIN y, NEW u \in d .. (d + y[d]) PROVE u \in U
    <3>1. \A e \in DOMAIN z : e .. (e + z[e]) \subseteq U
      BY DEF Tiles
    <3> QED
      BY <1>2, <1>4, <3>1, <2>2
  <2> QED
    BY <2>1, <2>2
<1>6. ASSUME NEW d \in DOMAIN y, NEW e \in DOMAIN y, d # e
      PROVE  (d .. (d + y[d])) \cap (e .. (e + y[e])) = {}
  <2>1. /\ \A f \in DOMAIN z \ {b} : (b .. (b + z[b])) \cap (f .. (f + z[f])) = {}
        /\ \A f \in DOMAIN z \ {c} : (c .. (c + z[c])) \cap (f .. (f + z[f])) = {}
    BY DEF Tiles
  <2>2. CASE d = b
    BY <1>2, <1>4, <1>6, <2>1, <2>2
  <2>3. CASE e = b
    BY <1>2, <1>4, <1>6, <2>1, <2>3
  <2>4. CASE d # b /\ e # b
    <3>1. (d .. (d + z[d])) \cap (e .. (e + z[e])) = {}
      BY <1>2, <1>6 DEF Tiles
    <3> QED
      BY <1>2, <2>4, <3>1
  <2> QED
    BY <2>2, <2>3, <2>4
<1>7. DOMAIN y \subseteq Nat \ {0}
  BY <1>1, <1>2
<1>8. Tiles(y, U)
  BY <1>2, <1>3, <1>5, <1>6, <1>7 DEF Tiles
<1> QED
  BY <1>8 DEF y

\* One block over units of its own is added.
LEMMA TilesAdd ==
  ASSUME NEW z, NEW U, Tiles(z, U),
         NEW b \in Nat \ {0}, NEW n \in Nat, (b .. (b + n)) \cap U = {}
  PROVE  /\ b \notin DOMAIN z
         /\ Tiles([d \in DOMAIN z \cup {b} |-> IF d = b THEN n ELSE z[d]],
                  U \cup (b .. (b + n)))
<1> DEFINE y == [d \in DOMAIN z \cup {b} |-> IF d = b THEN n ELSE z[d]]
<1>1. /\ \A d \in DOMAIN z : d \in Nat \ {0} /\ z[d] \in Nat
      /\ \A d \in DOMAIN z : d .. (d + z[d]) \subseteq U
  BY DEF Tiles
<1>2. b \notin DOMAIN z
  <2>1. b \in DOMAIN z => b \in b .. (b + z[b])
    BY <1>1
  <2>2. b \in b .. (b + n)
    OBVIOUS
  <2> QED
    BY <1>1, <2>1, <2>2
<1>3. /\ DOMAIN y = DOMAIN z \cup {b} /\ y[b] = n
      /\ \A d \in DOMAIN z : y[d] = z[d]
  BY <1>2
<1>4. y \in [DOMAIN z \cup {b} -> Nat]
  BY <1>1
<1> HIDE DEF y
<1>5. UNION {d .. (d + y[d]) : d \in DOMAIN y} = U \cup (b .. (b + n))
  <2>1. ASSUME NEW u \in U PROVE \E d \in DOMAIN y : u \in d .. (d + y[d])
    <3>1. PICK d \in DOMAIN z : u \in d .. (d + z[d])
      BY DEF Tiles
    <3> QED
      BY <1>3, <3>1
  <2>2. ASSUME NEW d \in DOMAIN y, NEW u \in d .. (d + y[d])
        PROVE  u \in U \cup (b .. (b + n))
    BY <1>1, <1>3, <2>2
  <2>3. \A u \in b .. (b + n) : b \in DOMAIN y /\ u \in b .. (b + y[b])
    BY <1>3
  <2> QED
    BY <2>1, <2>2, <2>3
<1>6. ASSUME NEW d \in DOMAIN y, NEW e \in DOMAIN y, d # e
      PROVE  (d .. (d + y[d])) \cap (e .. (e + y[e])) = {}
  <2>1. CASE d = b
    BY <1>1, <1>3, <1>6, <2>1
  <2>2. CASE e = b
    BY <1>1, <1>3, <1>6, <2>2
  <2>3. CASE d # b /\ e # b
    <3>1. (d .. (d + z[d])) \cap (e .. (e + z[e])) = {}
      BY <1>3, <1>6, <2>3 DEF Tiles
    <3> QED
      BY <1>3, <2>3, <3>1
  <2> QED
    BY <2>1, <2>2, <2>3
<1>7. DOMAIN y \subseteq Nat \ {0}
  BY <1>1, <1>3
<1>8. Tiles(y, U \cup (b .. (b + n)))
  BY <1>3, <1>4, <1>5, <1>6, <1>7 DEF Tiles
<1> QED
  BY <1>2, <1>8 DEF y

-----------------------------------------------------------------------------
(* The heap and what the functions make of it *)

\* A heap of whose blocks L are held and the others listed in order of address.
HeapOK(h, L, U) ==
  /\ h.list \in Seq(Nat) /\ Ascending(h.list)
  /\ ToSet(h.list) \cap L = {} /\ ToSet(h.list) \cup L = DOMAIN h.size
  /\ Tiles(h.size, U)

IsHeap(h) == h = [list |-> h.list, size |-> h.size]

SameOn(S, h, g) == \A b \in S : g.size[b] = h.size[b]

\* The block before the predecessor never ends where a block begins: the
\* predecessor lies between them.  So "coalesce with predecessor" does nothing.
LEMMA CoalescePreviousIdle ==
  ASSUME NEW h, NEW L, NEW U, HeapOK(h, L, U), NEW b \in ToSet(h.list)
  PROVE  CoalescePrevious(h, b) = h
<1> DEFINE s == h.list
           k == CHOOSE i \in DOMAIN s : s[i] = b
<1>1. k \in DOMAIN s /\ s[k] = b
  BY DEF ToSet
<1>2. /\ Len(s) \in Nat /\ DOMAIN s = 1 .. Len(s)
      /\ \A i \in DOMAIN s : s[i] \in DOMAIN h.size /\ s[i] \in Nat
  BY LenProperties, ElementOfSeq DEF HeapOK, ToSet
<1> HIDE DEF k
<1>3. ASSUME k > 2 PROVE End(h, s[k - 2]) # b
  <2>1. k - 2 \in DOMAIN s /\ k - 1 \in DOMAIN s /\ k - 2 < k - 1 /\ k - 1 < k
    BY <1>1, <1>2, <1>3
  <2>2. s[k - 2] < s[k - 1] /\ s[k - 1] < b
    BY <1>1, <2>1 DEF HeapOK, Ascending
  <2>3. s[k - 2] + h.size[s[k - 2]] < s[k - 1]
    BY <1>2, <2>1, <2>2, BlocksApart DEF HeapOK
  <2>4. s[k - 2] \in Nat /\ s[k - 1] \in Nat /\ b \in Nat /\ h.size[s[k - 2]] \in Nat
    BY <1>1, <1>2, <2>1 DEF HeapOK, Tiles
  <2> QED
    BY <2>2, <2>3, <2>4 DEF End
<1> QED
  BY <1>3 DEF CoalescePrevious, k

\* "Coalesce with next" joins a free block with the one behind it, if at all.
LEMMA CoalesceNextKeeps ==
  ASSUME NEW h, NEW L, NEW U, HeapOK(h, L, U), NEW b \in ToSet(h.list)
  PROVE  /\ HeapOK(CoalesceNext(h, b), L, U)
         /\ b \in ToSet(CoalesceNext(h, b).list)
         /\ SameOn(L, h, CoalesceNext(h, b))
<1> DEFINE s == h.list
           k == CHOOSE i \in DOMAIN s : s[i] = b
           c == s[k + 1]
           g == [list |-> RemoveAt(s, k + 1),
                 size |-> [d \in DOMAIN h.size \ {c} |->
                             IF d = b THEN h.size[d] + 1 + h.size[c] ELSE h.size[d]]]
<1>1. k \in DOMAIN s /\ s[k] = b
  BY DEF ToSet
<1>2. /\ Len(s) \in Nat /\ DOMAIN s = 1 .. Len(s)
      /\ \A i \in DOMAIN s : s[i] \in DOMAIN h.size /\ s[i] \in Nat
  BY LenProperties, ElementOfSeq DEF HeapOK, ToSet
<1>3. CoalesceNext(h, b) = IF k < Len(s) /\ End(h, b) = c THEN g ELSE h
  BY DEF CoalesceNext
<1> HIDE DEF k
<1>4. CASE k < Len(s) /\ End(h, b) = c
  <2>1. k + 1 \in 1 .. Len(s) /\ k + 1 \in DOMAIN s /\ k < k + 1
    BY <1>1, <1>2, <1>4
  <2>2. b \in DOMAIN h.size /\ c \in DOMAIN h.size /\ c \in ToSet(s) /\ b < c
    BY <1>1, <1>2, <2>1 DEF HeapOK, Ascending, ToSet
  <2>3. b \in Nat /\ c \in Nat /\ b # c
    BY <1>1, <1>2, <2>1, <2>2
  <2>4. /\ g.list \in Seq(Nat) /\ Ascending(g.list)
        /\ ToSet(g.list) = ToSet(s) \ {c}
    BY <2>1, RemoveAtFacts DEF HeapOK
  <2>5. b + 1 + h.size[b] = c
    BY <1>4 DEF End
  <2>6. Tiles(g.size, U)
    BY <2>2, <2>5, TilesJoin, SMTT(60) DEF HeapOK
  <2>7. DOMAIN g.size = DOMAIN h.size \ {c}
    OBVIOUS
  <2>8. c \notin L /\ b \notin L
    BY <2>2 DEF HeapOK
  <2>9. SameOn(L, h, g)
    BY <2>8 DEF SameOn, HeapOK
  <2> HIDE DEF g
  <2>10. HeapOK(g, L, U)
    BY <2>4, <2>6, <2>7, <2>8 DEF HeapOK
  <2> QED
    BY <1>3, <1>4, <2>3, <2>4, <2>9, <2>10
<1>5. CASE ~(k < Len(s) /\ End(h, b) = c)
  BY <1>3, <1>5 DEF SameOn
<1> QED
  BY <1>4, <1>5

\* free: the block leaves its holder and the blocks of the others stay as they are.
LEMMA FreeBlockKeeps ==
  ASSUME NEW h, IsHeap(h), NEW L, NEW U, HeapOK(h, L, U), NEW b \in L
  PROVE  /\ HeapOK(FreeBlock(h, b), L \ {b}, U)
         /\ SameOn(L \ {b}, h, FreeBlock(h, b))
<1> DEFINE s == InsertSorted(h.list, b)
           g == [h EXCEPT !.list = s]
           f == CoalesceNext(g, b)
<1>1. g = [list |-> s, size |-> h.size]
  BY DEF IsHeap
<1>2. g.list = s /\ g.size = h.size
  BY <1>1
<1>3. b \in Nat /\ b \notin ToSet(h.list)
  BY DEF HeapOK, Tiles
<1>4. s \in Seq(Nat) /\ Ascending(s) /\ ToSet(s) = ToSet(h.list) \cup {b}
  BY <1>3, InsertSortedFacts DEF HeapOK
<1> HIDE DEF g, s
<1>5. HeapOK(g, L \ {b}, U) /\ b \in ToSet(g.list)
  BY <1>2, <1>3, <1>4 DEF HeapOK
<1>6. /\ HeapOK(f, L \ {b}, U) /\ b \in ToSet(f.list)
      /\ SameOn(L \ {b}, g, f)
  BY <1>5, CoalesceNextKeeps
<1>7. FreeBlock(h, b) = CoalescePrevious(f, b)
  BY DEF FreeBlock, f, g, s
<1> HIDE DEF f
<1>8. CoalescePrevious(f, b) = f
  BY <1>6, CoalescePreviousIdle
<1> QED
  BY <1>2, <1>6, <1>7, <1>8 DEF SameOn

\* The block found leaves the list, large enough; what it can spare stays listed.
LEMMA CarveKeeps ==
  ASSUME NEW h, IsHeap(h), NEW L, NEW U, HeapOK(h, L, U),
         NEW i \in DOMAIN h.list, NEW n \in Nat \ {0}, h.size[h.list[i]] >= n
  PROVE  /\ IsHeap(Carve(h, i, n))
         /\ HeapOK(Carve(h, i, n), L \cup {h.list[i]}, U)
         /\ SameOn(L, h, Carve(h, i, n))
         /\ Carve(h, i, n).size[h.list[i]] >= n
<1> DEFINE s == h.list
           z == h.size
           b == s[i]
           c == b + 1 + n
           y == [d \in DOMAIN z \cup {c} |->
                   IF d = b THEN n ELSE IF d = c THEN z[b] - n - 1 ELSE z[d]]
           t == [s EXCEPT ![i] = c]
<1>1. /\ Len(s) \in Nat /\ DOMAIN s = 1 .. Len(s)
      /\ \A k \in DOMAIN s : s[k] \in DOMAIN z /\ s[k] \in Nat
      /\ b \in DOMAIN z /\ b \in ToSet(s) /\ b \in Nat /\ z[b] \in Nat
  <2>1. Len(s) \in Nat /\ DOMAIN s = 1 .. Len(s)
    BY LenProperties DEF HeapOK
  <2>2. \A k \in DOMAIN s : s[k] \in ToSet(s)
    BY DEF ToSet
  <2>3. ToSet(s) \subseteq DOMAIN z /\ DOMAIN z \subseteq Nat /\ \A d \in DOMAIN z : z[d] \in Nat
    BY DEF HeapOK, Tiles
  <2> QED
    BY <2>1, <2>2, <2>3
<1>2. b \notin L
  BY <1>1 DEF HeapOK
<1>3. CASE z[b] >= n + 1 + 1
  <2>1. Carve(h, i, n) = [list |-> t, size |-> y]
    BY <1>3 DEF Carve
  <2>2. c \notin DOMAIN z /\ Tiles(y, U)
    <3>1. n \in Nat /\ n + 1 <= z[b]
      BY <1>1, <1>3
    <3> QED
      BY <1>1, <3>1, TilesCut DEF HeapOK
  <2>3. DOMAIN y = DOMAIN z \cup {c} /\ y[b] = n /\ \A d \in L : y[d] = z[d]
    <3>1. c # b
      BY <1>1
    <3> QED
      BY <1>1, <1>2, <2>2, <3>1 DEF HeapOK
  <2>4. t \in Seq(Nat) /\ Len(t) = Len(s) /\ DOMAIN t = DOMAIN s
    <3>1. c \in Nat
      BY <1>1
    <3> QED
      BY <1>1, <3>1, ExceptSeq DEF HeapOK
  <2>5. t[i] = c /\ \A k \in DOMAIN s \ {i} : t[k] = s[k]
    OBVIOUS
  <2> HIDE DEF y, t
  <2>6. Ascending(t)
    <3> SUFFICES ASSUME NEW k \in DOMAIN s, NEW l \in DOMAIN s, k < l
                 PROVE  t[k] < t[l]
      BY <2>4 DEF Ascending
    <3>1. s[k] < s[l] /\ s[k] \in Nat /\ s[l] \in Nat
      BY <1>1 DEF HeapOK, Ascending
    <3>2. CASE k = i
      <4>1. b + z[b] < s[l]
        BY <1>1, <3>1, <3>2, BlocksApart DEF HeapOK
      <4>2. l # i
        BY <1>1, <3>2
      <4> QED
        BY <1>1, <1>3, <2>5, <3>1, <3>2, <4>1, <4>2
    <3>3. CASE l = i
      <4>1. k # i
        BY <1>1, <3>3
      <4> QED
        BY <1>1, <2>5, <3>1, <3>3, <4>1
    <3> QED
      BY <2>5, <3>1, <3>2, <3>3
  <2>7. ToSet(t) = (ToSet(s) \ {b}) \cup {c}
    <3>1. ASSUME NEW k \in DOMAIN s, k # i PROVE s[k] # b
      <4>1. k < i \/ i < k
        BY <1>1, <3>1
      <4>2. s[k] < b \/ b < s[k]
        BY <4>1 DEF HeapOK, Ascending
      <4> QED
        BY <1>1, <4>2
    <3>2. \A k \in DOMAIN t : t[k] \in (ToSet(s) \ {b}) \cup {c}
      BY <2>4, <2>5, <3>1 DEF ToSet
    <3>3. \A k \in DOMAIN s : k # i => s[k] \in ToSet(t)
      BY <2>4, <2>5 DEF ToSet
    <3>4. c \in ToSet(t)
      BY <2>4, <2>5 DEF ToSet
    <3>5. \A x \in ToSet(s) \ {b} : \E k \in DOMAIN s : k # i /\ x = s[k]
      BY DEF ToSet
    <3>6. ToSet(t) \subseteq (ToSet(s) \ {b}) \cup {c}
      BY <3>2 DEF ToSet
    <3> QED
      BY <3>3, <3>4, <3>5, <3>6
  <2>8. c \notin L
    BY <2>2 DEF HeapOK
  <2>9. HeapOK([list |-> t, size |-> y], L \cup {b}, U)
    <3> DEFINE g == [list |-> t, size |-> y]
    <3>1. g.list = t /\ g.size = y
      OBVIOUS
    <3>2. /\ ToSet(t) \cap (L \cup {b}) = {}
          /\ ToSet(t) \cup L \cup {b} = DOMAIN y
      <4>1. c # b
        BY <1>1
      <4> QED
        BY <1>1, <2>3, <2>7, <2>8, <4>1, SMTT(60) DEF HeapOK
    <3> HIDE DEF g
    <3>3. HeapOK(g, L \cup {b}, U)
      BY <2>2, <2>4, <2>6, <3>1, <3>2 DEF HeapOK
    <3> QED
      BY <3>3 DEF g
  <2> QED
    BY <2>1, <2>3, <2>9 DEF IsHeap, SameOn
<1>4. CASE ~(z[b] >= n + 1 + 1)
  <2> DEFINE g == [list |-> RemoveAt(s, i), size |-> z]
  <2>1. Carve(h, i, n) = g
    BY <1>4 DEF Carve, IsHeap
  <2>2. /\ RemoveAt(s, i) \in Seq(Nat) /\ Ascending(RemoveAt(s, i))
        /\ ToSet(RemoveAt(s, i)) = ToSet(s) \ {b}
    BY <1>1, RemoveAtFacts DEF HeapOK
  <2>3. g.list = RemoveAt(s, i) /\ g.size = z /\ IsHeap(g)
    BY DEF IsHeap
  <2> HIDE DEF g
  <2>4. HeapOK(g, L \cup {b}, U)
    BY <1>1, <2>2, <2>3 DEF HeapOK
  <2> QED
    BY <2>1, <2>3, <2>4 DEF SameOn
<1> QED
  BY <1>3, <1>4

\* A pool is one free block; it may come before, behind or between the others.
LEMMA AddPoolKeeps ==
  ASSUME NEW h, NEW L, NEW U, HeapOK(h, L, U),
         NEW b \in Nat \ {0}, NEW n \in Nat \ {0}, (b .. (b + n - 1)) \cap U = {}
  PROVE  /\ IsHeap(AddPool(h, b, n))
         /\ HeapOK(AddPool(h, b, n), L, U \cup (b .. (b + n - 1)))
         /\ SameOn(L, h, AddPool(h, b, n))
         /\ b \in ToSet(AddPool(h, b, n).list) /\ AddPool(h, b, n).size[b] = n - 1
<1> DEFINE s == InsertSorted(h.list, b)
           y == [c \in DOMAIN h.size \cup {b} |-> IF c = b THEN n - 1 ELSE h.size[c]]
           g == [list |-> s, size |-> y]
<1>1. b \in Nat /\ n - 1 \in Nat /\ b + (n - 1) = b + n - 1
  OBVIOUS
<1>2. b \notin DOMAIN h.size /\ Tiles(y, U \cup (b .. (b + n - 1)))
  <2> HIDE DEF y
  <2>1. (b .. (b + (n - 1))) \cap U = {}
    BY <1>1
  <2>2. /\ b \notin DOMAIN h.size
        /\ Tiles([d \in DOMAIN h.size \cup {b} |-> IF d = b THEN n - 1 ELSE h.size[d]],
                 U \cup (b .. (b + (n - 1))))
    BY <1>1, <2>1, TilesAdd DEF HeapOK
  <2> QED
    BY <1>1, <2>2 DEF y
<1>3. b \notin ToSet(h.list) /\ b \notin L
  BY <1>2 DEF HeapOK
<1>4. s \in Seq(Nat) /\ Ascending(s) /\ ToSet(s) = ToSet(h.list) \cup {b}
  BY <1>3, InsertSortedFacts DEF HeapOK
<1>5. DOMAIN y = DOMAIN h.size \cup {b} /\ y[b] = n - 1 /\ \A c \in L : y[c] = h.size[c]
  BY <1>3 DEF HeapOK
<1>6. g.list = s /\ g.size = y /\ IsHeap(g)
  BY DEF IsHeap
<1>7. AddPool(h, b, n) = CoalescePrevious(g, b)
  BY DEF AddPool
<1> HIDE DEF s, y, g
<1>8. HeapOK(g, L, U \cup (b .. (b + n - 1))) /\ b \in ToSet(g.list)
  BY <1>2, <1>3, <1>4, <1>5, <1>6 DEF HeapOK
<1>9. CoalescePrevious(g, b) = g
  BY <1>8, CoalescePreviousIdle
<1> QED
  BY <1>5, <1>6, <1>7, <1>8, <1>9 DEF SameOn

\* First fit finds a block that is large enough, if there is one.
LEMMA FirstFitFacts ==
  ASSUME NEW h, NEW n \in Nat, h.list \in Seq(Nat),
         \A b \in ToSet(h.list) : h.size[b] \in Nat
  PROVE  /\ FirstFit(h, n) \in Nat
         /\ FirstFit(h, n) > 0 =>
              /\ FirstFit(h, n) \in DOMAIN h.list
              /\ h.size[h.list[FirstFit(h, n)]] >= n
         /\ FirstFit(h, n) = 0 => \A b \in ToSet(h.list) : h.size[b] < n
<1> DEFINE I == {i \in 1 .. Len(h.list) : h.size[h.list[i]] >= n}
<1>1. Len(h.list) \in Nat /\ DOMAIN h.list = 1 .. Len(h.list)
  BY LenProperties
<1>2. FirstFit(h, n) = IF I # {} THEN Min(I) ELSE 0
  BY DEF FirstFit, SelectInSeq
<1>3. CASE I # {}
  <2>1. Min(I) \in I
    <3>1. I \in SUBSET Nat
      BY <1>1
    <3> HIDE DEF I
    <3> QED
      BY <1>3, <3>1, MinIsLeast
  <2> HIDE DEF I
  <2>2. FirstFit(h, n) \in I
    BY <1>2, <1>3, <2>1
  <2> QED
    BY <1>1, <2>2 DEF I
<1>4. CASE I = {}
  <2>1. \A i \in DOMAIN h.list : h.size[h.list[i]] < n
    BY <1>1, <1>4, SMTT(60) DEF ToSet
  <2> QED
    BY <1>2, <1>4, <2>1, SMTT(60) DEF ToSet
<1> QED
  BY <1>3, <1>4

-----------------------------------------------------------------------------
(* Frames and pools *)

\* Units are counted in the same order as the frames they begin.
LEMMA Scaled ==
  ASSUME NEW m \in Nat, NEW n \in Nat, m <= n
  PROVE  m * FrameUnits <= n * FrameUnits /\ n * FrameUnits \in Nat
<1>1. FrameUnits \in Nat
  BY HeapAssumption
<1>2. n - m \in Nat /\ n = m + (n - m)
  OBVIOUS
<1>3. (n - m) * FrameUnits \in Nat /\ m * FrameUnits \in Nat /\ n * FrameUnits \in Nat
  BY <1>1, <1>2
<1>4. (m + (n - m)) * FrameUnits = m * FrameUnits + (n - m) * FrameUnits
  BY <1>1, <1>2
<1> QED
  BY <1>2, <1>3, <1>4

\* The frames asked for hold the request, its header and what is asked beyond it.
LEMMA PoolHolds ==
  ASSUME NEW n \in Nat
  PROVE  /\ PoolFrames(n) \in Nat \ {0}
         /\ PoolFrames(n) * FrameUnits \in Nat \ {0}
         /\ PoolFrames(n) * FrameUnits >= n + POOL_SIZE
<1> DEFINE a == n + POOL_SIZE + FrameUnits - 1
           q == a \div FrameUnits
<1>1. FrameUnits \in Nat \ {0} /\ POOL_SIZE \in Nat \ {0} /\ a \in Nat
  BY HeapAssumption
<1> HIDE DEF a
<1>2. /\ q \in Nat /\ q * FrameUnits \in Nat
      /\ q * FrameUnits <= a /\ a < q * FrameUnits + FrameUnits
  BY <1>1
<1>3. PoolFrames(n) = q
  BY DEF PoolFrames, a
<1> HIDE DEF q
<1>4. q * FrameUnits >= n + POOL_SIZE
  BY <1>1, <1>2 DEF a
<1>5. q # 0
  BY <1>1, <1>4
<1> QED
  BY <1>1, <1>2, <1>3, <1>4, <1>5

PoolOf(f, n) == [base |-> f * FrameUnits, units |-> n * FrameUnits]

\* Pools are runs of frames that the heap holds.
PoolsHeld ==
  \A p \in pools : \E f \in Nat, n \in Nat :
    p = PoolOf(f, n) /\ f .. (f + n - 1) \subseteq held

\* Runs of different frames are different units.
LEMMA RunsApart ==
  ASSUME NEW f \in Nat, NEW n \in Nat, NEW g \in Nat, NEW m \in Nat,
         (f .. (f + n - 1)) \cap (g .. (g + m - 1)) = {}
  PROVE  ((f * FrameUnits) .. (f * FrameUnits + n * FrameUnits - 1))
           \cap ((g * FrameUnits) .. (g * FrameUnits + m * FrameUnits - 1)) = {}
<1>1. FrameUnits \in Nat
  BY HeapAssumption
<1>2. /\ f * FrameUnits \in Nat /\ n * FrameUnits \in Nat
      /\ g * FrameUnits \in Nat /\ m * FrameUnits \in Nat
      /\ f * FrameUnits + n * FrameUnits = (f + n) * FrameUnits
      /\ g * FrameUnits + m * FrameUnits = (g + m) * FrameUnits
  BY <1>1
<1>3. n = 0 \/ m = 0 \/ f + n <= g \/ g + m <= f
  <2>1. CASE f <= g
    <3>1. g \notin f .. (f + n - 1) \/ g \notin g .. (g + m - 1)
      OBVIOUS
    <3> QED
      BY <2>1, <3>1
  <2>2. CASE g <= f
    <3>1. f \notin f .. (f + n - 1) \/ f \notin g .. (g + m - 1)
      OBVIOUS
    <3> QED
      BY <2>2, <3>1
  <2> QED
    BY <2>1, <2>2
<1>4. CASE n = 0
  <2>1. n * FrameUnits = 0
    BY <1>1, <1>4
  <2> QED
    BY <1>2, <2>1
<1>5. CASE m = 0
  <2>1. m * FrameUnits = 0
    BY <1>1, <1>5
  <2> QED
    BY <1>2, <2>1
<1>6. CASE f + n <= g
  <2>1. (f + n) * FrameUnits <= g * FrameUnits
    BY <1>6, Scaled
  <2> QED
    BY <1>2, <2>1
<1>7. CASE g + m <= f
  <2>1. (g + m) * FrameUnits <= f * FrameUnits
    BY <1>7, Scaled
  <2> QED
    BY <1>2, <2>1
<1> QED
  BY <1>3, <1>4, <1>5, <1>6, <1>7

-----------------------------------------------------------------------------
(* The invariant *)

FramesApart == free \subseteq Nat \ {0} /\ free \cap held = {}

HeapInv ==
  /\ FramesApart
  /\ PoolsHeld
  /\ HeapOK(Heap, live, Unit)
  /\ WritesFit
  /\ StuckOnlyWithoutFrames

\* A block found in a heap goes to its caller, and the block it replaces back.
LEMMA HandedOver ==
  ASSUME NEW h, IsHeap(h), NEW U, HeapOK(h, live, U),
         NEW n \in Nat \ {0}, NEW i \in DOMAIN h.list, h.size[h.list[i]] >= n,
         NEW old \in live \cup {None}, NEW units \in Nat, units <= n,
         HandOver(h, i, n, old, units)
  PROVE  /\ HeapOK([list |-> freelist', size |-> size'], live', U)
         /\ \A b \in live \cap live' : size'[b] = h.size[b]
         /\ WritesFit'
<1> DEFINE b == h.list[i]
           g == Carve(h, i, n)
           k == IF old = None THEN g ELSE FreeBlock(g, old)
<1>1. /\ freelist' = k.list /\ size' = k.size
      /\ live' = (live \cup {b}) \ {old}
      /\ wrote' = IF units = 0 THEN Nothing ELSE [block |-> b, units |-> units]
  BY DEF HandOver, Become
<1>2. /\ IsHeap(g) /\ HeapOK(g, live \cup {b}, U) /\ SameOn(live, h, g)
      /\ g.size[b] >= n
  BY CarveKeeps
<1>3. b \in ToSet(h.list)
  BY DEF ToSet
<1>4. b \notin live /\ b \in DOMAIN h.size /\ None \notin DOMAIN h.size
  BY <1>3 DEF HeapOK, Tiles, None
<1>5. live \subseteq DOMAIN h.size
  BY DEF HeapOK
<1> HIDE DEF g, b
<1>6. g.size[b] \in Nat
  BY <1>2 DEF HeapOK, Tiles
<1>7. CASE old = None
  <2>1. k = g /\ live' = live \cup {b}
    BY <1>1, <1>4, <1>5, <1>7
  <2>2. [list |-> freelist', size |-> size'] = g
    BY <1>1, <1>2, <2>1 DEF IsHeap
  <2>3. size'[b] >= units
    BY <1>1, <1>2, <1>6, <2>1
  <2> QED
    BY <1>1, <1>2, <2>1, <2>2, <2>3 DEF SameOn, WritesFit, Nothing
<1>8. CASE old \in live
  <2>1. k = FreeBlock(g, old)
    BY <1>4, <1>5, <1>8
  <2>2. /\ HeapOK(k, (live \cup {b}) \ {old}, U)
        /\ SameOn((live \cup {b}) \ {old}, g, k)
    BY <1>2, <1>8, <2>1, FreeBlockKeeps
  <2> HIDE DEF k
  <2>3. HeapOK([list |-> freelist', size |-> size'], live', U)
    <3> DEFINE r == [list |-> freelist', size |-> size']
    <3>1. r.list = k.list /\ r.size = k.size
      BY <1>1
    <3> HIDE DEF r
    <3>2. HeapOK(r, live', U)
      BY <1>1, <2>2, <3>1 DEF HeapOK
    <3> QED
      BY <3>2 DEF r
  <2>4. size'[b] = g.size[b]
    BY <1>1, <1>4, <1>8, <2>2 DEF SameOn
  <2>5. size'[b] >= units
    BY <1>2, <1>6, <2>4
  <2> QED
    BY <1>1, <1>2, <2>2, <2>3, <2>5 DEF SameOn, WritesFit, Nothing
<1> QED
  BY <1>7, <1>8

\* malloc, calloc and realloc once they look for a block.
LEMMA Allocated ==
  ASSUME HeapInv, ~stuck,
         NEW n \in Nat \ {0}, NEW old \in live \cup {None},
         NEW units \in Nat, units <= n,
         Allocate(n, old, units)
  PROVE  HeapInv' /\ \A b \in live \cap live' : size'[b] = size[b]
<1> DEFINE i == FirstFit(Heap, n)
<1>1. IsHeap(Heap) /\ Heap.list = freelist /\ Heap.size = size
  BY DEF IsHeap, Heap
<1>2. HeapOK(Heap, live, Unit)
  BY DEF HeapInv
<1>3. /\ i \in Nat
      /\ i > 0 => i \in DOMAIN freelist /\ size[freelist[i]] >= n
  <2>1. \A b \in ToSet(Heap.list) : Heap.size[b] \in Nat
    BY <1>2 DEF HeapOK, Tiles
  <2> QED
    BY <1>1, <1>2, <2>1, FirstFitFacts DEF HeapOK
<1>4. CASE i > 0 /\ HandOver(Heap, i, n, old, units) /\ UNCHANGED <<frameVars, pools, stuck>>
  <2>1. /\ HeapOK([list |-> freelist', size |-> size'], live', Unit)
        /\ \A b \in live \cap live' : size'[b] = size[b]
        /\ WritesFit'
    BY <1>1, <1>2, <1>3, <1>4, HandedOver
  <2>2. UNCHANGED <<free, held, reply, pools, stuck>>
    BY <1>4 DEF frameVars
  <2> QED
    BY <2>1, <2>2 DEF HeapInv, Heap, Unit, FramesApart, PoolsHeld, StuckOnlyWithoutFrames
<1>5. CASE Frames!AllocRun(PoolFrames(n)) /\ reply'.frame = 0
           /\ stuck' = TRUE /\ UNCHANGED <<pools, freelist, size, live, wrote>>
  <2>1. /\ UNCHANGED <<free, held>>
        /\ reply' = [op |-> "pmm_alloc_contiguous", count |-> PoolFrames(n), frame |-> 0]
    <3>1. ASSUME NEW f \in free,
                 reply' = [op |-> "pmm_alloc_contiguous", count |-> PoolFrames(n), frame |-> f]
          PROVE  FALSE
      BY <1>5, <3>1 DEF HeapInv, FramesApart
    <3> QED
      BY <1>5, <3>1 DEF Frames!AllocRun, Frames!Answer
  <2> QED
    BY <1>5, <2>1
    DEF HeapInv, Heap, Unit, FramesApart, PoolsHeld, StuckOnlyWithoutFrames, WritesFit
<1>6. CASE /\ Frames!AllocRun(PoolFrames(n)) /\ reply'.frame # 0
           /\ LET pool == [base |-> reply'.frame * FrameUnits,
                           units |-> PoolFrames(n) * FrameUnits]
                  h == AddPool(Heap, pool.base, pool.units)
                  j == FirstFit(h, n)
              IN  /\ pools' = pools \cup {pool}
                  /\ IF j > 0
                     THEN HandOver(h, j, n, old, units) /\ UNCHANGED stuck
                     ELSE Become(h) /\ stuck' = TRUE /\ UNCHANGED <<live, wrote>>
  <2> DEFINE m == PoolFrames(n)
  <2>1. PICK f \in free : /\ f .. (f + m - 1) \subseteq free
                          /\ free' = free \ (f .. (f + m - 1))
                          /\ held' = held \cup (f .. (f + m - 1))
                          /\ reply'.frame = f
    BY <1>6 DEF Frames!AllocRun, Frames!Take, Frames!Answer
  <2> DEFINE a == f * FrameUnits
             u == m * FrameUnits
             h == AddPool(Heap, a, u)
             j == FirstFit(h, n)
             U == Unit \cup (a .. (a + u - 1))
  <2>2. /\ pools' = pools \cup {PoolOf(f, m)}
        /\ IF j > 0
           THEN HandOver(h, j, n, old, units) /\ UNCHANGED stuck
           ELSE Become(h) /\ stuck' = TRUE /\ UNCHANGED <<live, wrote>>
    BY <1>6, <2>1 DEF PoolOf
  <2>3. /\ m \in Nat \ {0} /\ f \in Nat \ {0}
        /\ a \in Nat \ {0} /\ u \in Nat \ {0}
        /\ u >= n + POOL_SIZE
    <3>1. f \in Nat \ {0}
      BY DEF HeapInv, FramesApart
    <3>2. f * FrameUnits \in Nat \ {0}
      BY <3>1, HeapAssumption
    <3> QED
      BY <3>1, <3>2, PoolHolds
  <2>4. (a .. (a + u - 1)) \cap Unit = {}
    <3> SUFFICES ASSUME NEW p \in pools
                 PROVE  (a .. (a + u - 1))
                          \cap (p.base .. (p.base + p.units - 1)) = {}
      BY DEF Unit
    <3>1. PICK g \in Nat, l \in Nat : p = PoolOf(g, l) /\ g .. (g + l - 1) \subseteq held
      BY DEF HeapInv, PoolsHeld
    <3>2. (f .. (f + m - 1)) \cap (g .. (g + l - 1)) = {}
      BY <2>1, <3>1 DEF HeapInv, FramesApart
    <3>3. p.base = g * FrameUnits /\ p.units = l * FrameUnits
      BY <3>1 DEF PoolOf
    <3>4. f \in Nat /\ m \in Nat
      BY <2>3
    <3> HIDE DEF m
    <3>5. ((f * FrameUnits) .. (f * FrameUnits + m * FrameUnits - 1))
            \cap ((g * FrameUnits) .. (g * FrameUnits + l * FrameUnits - 1)) = {}
      BY <3>2, <3>4, RunsApart
    <3> QED
      BY <3>3, <3>5
  <2> HIDE DEF m, a, u
  <2>5. /\ IsHeap(h) /\ HeapOK(h, live, U) /\ SameOn(live, Heap, h)
        /\ a \in ToSet(h.list) /\ h.size[a] = u - 1
    <3>1. a \in Nat \ {0} /\ u \in Nat \ {0} /\ (a .. (a + u - 1)) \cap Unit = {}
      BY <2>3, <2>4
    <3> QED
      BY <1>2, <3>1, AddPoolKeeps
  <2> HIDE DEF h
  <2>6. /\ j \in Nat
        /\ j > 0 => j \in DOMAIN h.list /\ h.size[h.list[j]] >= n
        /\ j = 0 => \A b \in ToSet(h.list) : h.size[b] < n
    <3>1. \A b \in ToSet(h.list) : h.size[b] \in Nat
      BY <2>5 DEF HeapOK, Tiles
    <3> QED
      BY <2>5, <3>1, FirstFitFacts DEF HeapOK
  <2>7. j > 0
    <3>1. h.size[a] >= n
      BY <2>3, <2>5, HeapAssumption
    <3>2. h.size[a] \in Nat
      BY <2>3, <2>5
    <3> HIDE DEF j
    <3> QED
      BY <2>5, <2>6, <3>1, <3>2
  <2> HIDE DEF j
  <2>8. HandOver(h, j, n, old, units) /\ UNCHANGED stuck
    BY <2>2, <2>7
  <2>9. Unit' = U
    <3>1. PoolOf(f, m).base = a /\ PoolOf(f, m).units = u
      BY DEF PoolOf, a, u
    <3> QED
      BY <2>2, <3>1 DEF Unit
  <2>10. /\ HeapOK([list |-> freelist', size |-> size'], live', U)
         /\ \A b \in live \cap live' : size'[b] = h.size[b]
         /\ WritesFit'
    <3> HIDE DEF U
    <3> QED
      BY <2>5, <2>6, <2>7, <2>8, HandedOver
  <2>11. \A b \in live \cap live' : size'[b] = size[b]
    BY <1>1, <2>5, <2>10 DEF SameOn
  <2>12. FramesApart'
    BY <2>1 DEF HeapInv, FramesApart
  <2>13. PoolsHeld'
    <3> SUFFICES ASSUME NEW p \in pools'
                 PROVE  \E g \in Nat, l \in Nat :
                          p = PoolOf(g, l) /\ g .. (g + l - 1) \subseteq held'
      BY DEF PoolsHeld
    <3>1. CASE p \in pools
      BY <2>1, <3>1 DEF HeapInv, PoolsHeld
    <3>2. CASE p = PoolOf(f, m)
      BY <2>1, <2>3, <3>2
    <3> QED
      BY <2>2, <3>1, <3>2
  <2>14. StuckOnlyWithoutFrames'
    BY <2>8 DEF StuckOnlyWithoutFrames
  <2>15. HeapOK(Heap, live, Unit)'
    BY <2>9, <2>10 DEF Heap
  <2> QED
    BY <2>10, <2>11, <2>12, <2>13, <2>14, <2>15 DEF HeapInv
<1> QED
  BY <1>3, <1>4, <1>5, <1>6 DEF Allocate

\* Every step keeps the invariant and the size of each block that stays held.
LEMMA HeapStep ==
  ASSUME HeapInv, [Next]_vars
  PROVE  HeapInv' /\ \A b \in live \cap live' : size'[b] = size[b]
<1>1. ASSUME NEW n \in 0 .. MaxRequest, malloc(n) \/ calloc(n)
      PROVE  HeapInv' /\ \A b \in live \cap live' : size'[b] = size[b]
  <2>1. Rounded(n) \in Nat \ {0} /\ n \in Nat /\ n <= Rounded(n)
    BY HeapAssumption DEF Rounded
  <2>2. ~stuck /\ (Allocate(Rounded(n), None, 0) \/ Allocate(Rounded(n), None, n))
    BY <1>1 DEF malloc, calloc
  <2>3. CASE Allocate(Rounded(n), None, 0)
    BY <2>1, <2>2, <2>3, Allocated
  <2>4. CASE Allocate(Rounded(n), None, n)
    BY <2>1, <2>2, <2>4, Allocated
  <2> QED
    BY <2>2, <2>3, <2>4
<1>2. ASSUME NEW b \in live, free_(b)
      PROVE  HeapInv' /\ \A c \in live \cap live' : size'[c] = size[c]
  <2> DEFINE h == FreeBlock(Heap, b)
  <2>1. IsHeap(Heap) /\ Heap.size = size /\ HeapOK(Heap, live, Unit)
    BY DEF IsHeap, Heap, HeapInv
  <2>2. HeapOK(h, live \ {b}, Unit) /\ SameOn(live \ {b}, Heap, h)
    BY <2>1, FreeBlockKeeps
  <2>3. /\ freelist' = h.list /\ size' = h.size /\ live' = live \ {b} /\ wrote' = Nothing
        /\ UNCHANGED <<free, held, reply, pools, stuck>>
    BY <1>2 DEF free_, Become, frameVars
  <2> HIDE DEF h
  <2>4. Heap'.list = h.list /\ Heap'.size = h.size /\ Unit' = Unit
    BY <2>3 DEF Heap, Unit
  <2>5. HeapOK(Heap, live, Unit)'
    BY <2>2, <2>3, <2>4 DEF HeapOK
  <2> QED
    BY <2>1, <2>2, <2>3, <2>5
    DEF HeapInv, SameOn, FramesApart, PoolsHeld, StuckOnlyWithoutFrames, WritesFit
<1>3. ASSUME NEW p \in live, NEW n \in 1 .. MaxRequest, realloc(p, n)
      PROVE  HeapInv' /\ \A b \in live \cap live' : size'[b] = size[b]
  <2>1. CASE UNCHANGED vars
    BY <2>1 DEF vars, frameVars, heapVars, HeapInv, Heap, Unit, FramesApart, PoolsHeld,
                StuckOnlyWithoutFrames, WritesFit
  <2>2. CASE size[p] < n /\ Allocate(n, p, size[p])
    <3>1. size[p] \in Nat /\ n \in Nat \ {0}
      BY HeapAssumption DEF HeapInv, HeapOK, Tiles, Heap
    <3>2. ~stuck
      BY <1>3 DEF realloc
    <3> QED
      BY <2>2, <3>1, <3>2, Allocated
  <2> QED
    BY <1>3, <2>1, <2>2 DEF realloc
<1>4. ASSUME other_alloc
      PROVE  HeapInv' /\ \A b \in live \cap live' : size'[b] = size[b]
  <2>1. ~stuck /\ UNCHANGED <<pools, freelist, size, live, wrote, stuck>>
    BY <1>4 DEF other_alloc, heapVars
  <2>2. FramesApart' /\ held \subseteq held'
    BY <1>4 DEF other_alloc, Frames!AllocOne, Frames!Take, HeapInv, FramesApart
  <2>3. PoolsHeld'
    BY <2>1, <2>2 DEF HeapInv, PoolsHeld
  <2> QED
    BY <2>1, <2>2, <2>3 DEF HeapInv, Heap, Unit, StuckOnlyWithoutFrames, WritesFit
<1>5. CASE UNCHANGED vars
  BY <1>5 DEF vars, frameVars, heapVars, HeapInv, Heap, Unit, FramesApart, PoolsHeld,
              StuckOnlyWithoutFrames, WritesFit
<1> QED
  BY <1>1, <1>2, <1>3, <1>4, <1>5 DEF Next

\* The heap is well formed in every state.
THEOREM Invariant == Spec => []HeapInv
<1>1. Init => HeapInv
  <2> SUFFICES ASSUME Init PROVE HeapInv
    OBVIOUS
  <2>1. /\ free = MemFrames /\ held = {} /\ pools = {} /\ freelist = <<>>
        /\ size = << >> /\ live = {} /\ wrote = Nothing /\ stuck = FALSE
    BY DEF Init, Frames!Init
  <2>2. HeapOK(Heap, live, Unit)
    BY <2>1 DEF HeapOK, Heap, Unit, Tiles, Ascending, ToSet
  <2> QED
    BY <2>1, <2>2, HeapAssumption
    DEF HeapInv, FramesApart, PoolsHeld, WritesFit, StuckOnlyWithoutFrames
<1>2. HeapInv /\ [Next]_vars => HeapInv'
  BY HeapStep
<1> QED
  BY <1>1, <1>2, PTL DEF Spec

\* Headers and payloads tile the pools, and each block is free or held.
THEOREM BlocksTile == Spec => []BlocksTilePools
<1>1. HeapInv => BlocksTilePools
  <2> SUFFICES ASSUME HeapInv PROVE BlocksTilePools
    OBVIOUS
  <2>1. /\ freelist \in Seq(Nat) /\ Ascending(freelist)
        /\ ToSet(freelist) \cap live = {} /\ ToSet(freelist) \cup live = DOMAIN size
        /\ Tiles(size, Unit)
    BY DEF HeapInv, HeapOK, Heap
  <2>2. IsInjective(freelist)
    <3> SUFFICES ASSUME NEW i \in DOMAIN freelist, NEW j \in DOMAIN freelist, i < j
                 PROVE  freelist[i] # freelist[j]
      <4>1. DOMAIN freelist \subseteq Nat
        BY <2>1, LenProperties
      <4> QED
        BY <4>1 DEF IsInjective
    <3>1. freelist[i] < freelist[j]
      BY <2>1 DEF Ascending
    <3>2. freelist[i] \in Nat /\ freelist[j] \in Nat
      BY <2>1, LenProperties, ElementOfSeq
    <3> QED
      BY <3>1, <3>2
  <2> QED
    BY <2>1, <2>2 DEF BlocksTilePools, Tiles, Span
<1> QED
  BY <1>1, Invariant, PTL

\* What calloc clears and realloc copies fits the block it goes to.
THEOREM Writes == Spec => []WritesFit
<1>1. HeapInv => WritesFit
  BY DEF HeapInv
<1> QED
  BY <1>1, Invariant, PTL

\* malloc fails to return only when the frame allocator refused a pool.
THEOREM Stuck == Spec => []StuckOnlyWithoutFrames
<1>1. HeapInv => StuckOnlyWithoutFrames
  BY DEF HeapInv
<1> QED
  BY <1>1, Invariant, PTL

\* No step changes the size of a block that stays held.
THEOREM HeldKept == Spec => HeldBlocksKept
<1>1. HeapInv /\ [Next]_vars => [\A b \in live \cap live' : size'[b] = size[b]]_vars
  BY HeapStep
<1> QED
  BY <1>1, Invariant, PTL DEF Spec, HeldBlocksKept

\* kmalloc.c:34 and 91: neither add_pool nor free ever joins a block with the
\* one before it, whatever the sizes.
THEOREM NeverJoinsPrevious ==
  Spec => [](\A b \in ToSet(freelist) : CoalescePrevious(Heap, b) = Heap)
<1>1. HeapInv => \A b \in ToSet(freelist) : CoalescePrevious(Heap, b) = Heap
  <2> SUFFICES ASSUME HeapInv, NEW b \in ToSet(freelist)
               PROVE  CoalescePrevious(Heap, b) = Heap
    OBVIOUS
  <2>1. HeapOK(Heap, live, Unit) /\ Heap.list = freelist
    BY DEF HeapInv, Heap
  <2> QED
    BY <2>1, CoalescePreviousIdle
<1> QED
  BY <1>1, Invariant, PTL
=============================================================================
