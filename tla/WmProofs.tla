------------------------------ MODULE WmProofs ------------------------------
(***************************************************************************)
(* What Wm promises, proved for every screen, every list of windows and    *)
(* every number of windows that wm_redraw can paint.                       *)
(***************************************************************************)
EXTENDS Wm, FiniteSetTheorems, SequenceTheorems, WellFoundedInduction, TLAPS

-----------------------------------------------------------------------------
(* Sets of numbers *)

\* A set of natural numbers that is not empty has a least element.
LEMMA LeastNat ==
  ASSUME NEW T, T \subseteq Nat, T # {}
  PROVE  \E m \in T : \A k \in T : m <= k
<1> DEFINE R == OpToRel(<, Nat)
<1>1. IsWellFoundedOn(R, Nat)
  BY NatLessThanWellFounded
<1>2. \E x \in T : \A y \in T : ~ (<<y, x>> \in R)
  <2> HIDE DEF R
  <2> QED BY <1>1, WFMin
<1>3. \A a, b \in Nat : <<a, b>> \in R <=> a < b
  BY DEF OpToRel
<1> HIDE DEF R
<1>4. PICK m \in T : \A y \in T : ~ (<<y, m>> \in R)
  BY <1>2
<1>5. ASSUME NEW k \in T PROVE m <= k
  <2>1. ~ (k < m)
    BY <1>3, <1>4
  <2>2. k \in Nat /\ m \in Nat
    OBVIOUS
  <2> QED BY <2>1, <2>2
<1> QED
  BY <1>5

\* A set of numbers up to n that is not empty has a greatest element, and that
\* is its Max.
LEMMA Greatest ==
  ASSUME NEW n \in Nat, NEW S, S \subseteq 1 .. n, S # {}
  PROVE  /\ Max(S) \in S
         /\ \A k \in S : k <= Max(S)
<1> DEFINE T == {n - k : k \in S}
<1>1. T \subseteq Nat /\ T # {}
  OBVIOUS
<1>2. PICK t \in T : \A k \in T : t <= k
  <2> HIDE DEF T
  <2> QED BY <1>1, LeastNat
<1>3. PICK m \in S : t = n - m
  OBVIOUS
<1>4. \A k \in S : k <= m
  <2> SUFFICES ASSUME NEW k \in S PROVE k <= m
    OBVIOUS
  <2>1. t <= n - k
    BY <1>2
  <2> QED BY <2>1, <1>3
<1>5. \E x \in S : \A y \in S : x >= y
  BY <1>4
<1> QED
  BY <1>5 DEF Max

-----------------------------------------------------------------------------
(* The stack of windows *)

Distinct(s) == \A i, j \in 1 .. Len(s) : s[i] = s[j] => i = j

\* To remove a window is to take it out of the list and to leave the others.
LEMMA Removed ==
  ASSUME NEW S, NEW s \in Seq(S), Distinct(s), NEW w \in ToSet(s)
  PROVE  /\ RemoveFirst(s, w) \in Seq(S)
         /\ Distinct(RemoveFirst(s, w))
         /\ ToSet(RemoveFirst(s, w)) = ToSet(s) \ {w}
<1>1. Len(s) \in Nat /\ DOMAIN s = 1 .. Len(s)
  BY LenProperties
<1>2. PICK i \in 1 .. Len(s) : w = s[i]
  BY <1>1 DEF ToSet
<1>3. \A j \in 1 .. Len(s) : (s[j] = w) <=> j = i
  BY <1>2 DEF Distinct
<1>4. {j \in 1 .. Len(s) : s[j] = w} = {i}
  BY <1>3
<1>5. SelectInSeq(s, LAMBDA v : v = w) = i
  BY <1>4, <1>1 DEF SelectInSeq, Min
<1>6. RemoveFirst(s, w) = RemoveAt(s, i)
  <2>1. \E j \in 1 .. Len(s) : s[j] = w
    BY <1>2
  <2> QED BY <1>5, <2>1 DEF RemoveFirst
<1> DEFINE t == RemoveAt(s, i)
           n == Len(s)
<1>7. /\ t \in Seq(S) /\ Len(t) = n - 1 /\ DOMAIN t = 1 .. (n - 1)
      /\ \A j \in 1 .. (n - 1) : t[j] = IF j < i THEN s[j] ELSE s[j + 1]
  <2>1. /\ SubSeq(s, 1, i - 1) \in Seq(S) /\ Len(SubSeq(s, 1, i - 1)) = i - 1
        /\ \A j \in 1 .. (i - 1) : SubSeq(s, 1, i - 1)[j] = s[j]
    BY <1>1
  <2>2. /\ SubSeq(s, i + 1, n) \in Seq(S) /\ Len(SubSeq(s, i + 1, n)) = n - i
        /\ \A j \in 1 .. (n - i) : SubSeq(s, i + 1, n)[j] = s[j + i]
    <3>1. i + 1 \in 1 .. (n + 1) /\ n \in ((i + 1) - 1) .. n
      BY <1>1
    <3>2. /\ SubSeq(s, i + 1, n) \in Seq(S)
          /\ Len(SubSeq(s, i + 1, n)) = n - (i + 1) + 1
          /\ \A j \in 1 .. (n - (i + 1) + 1) : SubSeq(s, i + 1, n)[j] = s[(i + 1) + j - 1]
      BY <3>1, SubSeqProperties
    <3> HIDE DEF n
    <3>3. n \in Nat
      BY <1>1 DEF n
    <3>4. n - (i + 1) + 1 = n - i
      BY <3>3
    <3>5. ASSUME NEW j \in 1 .. (n - i)
          PROVE  SubSeq(s, i + 1, n)[j] = s[j + i]
      <4>1. SubSeq(s, i + 1, n)[j] = s[(i + 1) + j - 1]
        BY <3>2, <3>4
      <4>2. (i + 1) + j - 1 = j + i
        BY <3>3
      <4> QED BY <4>1, <4>2
    <3> QED BY <3>2, <3>4, <3>5
  <2>3. t = SubSeq(s, 1, i - 1) \o SubSeq(s, i + 1, n)
    BY DEF RemoveAt
  <2> DEFINE a == SubSeq(s, 1, i - 1)
             b == SubSeq(s, i + 1, n)
  <2> HIDE DEF a, b, t, n
  <2>4. t = a \o b /\ a \in Seq(S) /\ b \in Seq(S) /\ Len(a) = i - 1 /\ Len(b) = n - i
    BY <2>1, <2>2, <2>3 DEF a, b
  <2>5. n \in Nat /\ i \in 1 .. n
    BY <1>1 DEF n
  <2>6. t \in Seq(S) /\ Len(t) = n - 1
    <3>1. a \o b \in Seq(S) /\ Len(a \o b) = Len(a) + Len(b)
      BY <2>4, ConcatProperties
    <3>2. (i - 1) + (n - i) = n - 1
      BY <2>5
    <3> QED BY <2>4, <3>1, <3>2
  <2>7. DOMAIN t = 1 .. (n - 1)
    BY <2>6, LenProperties
  <2>8. ASSUME NEW j \in 1 .. (n - 1)
        PROVE  t[j] = IF j < i THEN s[j] ELSE s[j + 1]
    <3>1. CASE j < i
      <4>1. j \in 1 .. (i - 1)
        BY <2>5, <3>1
      <4>2. t[j] = a[j]
        BY <2>4, <2>5, <4>1
      <4>3. a[j] = s[j]
        BY <2>1, <4>1 DEF a
      <4> QED BY <3>1, <4>2, <4>3
    <3>2. CASE ~ (j < i)
      <4>1. j - (i - 1) \in 1 .. (n - i) /\ (j - (i - 1)) + i = j + 1
        BY <2>5, <3>2
      <4>2. t[j] = b[j - (i - 1)]
        BY <2>4, <2>5, <3>2
      <4>3. b[j - (i - 1)] = s[(j - (i - 1)) + i]
        BY <2>2, <4>1 DEF b
      <4> QED BY <3>2, <4>1, <4>2, <4>3
    <3> QED BY <3>1, <3>2
  <2> QED BY <2>6, <2>7, <2>8
<1> HIDE DEF t, n
<1>8. n \in Nat /\ i \in 1 .. n
  BY <1>1 DEF n
<1>9. Distinct(t)
  <2> SUFFICES ASSUME NEW a \in 1 .. (n - 1), NEW b \in 1 .. (n - 1), t[a] = t[b]
               PROVE  a = b
    BY <1>7 DEF Distinct
  <2>1. \A j, k \in 1 .. n : s[j] = s[k] => j = k
    BY DEF Distinct, n
  <2> DEFINE at(j) == IF j < i THEN j ELSE j + 1
  <2>2. \A j \in 1 .. (n - 1) : at(j) \in 1 .. n
    BY <1>8
  <2>3. t[a] = s[at(a)] /\ t[b] = s[at(b)]
    BY <1>7
  <2>4. at(a) = at(b)
    <3> HIDE DEF at
    <3> QED BY <2>1, <2>2, <2>3
  <2> QED BY <1>8, <2>4
<1>10. ToSet(t) = ToSet(s) \ {w}
  <2>1. \A j \in 1 .. (n - 1) : t[j] \in {s[k] : k \in 1 .. n} /\ t[j] # w
    BY <1>3, <1>7, <1>8 DEF n
  <2>2. \A k \in 1 .. n : s[k] # w => \E j \in 1 .. (n - 1) : t[j] = s[k]
    <3> SUFFICES ASSUME NEW k \in 1 .. n, s[k] # w
                 PROVE  \E j \in 1 .. (n - 1) : t[j] = s[k]
      OBVIOUS
    <3>1. k # i
      BY <1>2
    <3>2. CASE k < i
      <4>1. k \in 1 .. (n - 1) /\ t[k] = s[k]
        BY <1>7, <1>8, <3>2
      <4> QED BY <4>1
    <3>3. CASE k > i
      <4>1. k - 1 \in 1 .. (n - 1) /\ ~ (k - 1 < i) /\ k - 1 + 1 = k
        BY <1>8, <3>3
      <4>2. t[k - 1] = s[k]
        BY <1>7, <4>1
      <4> QED BY <4>1, <4>2
    <3> QED BY <1>8, <3>1, <3>2, <3>3
  <2>3. ToSet(t) = {t[j] : j \in 1 .. (n - 1)} /\ ToSet(s) = {s[j] : j \in 1 .. n}
    BY <1>1, <1>7 DEF ToSet, n
  <2> QED BY <2>1, <2>2, <2>3
<1> QED
  BY <1>6, <1>7, <1>9, <1>10 DEF t

\* A new head of the list.
LEMMA Pushed ==
  ASSUME NEW S, NEW s \in Seq(S), Distinct(s), NEW w \in S, w \notin ToSet(s)
  PROVE  /\ <<w>> \o s \in Seq(S)
         /\ Distinct(<<w>> \o s)
         /\ ToSet(<<w>> \o s) = ToSet(s) \cup {w}
         /\ Len(<<w>> \o s) = Len(s) + 1
         /\ (<<w>> \o s)[1] = w
<1> DEFINE t == <<w>> \o s
           n == Len(s)
<1>1. n \in Nat /\ DOMAIN s = 1 .. n
  BY LenProperties
<1>2. /\ t \in Seq(S) /\ Len(t) = n + 1 /\ DOMAIN t = 1 .. (n + 1)
      /\ t[1] = w
      /\ \A j \in 2 .. (n + 1) : t[j] = s[j - 1]
  BY <1>1
<1>3. ToSet(s) = {s[j] : j \in 1 .. n} /\ ToSet(t) = {t[j] : j \in 1 .. (n + 1)}
  BY <1>1, <1>2 DEF ToSet
<1>4. \A j, k \in 1 .. n : s[j] = s[k] => j = k
  BY DEF Distinct
<1> HIDE DEF t, n
<1>5. Distinct(t)
  <2> SUFFICES ASSUME NEW a \in 1 .. (n + 1), NEW b \in 1 .. (n + 1), t[a] = t[b]
               PROVE  a = b
    BY <1>2 DEF Distinct
  <2>1. \A j \in 2 .. (n + 1) : t[j] # w
    <3> SUFFICES ASSUME NEW j \in 2 .. (n + 1) PROVE t[j] # w
      OBVIOUS
    <3>1. j - 1 \in 1 .. n
      BY <1>1
    <3> QED BY <1>2, <1>3, <3>1
  <2>2. CASE a = 1 \/ b = 1
    BY <1>1, <1>2, <2>1, <2>2
  <2>3. CASE a # 1 /\ b # 1
    <3>1. a - 1 \in 1 .. n /\ b - 1 \in 1 .. n /\ a \in 2 .. (n + 1) /\ b \in 2 .. (n + 1)
      BY <1>1, <2>3
    <3>2. a - 1 = b - 1
      BY <1>2, <1>4, <3>1
    <3> QED BY <3>1, <3>2
  <2> QED BY <2>2, <2>3
<1>6. ToSet(t) = ToSet(s) \cup {w}
  <2>1. \A j \in 1 .. (n + 1) : t[j] = w \/ t[j] \in {s[k] : k \in 1 .. n}
    <3> SUFFICES ASSUME NEW j \in 1 .. (n + 1), j # 1
                 PROVE  t[j] \in {s[k] : k \in 1 .. n}
      BY <1>2
    <3>1. j - 1 \in 1 .. n /\ j \in 2 .. (n + 1)
      BY <1>1
    <3> QED BY <1>2, <3>1
  <2>2. \A k \in 1 .. n : k + 1 \in 2 .. (n + 1) /\ t[k + 1] = s[k]
    <3> SUFFICES ASSUME NEW k \in 1 .. n PROVE k + 1 \in 2 .. (n + 1) /\ t[k + 1] = s[k]
      OBVIOUS
    <3>1. k + 1 \in 2 .. (n + 1) /\ (k + 1) - 1 = k
      BY <1>1
    <3> QED BY <1>2, <3>1
  <2>3. 1 \in 1 .. (n + 1) /\ (2 .. (n + 1)) \subseteq 1 .. (n + 1)
    BY <1>1
  <2> QED BY <1>2, <1>3, <2>1, <2>2, <2>3
<1> QED
  BY <1>2, <1>5, <1>6 DEF t, n

-----------------------------------------------------------------------------
(* The invariant *)

\* A rectangle that a window may have: it has room for the frame, and no sum of
\* its coordinates and extents leaves the unsigned numbers, nor does a negative
\* coordinate, taken for unsigned, come to lie on the screen.
Sound(r) ==
  /\ r \in Rectangle
  /\ Width - U32 <= r.x /\ r.x + r.w < U32 /\ r.w < U32
  /\ Height - U32 <= r.y /\ r.y + r.h < U32 /\ r.h < U32
  /\ r.w >= Close.inset /\ r.w >= 2 * WINDOW_BORDER
  /\ r.h >= TITLE_BAR_H + WINDOW_BORDER

\* No window is in the list twice, and those in the list are those there are.
Listed ==
  /\ list \in Seq(Nat \ {0})
  /\ Distinct(list)
  /\ DOMAIN rect = ToSet(list)
  /\ \A w \in ToSet(list) : Sound(rect[w])

\* The windows that kernel_main has created so far.
Created == ~booted => DOMAIN rect = 1 .. Len(list) /\ Len(list) <= Len(Windows) /\ ~dragging

\* The window with the focus is the head of the list, and no other one that is
\* in the list has its field `focused` set.
Focus ==
  /\ focused = None \/ (list # <<>> /\ focused = list[1])
  /\ \A w \in flag \cap ToSet(list) : w = focused

\* The pointer keeps its offset from the corner of the window it drags.
Holds(w, r) ==
  /\ w \in ToSet(list)
  /\ drag \in [dx : Int, dy : Int]
  /\ 0 <= drag.dx /\ drag.dx < r[w].w
  /\ 0 <= drag.dy /\ drag.dy < r[w].h

Drag ==
  /\ ~dragging => drag_win = None
  /\ dragging => Holds(drag_win, rect) /\ PointIn(cursor, rect[drag_win])

\* What wm_redraw paints of a list of windows.
Areas(l, r, f) ==
  <<[at |-> [x |-> 0, y |-> 0, w |-> Width, h |-> Height], color |-> <<None, "desktop">>]>>
    \o Frames(l, r, f)
    \o <<[at |-> Taskbar, color |-> <<None, "taskbar">>]>>

\* Once the main loop runs, what is painted is what there is.
Painted == booted => painted = Areas(list, rect, flag)

TypeOK ==
  /\ dragging \in BOOLEAN /\ booted \in BOOLEAN
  /\ cursor \in Pointer
  /\ mode \in Modes

Inv == TypeOK /\ Listed /\ Created /\ Focus /\ Drag /\ Painted

-----------------------------------------------------------------------------
(* The steps preserve it *)

LEMMA InitInv == Init => Inv
<1> SUFFICES ASSUME Init PROVE Inv
  OBVIOUS
<1> USE DEF Init
<1>1. TypeOK
  <2>1. Width \div 2 \in 0 .. (Width - 1) /\ Height \div 2 \in 0 .. (Height - 1)
    BY WmAssumption
  <2> QED BY <2>1 DEF TypeOK, Pointer
<1>2. Len(list) = 0 /\ ToSet(list) = {} /\ DOMAIN rect = {}
  BY DEF ToSet
<1>3. Listed
  BY <1>2 DEF Listed, Distinct
<1>4. Created
  <2>1. Len(Windows) \in Nat
    BY WmAssumption, LenProperties
  <2>2. 1 .. 0 = {}
    OBVIOUS
  <2> QED BY <1>2, <2>1, <2>2 DEF Created
<1>5. Focus /\ Drag /\ Painted
  BY <1>2 DEF Focus, Drag, Painted
<1> QED
  BY <1>1, <1>3, <1>4, <1>5 DEF Inv

\* kernel_main asks for sound rectangles.
LEMMA WindowsSound ==
  ASSUME NEW n \in 1 .. Len(Windows)
  PROVE  Sound(Windows[n])
<1>1. n \in DOMAIN Windows /\ Windows[n] \in Rectangle
  BY WmAssumption, LenProperties
<1> DEFINE r == Windows[n]
<1>2. /\ r.x >= 0 /\ r.x + r.w < U32
      /\ r.y >= 0 /\ r.y + r.h < U32
      /\ r.w >= Close.inset /\ r.w >= 2 * WINDOW_BORDER
      /\ r.h >= TITLE_BAR_H + WINDOW_BORDER
  BY <1>1, WmAssumption
<1> HIDE DEF r
<1>3. r \in Rectangle
  BY <1>1 DEF r
<1>4. r.x \in Int /\ r.y \in Int /\ r.w \in Nat /\ r.h \in Nat
  BY <1>3 DEF Rectangle
<1>5. Width \in Nat /\ Height \in Nat /\ U32 \in Nat /\ Width < U32 /\ Height < U32
  BY WmAssumption
<1>6. Width - U32 <= r.x /\ r.w < U32 /\ Height - U32 <= r.y /\ r.h < U32
  BY <1>2, <1>4, <1>5, SMTT(60)
<1>7. Sound(r)
  BY <1>2, <1>3, <1>6 DEF Sound
<1> QED
  BY <1>7 DEF r

LEMMA CreateInv == Inv /\ wm_create_window => Inv'
<1> SUFFICES ASSUME Inv, wm_create_window PROVE Inv'
  OBVIOUS
<1> DEFINE n == Len(list)
           w == n + 1
<1>1. n \in Nat /\ DOMAIN rect = 1 .. n /\ ~dragging /\ ~booted
  BY LenProperties DEF Inv, Listed, Created, wm_create_window
<1>2. Cardinality(DOMAIN rect) = n
  <2> HIDE DEF n
  <2>1. Cardinality(1 .. n) = n
    BY <1>1, FS_Interval
  <2> QED BY <1>1, <2>1
<1>3. /\ n < Len(Windows)
      /\ rect' = [v \in DOMAIN rect \cup {w} |-> IF v = w THEN Windows[w] ELSE rect[v]]
      /\ list' = <<w>> \o list
      /\ flag' = {w}
      /\ focused' = w
      /\ UNCHANGED <<dragVars, cursor, mode, painted, booted>>
  BY <1>2 DEF wm_create_window
<1>4. list \in Seq(Nat \ {0}) /\ Distinct(list) /\ ToSet(list) = 1 .. n
  BY <1>1 DEF Inv, Listed
<1> HIDE DEF n
<1>5. w \in Nat \ {0} /\ w \notin ToSet(list)
  BY <1>1, <1>4
<1>6. /\ list' \in Seq(Nat \ {0}) /\ Distinct(list') /\ ToSet(list') = ToSet(list) \cup {w}
      /\ Len(list') = n + 1 /\ list'[1] = w
  BY <1>3, <1>4, <1>5, Pushed DEF n
<1>7. ToSet(list') = 1 .. w
  BY <1>1, <1>4, <1>6
<1>8. Listed'
  <2>1. DOMAIN rect' = ToSet(list')
    BY <1>1, <1>3, <1>4, <1>6
  <2>2. ASSUME NEW v \in ToSet(list') PROVE Sound(rect'[v])
    <3>1. CASE v = w
      <4>1. Len(Windows) \in Nat
        BY WmAssumption, LenProperties
      <4>2. w \in 1 .. Len(Windows)
        BY <1>1, <1>3, <4>1
      <4> QED BY <1>3, <3>1, <4>2, WindowsSound
    <3>2. CASE v # w
      <4>1. v \in ToSet(list) /\ rect'[v] = rect[v]
        BY <1>1, <1>3, <1>4, <1>6, <3>2
      <4> QED BY <4>1 DEF Inv, Listed
    <3> QED BY <3>1, <3>2
  <2>3. (\A v \in ToSet(list) : Sound(rect[v]))'
    BY <2>2
  <2> QED BY <1>6, <2>1, <2>3 DEF Listed
<1>9. Created'
  <2>1. DOMAIN rect' = 1 .. Len(list')
    BY <1>6, <1>7, <1>8 DEF Listed
  <2>2. Len(list') <= Len(Windows)
    <3>1. Len(Windows) \in Nat
      BY WmAssumption, LenProperties
    <3> QED BY <1>1, <1>3, <1>6, <3>1
  <2>3. ~dragging'
    BY <1>1, <1>3 DEF dragVars
  <2> QED BY <2>1, <2>2, <2>3 DEF Created
<1>10. Focus'
  <2>1. list' # <<>>
    BY <1>1, <1>6
  <2> QED BY <1>3, <1>6, <2>1 DEF Focus
<1>11. Drag' /\ Painted' /\ TypeOK'
  BY <1>1, <1>3 DEF Inv, Drag, Painted, TypeOK, dragVars
<1> QED
  BY <1>8, <1>9, <1>10, <1>11 DEF Inv

LEMMA MainLoopInv == Inv /\ main_loop => Inv'
<1> SUFFICES ASSUME Inv, main_loop PROVE Inv'
  OBVIOUS
<1>1. UNCHANGED <<list, rect, flag, focused, dragVars, cursor, mode>> /\ booted' = TRUE
  BY DEF main_loop
<1>2. Listed' /\ Focus' /\ TypeOK'
  BY <1>1 DEF Inv, Listed, Focus, TypeOK, dragVars
<1>3. Drag'
  BY <1>1 DEF Inv, Drag, Holds, dragVars
<1>4. Created'
  BY <1>1 DEF Created
<1>5. Painted'
  BY DEF main_loop, wm_redraw, Painted, Areas
<1> QED
  BY <1>2, <1>3, <1>4, <1>5 DEF Inv

\* The stack after a step, and the focus.
Ordered ==
  /\ list' \in Seq(Nat \ {0})
  /\ Distinct(list)'
  /\ Focus'

LEMMA FocusKeeps ==
  ASSUME Inv, NEW w \in ToSet(list), wm_focus(w)
  PROVE  Ordered /\ ToSet(list') = ToSet(list)
<1>1. list \in Seq(Nat \ {0}) /\ Distinct(list)
  BY DEF Inv, Listed
<1> DEFINE rest == RemoveFirst(list, w)
<1>2. rest \in Seq(Nat \ {0}) /\ Distinct(rest) /\ ToSet(rest) = ToSet(list) \ {w}
  BY <1>1, Removed
<1>3. w \in Nat \ {0}
  <2>1. DOMAIN list = 1 .. Len(list)
    BY <1>1, LenProperties
  <2>2. PICK i \in DOMAIN list : w = list[i]
    BY DEF ToSet
  <2> QED BY <1>1, <2>2
<1>4. list' = <<w>> \o rest /\ focused' = w /\ flag' = (flag \ ToSet(list)) \cup {w}
  BY DEF wm_focus, Raised
<1> HIDE DEF rest
<1>5. /\ list' \in Seq(Nat \ {0}) /\ Distinct(list') /\ ToSet(list') = ToSet(rest) \cup {w}
      /\ Len(list') = Len(rest) + 1 /\ list'[1] = w
  BY <1>2, <1>3, <1>4, Pushed
<1>6. list' # <<>>
  <2>1. Len(rest) \in Nat
    BY <1>2, LenProperties
  <2> QED BY <1>5, <2>1
<1>7. Focus'
  BY <1>2, <1>4, <1>5, <1>6 DEF Focus
<1> QED
  BY <1>2, <1>5, <1>7 DEF Ordered

\* What a packet does to the stack and to the drag.
LEMMA ButtonsKeep ==
  ASSUME Inv, NEW ms \in Packet, Buttons(ms)
  PROVE  /\ Ordered
         /\ ToSet(list') \subseteq ToSet(list)
         /\ dragging' \in BOOLEAN
         /\ ~dragging' => drag_win' = None
         /\ dragging' => /\ drag_win' \in ToSet(list')
                         /\ drag' \in [dx : Int, dy : Int]
                         /\ 0 <= drag'.dx /\ drag'.dx < rect[drag_win'].w
                         /\ 0 <= drag'.dy /\ drag'.dy < rect[drag_win'].h
<1> DEFINE G == /\ Ordered
                /\ ToSet(list') \subseteq ToSet(list)
                /\ dragging' \in BOOLEAN
                /\ ~dragging' => drag_win' = None
                /\ dragging' => /\ drag_win' \in ToSet(list')
                                /\ drag' \in [dx : Int, dy : Int]
                                /\ 0 <= drag'.dx /\ drag'.dx < rect[drag_win'].w
                                /\ 0 <= drag'.dy /\ drag'.dy < rect[drag_win'].h
<1> SUFFICES G
  OBVIOUS
<1>0. /\ list \in Seq(Nat \ {0}) /\ Distinct(list) /\ Focus
      /\ \A v \in ToSet(list) : Sound(rect[v])
      /\ dragging \in BOOLEAN /\ (~dragging => drag_win = None)
      /\ (dragging => Holds(drag_win, rect))
  BY DEF Inv, Listed, TypeOK, Drag
<1>1. ASSUME ~dragging, NEW w \in ToSet(list), Under(ms, w), Click(w, ms) PROVE G
  <2>1. CASE wm_destroy_window(w) /\ UNCHANGED dragVars
    <3>1. /\ list' = RemoveFirst(list, w) /\ flag' = flag \ ToSet(list) /\ focused' = None
          /\ dragging' = dragging /\ drag_win' = drag_win
      BY <2>1 DEF wm_destroy_window, dragVars
    <3>2. list' \in Seq(Nat \ {0}) /\ Distinct(list') /\ ToSet(list') = ToSet(list) \ {w}
      BY <1>0, <3>1, Removed
    <3>3. Focus'
      BY <3>1, <3>2 DEF Focus
    <3> QED BY <1>0, <1>1, <3>1, <3>2, <3>3 DEF Ordered
  <2>2. CASE wm_focus(w) /\ StartDrag(w, ms)
    <3>1. Ordered /\ ToSet(list') = ToSet(list)
      BY <2>2, FocusKeeps
    <3>2. /\ dragging' = TRUE /\ drag_win' = w
          /\ drag' = [dx |-> ms.x - rect[w].x, dy |-> ms.y - rect[w].y]
      BY <2>2 DEF StartDrag
    <3>3. PointIn(ms, rect[w])
      BY <1>1 DEF Under
    <3>4. rect[w] \in Rectangle
      BY <1>0 DEF Sound
    <3> DEFINE r == rect[w]
    <3>5. r.x \in Int /\ r.y \in Int /\ r.w \in Nat /\ r.h \in Nat /\ ms.x \in Int /\ ms.y \in Int
      BY <3>4 DEF Rectangle, Packet
    <3>6. r.x <= ms.x /\ ms.x < r.x + r.w /\ r.y <= ms.y /\ ms.y < r.y + r.h
      BY <3>3 DEF PointIn
    <3> HIDE DEF r
    <3>7. drag' = [dx |-> ms.x - r.x, dy |-> ms.y - r.y]
      BY <3>2 DEF r
    <3>8. drag'.dx = ms.x - r.x /\ drag'.dy = ms.y - r.y
      BY <3>7
    <3>9. drag' \in [dx : Int, dy : Int]
      BY <3>5, <3>7
    <3>10. 0 <= drag'.dx /\ drag'.dx < r.w /\ 0 <= drag'.dy /\ drag'.dy < r.h
      BY <3>5, <3>6, <3>8
    <3>11. rect[drag_win'] = r
      BY <3>2 DEF r
    <3> QED BY <3>1, <3>2, <3>9, <3>10, <3>11
  <2>3. CASE wm_focus(w) /\ UNCHANGED dragVars
    <3>1. Ordered /\ ToSet(list') = ToSet(list)
      BY <2>3, FocusKeeps
    <3>2. dragging' = dragging /\ drag_win' = drag_win
      BY <2>3 DEF dragVars
    <3> QED BY <1>0, <1>1, <3>1, <3>2
  <2> QED BY <1>1, <2>1, <2>2, <2>3 DEF Click
<1>2. CASE ~dragging /\ ClickDesktop
  <2>1. /\ flag' = flag \ {focused} /\ focused' = None /\ list' = list
        /\ dragging' = dragging /\ drag_win' = drag_win
    BY <1>2 DEF ClickDesktop, dragVars
  <2>2. Focus'
    BY <1>0, <2>1 DEF Focus
  <2> QED BY <1>0, <1>2, <2>1, <2>2 DEF Ordered
<1>3. CASE dragging /\ UNCHANGED <<list, flag, focused, dragVars>>
  <2>1. /\ flag' = flag /\ focused' = focused /\ list' = list
        /\ dragging' = dragging /\ drag_win' = drag_win /\ drag' = drag
    BY <1>3 DEF dragVars
  <2>2. Focus'
    BY <1>0, <2>1 DEF Focus
  <2> QED BY <1>0, <1>3, <2>1, <2>2 DEF Ordered, Holds
<1>4. CASE Release
  <2>1. /\ flag' = flag /\ focused' = focused /\ list' = list
        /\ dragging' = FALSE /\ drag_win' = None
    BY <1>4 DEF Release
  <2>2. Focus'
    BY <1>0, <2>1 DEF Focus
  <2> QED BY <1>0, <2>1, <2>2 DEF Ordered
<1> QED
  <2> HIDE DEF G
  <2>1. \/ ~dragging /\ \E w \in ToSet(list) : Under(ms, w) /\ Click(w, ms)
        \/ ~dragging /\ ClickDesktop
        \/ dragging /\ UNCHANGED <<list, flag, focused, dragVars>>
        \/ Release
    BY Zenon DEF Buttons
  <2>2. CASE ~dragging /\ \E w \in ToSet(list) : Under(ms, w) /\ Click(w, ms)
    <3>1. PICK w \in ToSet(list) : Under(ms, w) /\ Click(w, ms)
      BY <2>2
    <3> QED BY <1>1, <2>2, <3>1
  <2> QED BY <2>1, <2>2, <1>2, <1>3, <1>4

\* Where a dragged window comes to lie in one direction: it is sound there, and
\* the pointer, d from its corner, is on it.
LEMMA ClampedHolds ==
  ASSUME NEW c \in Int, NEW d \in Int, NEW extent \in Nat, NEW bound \in Nat, NEW limit \in Nat,
         0 <= c, c < bound, 0 <= d, d < extent, extent < limit, bound < limit
  PROVE  LET x == Clamped(c - d, extent, bound)
         IN  /\ x \in Int
             /\ bound - limit <= x /\ x + extent < limit
             /\ x <= c /\ c < x + extent
  BY DEF Clamped

LEMMA DraggedHolds ==
  ASSUME NEW r, Sound(r), NEW ms \in Packet,
         drag' \in [dx : Int, dy : Int],
         0 <= drag'.dx, drag'.dx < r.w, 0 <= drag'.dy, drag'.dy < r.h
  PROVE  /\ Sound(Dragged(r, ms))
         /\ PointIn(ms, Dragged(r, ms))
         /\ Dragged(r, ms).w = r.w /\ Dragged(r, ms).h = r.h
<1> DEFINE x == Clamped(ms.x - drag'.dx, r.w, Width)
           y == Clamped(ms.y - drag'.dy, r.h, Height)
           d == Dragged(r, ms)
<1>1. r.x \in Int /\ r.y \in Int /\ r.w \in Nat /\ r.h \in Nat
  BY DEF Sound, Rectangle
<1>2. /\ ms.x \in Int /\ ms.y \in Int /\ 0 <= ms.x /\ ms.x < Width /\ 0 <= ms.y /\ ms.y < Height
      /\ Width \in Nat /\ Height \in Nat /\ U32 \in Nat /\ Width < U32 /\ Height < U32
  BY WmAssumption DEF Packet
<1>3. drag'.dx \in Int /\ drag'.dy \in Int /\ r.w < U32 /\ r.h < U32
  BY DEF Sound
<1>4. x \in Int /\ Width - U32 <= x /\ x + r.w < U32 /\ x <= ms.x /\ ms.x < x + r.w
  BY <1>1, <1>2, <1>3, ClampedHolds
<1>5. y \in Int /\ Height - U32 <= y /\ y + r.h < U32 /\ y <= ms.y /\ ms.y < y + r.h
  BY <1>1, <1>2, <1>3, ClampedHolds
<1>6. d = [x |-> x, y |-> y, w |-> r.w, h |-> r.h]
  BY DEF Dragged
<1> HIDE DEF x, y, d
<1>7. d.x = x /\ d.y = y /\ d.w = r.w /\ d.h = r.h /\ d \in Rectangle
  BY <1>1, <1>4, <1>5, <1>6 DEF Rectangle
<1>8. Sound(d)
  BY <1>3, <1>4, <1>5, <1>7 DEF Sound
<1>9. PointIn(ms, d)
  BY <1>4, <1>5, <1>7 DEF PointIn
<1> QED
  BY <1>7, <1>8, <1>9 DEF d

LEMMA MouseInv ==
  ASSUME Inv, NEW ms \in Packet, wm_handle_mouse(ms)
  PROVE  Inv'
<1>1. /\ booted /\ Buttons(ms)
      /\ rect' = [w \in ToSet(list') |->
                    IF dragging' /\ w = drag_win' THEN Dragged(rect[w], ms) ELSE rect[w]]
      /\ cursor' = [x |-> ms.x, y |-> ms.y]
      /\ wm_redraw
      /\ mode' = mode /\ booted' = booted
  BY DEF wm_handle_mouse
<1>2. /\ Ordered
      /\ ToSet(list') \subseteq ToSet(list)
      /\ dragging' \in BOOLEAN
      /\ ~dragging' => drag_win' = None
      /\ dragging' => /\ drag_win' \in ToSet(list')
                      /\ drag' \in [dx : Int, dy : Int]
                      /\ 0 <= drag'.dx /\ drag'.dx < rect[drag_win'].w
                      /\ 0 <= drag'.dy /\ drag'.dy < rect[drag_win'].h
  BY <1>1, ButtonsKeep
<1>3. \A w \in ToSet(list') : Sound(rect[w])
  BY <1>2 DEF Inv, Listed
<1>4. ASSUME dragging'
      PROVE  /\ rect'[drag_win'] = Dragged(rect[drag_win'], ms)
             /\ Sound(rect'[drag_win']) /\ PointIn(ms, rect'[drag_win'])
             /\ rect'[drag_win'].w = rect[drag_win'].w /\ rect'[drag_win'].h = rect[drag_win'].h
  <2>1. rect'[drag_win'] = Dragged(rect[drag_win'], ms)
    BY <1>1, <1>2, <1>4
  <2>2. Sound(rect[drag_win'])
    BY <1>2, <1>3, <1>4
  <2>3. /\ Sound(Dragged(rect[drag_win'], ms)) /\ PointIn(ms, Dragged(rect[drag_win'], ms))
        /\ Dragged(rect[drag_win'], ms).w = rect[drag_win'].w
        /\ Dragged(rect[drag_win'], ms).h = rect[drag_win'].h
    BY <1>2, <1>4, <2>2, DraggedHolds
  <2> QED BY <2>1, <2>3
<1>5. Listed'
  <2>1. DOMAIN rect' = ToSet(list')
    BY <1>1
  <2>2. ASSUME NEW w \in ToSet(list') PROVE Sound(rect'[w])
    <3>1. CASE dragging' /\ w = drag_win'
      BY <1>4, <3>1
    <3>2. CASE ~ (dragging' /\ w = drag_win')
      <4>1. rect'[w] = rect[w]
        BY <1>1, <3>2
      <4> QED BY <1>3, <4>1
    <3> QED BY <3>1, <3>2
  <2>3. (\A w \in ToSet(list) : Sound(rect[w]))'
    BY <2>2
  <2> QED BY <1>2, <2>1, <2>3 DEF Listed, Ordered
<1>6. Drag'
  <2>1. ASSUME dragging' PROVE (Holds(drag_win, rect) /\ PointIn(cursor, rect[drag_win]))'
    <3>1. cursor'.x = ms.x /\ cursor'.y = ms.y
      BY <1>1
    <3>2. PointIn(cursor', rect'[drag_win'])
      BY <1>4, <2>1, <3>1 DEF PointIn
    <3>3. Holds(drag_win, rect)'
      BY <1>2, <1>4, <2>1 DEF Holds
    <3> QED BY <3>2, <3>3
  <2> QED BY <1>2, <2>1 DEF Drag
<1>7. TypeOK'
  <2>1. cursor' \in Pointer
    <3>1. ms.x \in 0 .. (Width - 1) /\ ms.y \in 0 .. (Height - 1)
      BY DEF Packet
    <3> QED BY <1>1, <3>1 DEF Pointer
  <2> QED BY <1>1, <1>2, <2>1 DEF Inv, TypeOK
<1>8. Painted' /\ Created'
  BY <1>1 DEF wm_redraw, Painted, Areas, Created
<1> QED
  BY <1>2, <1>5, <1>6, <1>7, <1>8 DEF Inv, Ordered

LEMMA StepInv == Inv /\ [Next]_vars => Inv'
<1> SUFFICES ASSUME Inv, [Next]_vars PROVE Inv'
  OBVIOUS
<1>1. CASE Next
  BY <1>1, CreateInv, MainLoopInv, MouseInv DEF Next
<1>2. CASE UNCHANGED vars
  <2>1. UNCHANGED <<list, rect, flag, focused, dragging, drag_win, drag, cursor, mode, painted,
                    booted>>
    BY <1>2 DEF vars, dragVars
  <2>2. Listed' /\ Created' /\ Focus' /\ TypeOK'
    BY <2>1 DEF Inv, Listed, Created, Focus, TypeOK
  <2>3. Drag' /\ Painted'
    BY <2>1 DEF Inv, Drag, Holds, Painted
  <2> QED BY <2>2, <2>3 DEF Inv
<1> QED
  BY <1>1, <1>2

THEOREM Invariant == Spec => []Inv
<1> QED
  BY InitInv, StepInv, PTL DEF Spec

\* The pointer never slips off the window it drags.
THEOREM PointerHolds == Spec => []DragKeepsPointer
<1>1. Inv => DragKeepsPointer
  BY DEF Inv, Drag, DragKeepsPointer
<1> QED
  BY Invariant, <1>1, PTL

-----------------------------------------------------------------------------
(* What is seen *)

\* An area whose numbers fb_fill_rect takes for what they are.
Fits(a) ==
  /\ a \in Rectangle
  /\ Width - U32 <= a.x /\ a.x + a.w < U32 /\ a.w < U32
  /\ Height - U32 <= a.y /\ a.y + a.h < U32 /\ a.h < U32

\* The point is painted with the area.
On(p, a) == a.x >= 0 /\ a.y >= 0 /\ PointIn(p, a)

LEMMA Unsigned ==
  ASSUME NEW m \in Nat, NEW a \in Int
  PROVE  /\ 0 <= a /\ a < m => a % m = a
         /\ 0 - m <= a /\ a < 0 => a % m = a + m
  OBVIOUS

LEMMA RowOf ==
  ASSUME NEW pitch \in Nat, NEW x \in 0 .. (pitch - 1), NEW y \in Nat
  PROVE  (y * pitch + x) % pitch = x /\ (y * pitch + x) \div pitch = y
  OBVIOUS

\* Where fb_fill_rect counts from and to, in one direction.
LEMMA CountsIn ==
  ASSUME NEW m \in Nat, NEW bound \in Nat, bound < m,
         NEW a \in Int, NEW n \in Nat, n < m, bound - m <= a, a + n < m,
         NEW k \in 0 .. (bound - 1)
  PROVE  /\ a % m <= k /\ k < ((a % m) + (n % m)) % m
           <=> a >= 0 /\ a <= k /\ k < a + n
<1>1. n % m = n
  BY Unsigned
<1>2. CASE a >= 0
  <2>1. a < m /\ a + n \in Int /\ 0 <= a + n
    BY <1>2
  <2>2. a % m = a
    BY <1>2, <2>1, Unsigned
  <2>3. (a + n) % m = a + n
    BY <2>1, Unsigned
  <2> QED BY <1>1, <1>2, <2>2, <2>3
<1>3. CASE a < 0
  <2>1. a % m = a + m
    BY <1>3, Unsigned
  <2>2. ~ (a % m <= k)
    BY <2>1
  <2> QED BY <1>3, <2>2
<1> QED
  BY <1>2, <1>3

\* fb_fill_rect paints the point of an area that does not begin left of the
\* screen or above it, and nothing of the others.
LEMMA Hit ==
  ASSUME NEW p \in Pointer, NEW a, Fits(a), NEW pitch \in Nat, pitch >= Width
  PROVE  Fb!Covers(pitch, a.x % U32, a.y % U32, a.w % U32, a.h % U32,
                   Fb!Place(pitch, p.x, p.y))
           <=> On(p, a)
<1>1. a.x \in Int /\ a.y \in Int /\ a.w \in Nat /\ a.h \in Nat
  BY DEF Fits, Rectangle
<1>2. Width \in Nat /\ Height \in Nat /\ U32 \in Nat /\ Width < U32 /\ Height < U32
  BY WmAssumption
<1>3. p.x \in 0 .. (Width - 1) /\ p.y \in 0 .. (Height - 1)
  BY DEF Pointer
<1>4. p.x \in 0 .. (pitch - 1) /\ p.y \in Nat
  BY <1>2, <1>3
<1>5. Fb!Place(pitch, p.x, p.y) % pitch = p.x /\ Fb!Place(pitch, p.x, p.y) \div pitch = p.y
  BY <1>4, RowOf DEF Fb!Place
<1>6. /\ a.x % U32 <= p.x /\ p.x < ((a.x % U32) + (a.w % U32)) % U32
        <=> a.x >= 0 /\ a.x <= p.x /\ p.x < a.x + a.w
  BY <1>1, <1>2, <1>3, CountsIn DEF Fits
<1>7. /\ a.y % U32 <= p.y /\ p.y < ((a.y % U32) + (a.h % U32)) % U32
        <=> a.y >= 0 /\ a.y <= p.y /\ p.y < a.y + a.h
  BY <1>1, <1>2, <1>3, CountsIn DEF Fits
<1>8. p.x < Width /\ p.y < Height
  BY <1>2, <1>3
<1>9. Fb!Covers(pitch, a.x % U32, a.y % U32, a.w % U32, a.h % U32, Fb!Place(pitch, p.x, p.y))
        <=> /\ a.x % U32 <= p.x /\ p.x < ((a.x % U32) + (a.w % U32)) % U32
            /\ a.y % U32 <= p.y /\ p.y < ((a.y % U32) + (a.h % U32)) % U32
  BY <1>5, <1>8 DEF Fb!Covers, Fb!Counts
<1> QED
  BY <1>6, <1>7, <1>9 DEF On, PointIn

\* The parts of a window's frame lie in the window.
LEMMA Parts ==
  ASSUME NEW w, NEW r, Sound(r), NEW active, NEW c \in 1 .. 4
  PROVE  LET a == wm_draw_window_frame(w, r, active)[c]
         IN  /\ Fits(a.at) /\ a.color[1] = w
             /\ \A p \in Pointer : PointIn(p, a.at) => PointIn(p, r)
<1> DEFINE a == wm_draw_window_frame(w, r, active)[c]
<1>1. r.x \in Int /\ r.y \in Int /\ r.w \in Nat /\ r.h \in Nat
  BY DEF Sound, Rectangle
<1>2. /\ Close.inset \in Nat /\ Close.top \in Nat /\ Close.w \in Nat /\ Close.h \in Nat
      /\ Close.w <= Close.inset /\ Close.top + Close.h <= TITLE_BAR_H
      /\ TITLE_BAR_H \in Nat /\ WINDOW_BORDER \in Nat
      /\ Width \in Nat /\ Height \in Nat /\ U32 \in Nat
  BY WmAssumption
<1>3. /\ Width - U32 <= r.x /\ r.x + r.w < U32 /\ r.w < U32
      /\ Height - U32 <= r.y /\ r.y + r.h < U32 /\ r.h < U32
      /\ r.w >= Close.inset /\ r.w >= 2 * WINDOW_BORDER
      /\ r.h >= TITLE_BAR_H + WINDOW_BORDER
  BY DEF Sound
<1>4. ASSUME NEW b \in Rectangle,
             r.x <= b.x, b.x + b.w <= r.x + r.w, r.y <= b.y, b.y + b.h <= r.y + r.h
      PROVE  Fits(b) /\ \A p \in Pointer : PointIn(p, b) => PointIn(p, r)
  <2>1. b.x \in Int /\ b.y \in Int /\ b.w \in Nat /\ b.h \in Nat
    BY DEF Rectangle
  <2>2. /\ Width - U32 <= b.x /\ b.x + b.w < U32 /\ b.w < U32
        /\ Height - U32 <= b.y /\ b.y + b.h < U32 /\ b.h < U32
    BY <1>1, <1>2, <1>3, <1>4, <2>1
  <2>3. ASSUME NEW p \in Pointer, PointIn(p, b) PROVE PointIn(p, r)
    <3>1. p.x \in Int /\ p.y \in Int
      BY DEF Pointer
    <3>2. b.x <= p.x /\ p.x < b.x + b.w /\ b.y <= p.y /\ p.y < b.y + b.h
      BY <2>3 DEF PointIn
    <3>3. r.x <= p.x /\ p.x < r.x + r.w /\ r.y <= p.y /\ p.y < r.y + r.h
      BY <1>1, <1>4, <2>1, <3>1, <3>2
    <3> QED BY <3>3 DEF PointIn
  <2> QED BY <2>2, <2>3 DEF Fits
<1>5. CASE c = 1
  <2>1. a.at = r /\ a.color[1] = w
    BY <1>5 DEF wm_draw_window_frame
  <2> QED BY <1>3, <2>1 DEF Sound, Fits
<1>6. CASE c = 2
  <2>1. a.at = TitleBar(r) /\ a.color[1] = w
    BY <1>6 DEF wm_draw_window_frame
  <2> DEFINE b == TitleBar(r)
  <2>2. b.x = r.x /\ b.y = r.y /\ b.w = r.w /\ b.h = TITLE_BAR_H /\ b \in Rectangle
    BY <1>1, <1>2 DEF TitleBar, Rectangle
  <2> HIDE DEF b
  <2>3. r.x <= b.x /\ b.x + b.w <= r.x + r.w /\ r.y <= b.y /\ b.y + b.h <= r.y + r.h
    BY <1>1, <1>2, <1>3, <2>2
  <2>4. Fits(b) /\ \A p \in Pointer : PointIn(p, b) => PointIn(p, r)
    BY <1>4, <2>2, <2>3
  <2> QED BY <2>1, <2>4 DEF b
<1>7. CASE c = 3
  <2>1. a.at = CloseButton(r) /\ a.color[1] = w
    BY <1>7 DEF wm_draw_window_frame
  <2> DEFINE b == CloseButton(r)
  <2>2. /\ b.x = r.x + r.w - Close.inset /\ b.y = r.y + Close.top
        /\ b.w = Close.w /\ b.h = Close.h /\ b \in Rectangle
    BY <1>1, <1>2 DEF CloseButton, Rectangle
  <2> HIDE DEF b
  <2>3. r.x <= b.x /\ b.x + b.w <= r.x + r.w /\ r.y <= b.y /\ b.y + b.h <= r.y + r.h
    BY <1>1, <1>2, <1>3, <2>2
  <2>4. Fits(b) /\ \A p \in Pointer : PointIn(p, b) => PointIn(p, r)
    BY <1>4, <2>2, <2>3
  <2> QED BY <2>1, <2>4 DEF b
<1>8. CASE c = 4
  <2>1. a.at = Client(r) /\ a.color[1] = w
    BY <1>8 DEF wm_draw_window_frame
  <2> DEFINE b == Client(r)
  <2>2. /\ b.x = r.x + WINDOW_BORDER /\ b.y = r.y + TITLE_BAR_H
        /\ b.w = r.w - 2 * WINDOW_BORDER /\ b.h = r.h - TITLE_BAR_H - WINDOW_BORDER
    BY DEF Client
  <2>3. b.w \in Nat /\ b.h \in Nat /\ b.x \in Int /\ b.y \in Int
    BY <1>1, <1>2, <1>3, <2>2
  <2>4. b \in Rectangle
    BY <2>3 DEF Client, Rectangle
  <2> HIDE DEF b
  <2>5. r.x <= b.x /\ b.x + b.w <= r.x + r.w /\ r.y <= b.y /\ b.y + b.h <= r.y + r.h
    BY <1>1, <1>2, <1>3, <2>2
  <2>6. Fits(b) /\ \A p \in Pointer : PointIn(p, b) => PointIn(p, r)
    BY <1>4, <2>4, <2>5
  <2> QED BY <2>1, <2>6 DEF b
<1> QED
  BY <1>5, <1>6, <1>7, <1>8

\* A place in the list of areas, for the window at place i of the list of
\* windows and part c of its frame.
PlaceOf(i, c) == 1 + 4 * (Shown(list) - i) + c

LEMMA Counted ==
  ASSUME NEW s \in Nat, NEW k \in 1 .. (4 * s)
  PROVE  /\ s - ((k - 1) \div 4) \in 1 .. s
         /\ 1 + ((k - 1) % 4) \in 1 .. 4
         /\ k = 4 * (s - (s - ((k - 1) \div 4))) + (1 + ((k - 1) % 4))
  OBVIOUS

LEMMA CountedBack ==
  ASSUME NEW s \in Nat, NEW i \in 1 .. s, NEW c \in 1 .. 4
  PROVE  LET k == 4 * (s - i) + c
         IN  k \in 1 .. (4 * s) /\ s - ((k - 1) \div 4) = i /\ 1 + ((k - 1) % 4) = c
  OBVIOUS

Desktop == [at |-> [x |-> 0, y |-> 0, w |-> Width, h |-> Height], color |-> <<None, "desktop">>]
Bar == [at |-> Taskbar, color |-> <<None, "taskbar">>]

\* The part of the frame of the window at place i that is painted.
Part(i, c) == wm_draw_window_frame(list[i], rect[list[i]], list[i] \in flag)[c]

LEMMA ShownSome ==
  ASSUME Inv
  PROVE  /\ Shown(list) \in 0 .. Len(list)
         /\ list # <<>> => Shown(list) >= 1
         /\ Len(list) <= WM_MAX_WINDOWS => Shown(list) = Len(list)
<1>1. Len(list) \in Nat /\ (list # <<>> => Len(list) # 0)
  BY LenProperties, EmptySeq DEF Inv, Listed
<1>2. WM_MAX_WINDOWS \in Nat \ {0}
  BY WmAssumption
<1> QED
  BY <1>1, <1>2 DEF Shown

\* First the desktop, then the frames from the last of the shown windows to
\* the head of the list, then the taskbar.
LEMMA Painting ==
  ASSUME Inv, booted
  PROVE  LET s == Shown(list)
         IN  /\ DOMAIN painted = 1 .. (4 * s + 2)
             /\ painted[1] = Desktop
             /\ painted[4 * s + 2] = Bar
             /\ \A i \in 1 .. s, c \in 1 .. 4 :
                  PlaceOf(i, c) \in 2 .. (4 * s + 1) /\ painted[PlaceOf(i, c)] = Part(i, c)
             /\ \A m \in 2 .. (4 * s + 1) :
                  \E i \in 1 .. s, c \in 1 .. 4 : m = PlaceOf(i, c)
<1> DEFINE s == Shown(list)
           F == Frames(list, rect, flag)
           X == {F[k] : k \in 1 .. (4 * s)} \cup {Desktop, Bar}
<1>1. s \in Nat /\ 4 * s \in Nat
  BY ShownSome DEF Inv, Listed
<1>2. painted = <<Desktop>> \o F \o <<Bar>>
  BY DEF Inv, Painted, Areas, Desktop, Bar
<1>3. /\ F = [k \in 1 .. (4 * s) |-> F[k]]
      /\ \A k \in 1 .. (4 * s) : F[k] = Part(s - ((k - 1) \div 4), 1 + ((k - 1) % 4))
  BY DEF Frames, Part
<1> HIDE DEF s, F
<1>4. F \in Seq(X) /\ Len(F) = 4 * s
  <2>1. F \in [1 .. (4 * s) -> X]
    BY <1>3
  <2> HIDE DEF X
  <2> QED BY <1>1, <2>1, LenProperties
<1>5. <<Desktop>> \in Seq(X) /\ <<Bar>> \in Seq(X) /\ Len(<<Desktop>>) = 1 /\ Len(<<Bar>>) = 1
  OBVIOUS
<1> DEFINE G == <<Desktop>> \o F
<1> HIDE DEF X
<1>6. /\ G \in Seq(X) /\ Len(G) = 4 * s + 1 /\ G[1] = Desktop
      /\ \A k \in 1 .. (4 * s) : G[k + 1] = F[k]
  <2>1. /\ G \in Seq(X) /\ Len(G) = 1 + 4 * s
        /\ \A j \in 1 .. (1 + 4 * s) : G[j] = IF j <= 1 THEN <<Desktop>>[j] ELSE F[j - 1]
    BY <1>4, <1>5, ConcatProperties
  <2> HIDE DEF G
  <2>2. 1 \in 1 .. (1 + 4 * s) /\ 4 * s + 1 = 1 + 4 * s
    BY <1>1
  <2>3. G[1] = Desktop
    BY <2>1, <2>2
  <2>4. ASSUME NEW k \in 1 .. (4 * s) PROVE G[k + 1] = F[k]
    <3>1. k + 1 \in 1 .. (1 + 4 * s) /\ ~ (k + 1 <= 1) /\ (k + 1) - 1 = k
      BY <1>1
    <3> QED BY <2>1, <3>1
  <2> QED BY <2>1, <2>2, <2>3, <2>4
<1> HIDE DEF G
<1>7. /\ DOMAIN painted = 1 .. (4 * s + 2) /\ painted[1] = Desktop /\ painted[4 * s + 2] = Bar
      /\ \A k \in 1 .. (4 * s) : painted[k + 1] = F[k]
  <2>1. /\ painted \in Seq(X) /\ Len(painted) = (4 * s + 1) + 1
        /\ \A j \in 1 .. ((4 * s + 1) + 1) :
             painted[j] = IF j <= 4 * s + 1 THEN G[j] ELSE <<Bar>>[j - (4 * s + 1)]
    <3>1. painted = G \o <<Bar>>
      BY <1>2 DEF G
    <3>2. /\ G \o <<Bar>> \in Seq(X) /\ Len(G \o <<Bar>>) = Len(G) + 1
          /\ \A j \in 1 .. (Len(G) + 1) :
               (G \o <<Bar>>)[j] = IF j <= Len(G) THEN G[j] ELSE <<Bar>>[j - Len(G)]
      BY <1>5, <1>6, ConcatProperties
    <3> QED BY <1>6, <3>1, <3>2
  <2>2. (4 * s + 1) + 1 = 4 * s + 2
    BY <1>1
  <2>3. DOMAIN painted = 1 .. (4 * s + 2)
    BY <2>1, <2>2, LenProperties
  <2>4. painted[1] = Desktop
    <3>1. 1 \in 1 .. ((4 * s + 1) + 1) /\ 1 <= 4 * s + 1
      BY <1>1
    <3> QED BY <1>6, <2>1, <3>1
  <2>5. painted[4 * s + 2] = Bar
    <3>1. /\ 4 * s + 2 \in 1 .. ((4 * s + 1) + 1) /\ ~ (4 * s + 2 <= 4 * s + 1)
          /\ (4 * s + 2) - (4 * s + 1) = 1
      BY <1>1
    <3>2. painted[4 * s + 2] = <<Bar>>[1]
      BY <2>1, <3>1
    <3> QED BY <3>2
  <2>6. ASSUME NEW k \in 1 .. (4 * s) PROVE painted[k + 1] = F[k]
    <3>1. k + 1 \in 1 .. ((4 * s + 1) + 1) /\ k + 1 <= 4 * s + 1
      BY <1>1
    <3>2. painted[k + 1] = G[k + 1]
      BY <2>1, <3>1
    <3> QED BY <1>6, <3>2
  <2> QED BY <2>3, <2>4, <2>5, <2>6
<1>8. ASSUME NEW i \in 1 .. s, NEW c \in 1 .. 4
      PROVE  PlaceOf(i, c) \in 2 .. (4 * s + 1) /\ painted[PlaceOf(i, c)] = Part(i, c)
  <2> DEFINE k == 4 * (s - i) + c
  <2>1. k \in 1 .. (4 * s) /\ s - ((k - 1) \div 4) = i /\ 1 + ((k - 1) % 4) = c
    BY <1>1, CountedBack
  <2>2. PlaceOf(i, c) = k + 1
    BY <1>1 DEF PlaceOf, s
  <2> HIDE DEF k
  <2>3. k + 1 \in 2 .. (4 * s + 1)
    BY <1>1, <2>1
  <2>4. painted[k + 1] = Part(i, c)
    BY <1>3, <1>7, <2>1
  <2> QED BY <2>2, <2>3, <2>4
<1>9. ASSUME NEW m \in 2 .. (4 * s + 1)
      PROVE  \E i \in 1 .. s, c \in 1 .. 4 : m = PlaceOf(i, c)
  <2> DEFINE k == m - 1
             i == s - ((k - 1) \div 4)
             c == 1 + ((k - 1) % 4)
  <2>1. k \in 1 .. (4 * s) /\ m = k + 1
    BY <1>1
  <2> HIDE DEF k
  <2>2. i \in 1 .. s /\ c \in 1 .. 4 /\ k = 4 * (s - i) + c
    BY <1>1, <2>1, Counted
  <2> HIDE DEF i, c
  <2>3. m = PlaceOf(i, c)
    BY <1>1, <2>1, <2>2 DEF PlaceOf, s
  <2> QED BY <2>2, <2>3
<1> QED
  BY <1>7, <1>8, <1>9 DEF s

LEMMA PaintedFit ==
  ASSUME Inv, booted, NEW m \in DOMAIN painted
  PROVE  Fits(painted[m].at)
<1> DEFINE s == Shown(list)
<1>1. s \in Nat /\ s \in 0 .. Len(list) /\ Len(list) \in Nat
  BY ShownSome, LenProperties DEF Inv, Listed
<1>2. Width \in Nat /\ Height \in Nat /\ U32 \in Nat /\ Width < U32 /\ Height < U32 /\ TASKBAR_H \in 0 .. Height
  BY WmAssumption
<1>3. DOMAIN painted = 1 .. (4 * s + 2)
  BY Painting
<1> HIDE DEF s
<1>4. CASE m = 1
  <2>1. painted[m] = Desktop
    BY <1>4, Painting
  <2>2. Fits([x |-> 0, y |-> 0, w |-> Width, h |-> Height])
    BY <1>2 DEF Fits, Rectangle
  <2> QED BY <2>1, <2>2 DEF Desktop
<1>5. CASE m = 4 * s + 2
  <2>1. painted[m] = Bar
    BY <1>5, Painting DEF s
  <2>2. Fits(Taskbar)
    <3> DEFINE b == Taskbar
    <3>1. b.x = 0 /\ b.y = Height - TASKBAR_H /\ b.w = Width /\ b.h = TASKBAR_H
      BY DEF Taskbar
    <3>2. b \in Rectangle
      BY <1>2 DEF Taskbar, Rectangle
    <3> HIDE DEF b
    <3>3. Fits(b)
      BY <1>2, <3>1, <3>2 DEF Fits
    <3> QED BY <3>3 DEF b
  <2> QED BY <2>1, <2>2 DEF Bar
<1>6. CASE m # 1 /\ m # 4 * s + 2
  <2>1. m \in 2 .. (4 * s + 1)
    BY <1>1, <1>3, <1>6
  <2>2. PICK i \in 1 .. s, c \in 1 .. 4 : m = PlaceOf(i, c)
    BY <2>1, Painting DEF s
  <2>3. painted[m] = Part(i, c)
    BY <2>2, Painting DEF s
  <2>4. Sound(rect[list[i]])
    <3>1. i \in DOMAIN list
      BY <1>1, LenProperties DEF Inv, Listed
    <3> QED BY <3>1 DEF Inv, Listed, ToSet
  <2> QED BY <2>3, <2>4, Parts DEF Part
<1> QED
  BY <1>4, <1>5, <1>6

\* What is seen at a point is the last area that was painted over it.
LEMMA SeenLast ==
  ASSUME Inv, booted, RowsFit, NEW p \in Pointer
  PROVE  \E m \in DOMAIN painted :
           /\ On(p, painted[m].at)
           /\ Seen(p) = painted[m].color
           /\ \A i \in DOMAIN painted : On(p, painted[i].at) => i <= m
<1> DEFINE s == Shown(list)
           n == 4 * s + 2
           over == {i \in DOMAIN painted : On(p, painted[i].at)}
<1>1. s \in Nat /\ n \in Nat /\ DOMAIN painted = 1 .. n /\ 1 \in DOMAIN painted
  <2>1. Len(list) \in Nat /\ s \in 0 .. Len(list)
    BY ShownSome, LenProperties DEF Inv, Listed
  <2>2. s \in Nat
    BY <2>1
  <2>3. DOMAIN painted = 1 .. (4 * s + 2)
    BY Painting
  <2> HIDE DEF s
  <2> QED BY <2>2, <2>3
<1>2. /\ Width \in Nat /\ Height \in Nat /\ p.x \in 0 .. (Width - 1) /\ p.y \in 0 .. (Height - 1)
      /\ mode.pitch \in Nat /\ mode.pitch >= Width
  BY WmAssumption, SMTT(60) DEF Inv, TypeOK, Pointer
<1>3. 1 \in over
  <2>1. painted[1] = Desktop
    BY Painting
  <2>2. On(p, [x |-> 0, y |-> 0, w |-> Width, h |-> Height])
    BY <1>2 DEF On, PointIn
  <2> QED BY <1>1, <2>1, <2>2 DEF Desktop
<1> DEFINE q == Fb!Place(mode.pitch, p.x, p.y)
<1>4. Filled(mode.pitch, q) = painted[Max(over)].color
  <2>1. \A i \in DOMAIN painted :
          Fb!Covers(mode.pitch, painted[i].at.x % U32, painted[i].at.y % U32,
                    painted[i].at.w % U32, painted[i].at.h % U32, q)
            <=> On(p, painted[i].at)
    BY <1>2, PaintedFit, Hit
  <2> HIDE DEF q
  <2>2. {i \in DOMAIN painted :
          Fb!Covers(mode.pitch, painted[i].at.x % U32, painted[i].at.y % U32,
                    painted[i].at.w % U32, painted[i].at.h % U32, q)} = over
    BY <2>1
  <2>3. over # {}
    BY <1>3
  <2> HIDE DEF over
  <2> QED BY <2>2, <2>3 DEF Filled
<1>5. Seen(p) = Filled(mode.pitch, q)
  <2>1. CASE ~mode.back
    BY <2>1 DEF Seen, Framebuf
  <2>2. CASE mode.back
    <3>1. mode.pitch = Width
      BY <2>2 DEF RowsFit
    <3>2. q < Width * Height
      <4>1. \A W, H \in Nat : \A x \in 0 .. (W - 1), y \in 0 .. (H - 1) : y * W + x < W * H
        OBVIOUS
      <4> QED BY <1>2, <3>1, <4>1 DEF Fb!Place
    <3> HIDE DEF q
    <3>3. Framebuf(q) = Filled(Width, q)
      BY <2>2, <3>2 DEF Framebuf
    <3> QED BY <3>1, <3>3 DEF Seen, q
  <2> QED BY <2>1, <2>2
<1>6. Max(over) \in over /\ \A k \in over : k <= Max(over)
  <2>1. over \subseteq 1 .. n /\ over # {}
    BY <1>1, <1>3
  <2> HIDE DEF over, n
  <2> QED BY <1>1, <2>1, Greatest
<1> QED
  BY <1>4, <1>5, <1>6

\* The windows at places up to i hold nothing of what is seen at a point before
\* window i: what is seen there is of the first window, of those that wm_redraw
\* paints, that the point lies in, and of the last part of its frame.
LEMMA SeenWindow ==
  ASSUME Inv, booted, RowsFit, NEW p \in Pointer, ~PointIn(p, Taskbar),
         NEW i \in 1 .. Shown(list), PointIn(p, rect[list[i]]), OnScreen(list[i]),
         \A j \in 1 .. (i - 1) : ~PointIn(p, rect[list[j]])
  PROVE  \E c \in 1 .. 4 : /\ Seen(p) = Part(i, c).color
                           /\ On(p, Part(i, c).at)
                           /\ \A d \in 1 .. 4 : On(p, Part(i, d).at) => d <= c
<1> DEFINE s == Shown(list)
<1>1. /\ s \in Nat /\ i \in 1 .. s /\ s \in 0 .. Len(list) /\ Len(list) \in Nat
      /\ DOMAIN list = 1 .. Len(list)
  <2>1. Len(list) \in Nat /\ s \in 0 .. Len(list) /\ DOMAIN list = 1 .. Len(list)
    BY ShownSome, LenProperties DEF Inv, Listed
  <2> QED BY <2>1
<1>2. /\ DOMAIN painted = 1 .. (4 * s + 2)
      /\ painted[1] = Desktop
      /\ painted[4 * s + 2] = Bar
      /\ \A j \in 1 .. s, c \in 1 .. 4 :
           PlaceOf(j, c) \in 2 .. (4 * s + 1) /\ painted[PlaceOf(j, c)] = Part(j, c)
      /\ \A m \in 2 .. (4 * s + 1) :
           \E j \in 1 .. s, c \in 1 .. 4 : m = PlaceOf(j, c)
  BY Painting
<1>3. \A j \in 1 .. s, c \in 1 .. 4 : PlaceOf(j, c) = 1 + 4 * (s - j) + c
  BY DEF PlaceOf
<1> HIDE DEF s
<1>4. PICK m \in DOMAIN painted :
        /\ On(p, painted[m].at)
        /\ Seen(p) = painted[m].color
        /\ \A k \in DOMAIN painted : On(p, painted[k].at) => k <= m
  BY SeenLast
<1>5. \A d \in 1 .. 4 : On(p, Part(i, d).at) => PlaceOf(i, d) <= m
  <2> SUFFICES ASSUME NEW d \in 1 .. 4, On(p, Part(i, d).at) PROVE PlaceOf(i, d) <= m
    OBVIOUS
  <2>1. PlaceOf(i, d) \in 2 .. (4 * s + 1) /\ painted[PlaceOf(i, d)] = Part(i, d)
    BY <1>1, <1>2
  <2>2. PlaceOf(i, d) \in DOMAIN painted
    <3>1. \A k \in 2 .. (4 * s + 1) : k \in 1 .. (4 * s + 2)
      BY <1>1
    <3> QED BY <1>2, <2>1, <3>1
  <2> QED BY <1>4, <2>1, <2>2
<1>6. PlaceOf(i, 1) <= m
  <2>1. Part(i, 1).at = rect[list[i]]
    BY DEF Part, wm_draw_window_frame
  <2>2. On(p, Part(i, 1).at)
    BY <2>1 DEF On, OnScreen
  <2> QED BY <1>5, <2>2
<1>7. m # 4 * s + 2
  <2>1. ~On(p, Bar.at)
    BY DEF On, Bar
  <2> QED BY <1>2, <1>4, <2>1
<1>8. m \in 2 .. (4 * s + 1)
  <2>1. PlaceOf(i, 1) \in 2 .. (4 * s + 1)
    BY <1>1, <1>2
  <2>2. m \in 1 .. (4 * s + 2)
    BY <1>2
  <2>3. \A k \in 2 .. (4 * s + 1), n \in 1 .. (4 * s + 2) :
          k <= n /\ n # 4 * s + 2 => n \in 2 .. (4 * s + 1)
    BY <1>1
  <2> QED BY <1>6, <1>7, <2>1, <2>2, <2>3
<1>9. PICK j \in 1 .. s, c \in 1 .. 4 : m = PlaceOf(j, c)
  BY <1>2, <1>8
<1>10. painted[m] = Part(j, c)
  BY <1>2, <1>9
<1>11. j <= i
  <2>1. 1 + 4 * (s - i) + 1 <= 1 + 4 * (s - j) + c
    <3>1. PlaceOf(i, 1) = 1 + 4 * (s - i) + 1
      BY <1>1, <1>3
    <3>2. m = 1 + 4 * (s - j) + c
      BY <1>3, <1>9
    <3> QED BY <1>6, <3>1, <3>2
  <2> QED BY <1>1, <2>1
<1>12. PointIn(p, rect[list[j]])
  <2>1. j \in DOMAIN list
    BY <1>1
  <2>2. Sound(rect[list[j]])
    BY <2>1 DEF Inv, Listed, ToSet
  <2>3. PointIn(p, Part(j, c).at)
    BY <1>4, <1>10 DEF On
  <2> QED BY <2>2, <2>3, Parts DEF Part
<1>13. j = i
  <2>1. ~ (j \in 1 .. (i - 1))
    BY <1>12
  <2> QED BY <1>1, <1>11, <2>1
<1>14. ASSUME NEW d \in 1 .. 4, On(p, Part(i, d).at) PROVE d <= c
  <2>1. PlaceOf(i, d) <= PlaceOf(i, c)
    BY <1>5, <1>9, <1>13, <1>14
  <2>2. PlaceOf(i, d) = 1 + 4 * (s - i) + d /\ PlaceOf(i, c) = 1 + 4 * (s - i) + c
    BY <1>1, <1>3
  <2> QED BY <1>1, <2>1, <2>2
<1> QED
  BY <1>4, <1>9, <1>10, <1>13, <1>14

\* A colour is that of the window whose part has it.
LEMMA PartColor ==
  ASSUME Inv, NEW i \in 1 .. Len(list), NEW c \in 1 .. 4
  PROVE  /\ Part(i, c).color[1] = list[i]
         /\ Part(i, c).color[2] = "active" => list[i] \in flag
<1>1. Part(i, c).color[1] = list[i]
  <2>1. i \in DOMAIN list
    BY LenProperties DEF Inv, Listed
  <2>2. Sound(rect[list[i]])
    BY <2>1 DEF Inv, Listed, ToSet
  <2> QED BY <2>2, Parts DEF Part
<1>2. Part(i, c).color[2] = "active" => list[i] \in flag
  <2>1. c = 1 \/ c = 2 \/ c = 3 \/ c = 4
    OBVIOUS
  <2> QED BY <2>1 DEF Part, wm_draw_window_frame
<1> QED
  BY <1>1, <1>2

-----------------------------------------------------------------------------
(* The keys go to the window on top *)

LEMMA Top == Inv => KeysGoToTop
<1> SUFFICES ASSUME Inv PROVE KeysGoToTop
  OBVIOUS
<1>1. /\ list \in Seq(Nat \ {0}) /\ Len(list) \in Nat /\ DOMAIN list = 1 .. Len(list)
      /\ (list # <<>> => 1 \in 1 .. Len(list))
      /\ Focus
  <2>1. list \in Seq(Nat \ {0}) /\ Focus
    BY DEF Inv, Listed
  <2>2. Len(list) \in Nat /\ DOMAIN list = 1 .. Len(list) /\ (list # <<>> => Len(list) # 0)
    BY <2>1, LenProperties, EmptySeq
  <2> QED BY <2>1, <2>2
<1>2. focused \in ToSet(list) \cup {None}
  BY <1>1 DEF Focus, ToSet
<1>3. ASSUME booted, RowsFit, NEW p \in Pointer, Seen(p)[2] = "active"
      PROVE  Seen(p)[1] = focused
  <2> DEFINE s == Shown(list)
  <2>1. s \in 0 .. Len(list) /\ s \in Nat
    BY <1>1, ShownSome
  <2>2. PICK m \in DOMAIN painted : Seen(p) = painted[m].color
    BY <1>3, SeenLast
  <2>3. /\ DOMAIN painted = 1 .. (4 * s + 2) /\ painted[1] = Desktop /\ painted[4 * s + 2] = Bar
        /\ \A i \in 1 .. s, c \in 1 .. 4 : painted[PlaceOf(i, c)] = Part(i, c)
        /\ \A k \in 2 .. (4 * s + 1) : \E i \in 1 .. s, c \in 1 .. 4 : k = PlaceOf(i, c)
    BY <1>3, Painting
  <2> HIDE DEF s
  <2>4. m # 1 /\ m # 4 * s + 2
    <3>1. Desktop.color[2] = "desktop" /\ Bar.color[2] = "taskbar"
      BY DEF Desktop, Bar
    <3> QED BY <1>3, <2>2, <2>3, <3>1
  <2>5. m \in 2 .. (4 * s + 1)
    <3>1. \A n \in 1 .. (4 * s + 2) : n # 1 /\ n # 4 * s + 2 => n \in 2 .. (4 * s + 1)
      BY <2>1
    <3> QED BY <2>3, <2>4, <3>1
  <2>6. PICK i \in 1 .. s, c \in 1 .. 4 : m = PlaceOf(i, c)
    BY <2>3, <2>5
  <2>7. Seen(p) = Part(i, c).color
    BY <2>2, <2>3, <2>6
  <2>8. i \in 1 .. Len(list)
    BY <1>1, <2>1
  <2>9. Seen(p)[1] = list[i] /\ list[i] \in flag
    BY <1>3, <2>7, <2>8, PartColor
  <2>10. list[i] \in ToSet(list)
    BY <1>1, <2>8 DEF ToSet
  <2> QED BY <1>1, <2>9, <2>10 DEF Focus
<1>4. ASSUME booted, RowsFit, NEW p \in Pointer, focused # None, ~PointIn(p, Taskbar),
             OnScreen(focused), PointIn(p, rect[focused])
      PROVE  Seen(p)[1] = focused
  <2>1. list # <<>> /\ focused = list[1]
    BY <1>1, <1>4 DEF Focus
  <2>2. 1 \in 1 .. Shown(list)
    <3>1. Shown(list) \in 0 .. Len(list) /\ Shown(list) >= 1
      BY <2>1, ShownSome
    <3> QED BY <1>1, <3>1
  <2>3. \A j \in 1 .. (1 - 1) : ~PointIn(p, rect[list[j]])
    OBVIOUS
  <2>4. PointIn(p, rect[list[1]]) /\ OnScreen(list[1])
    BY <1>4, <2>1
  <2>5. PICK c \in 1 .. 4 : Seen(p) = Part(1, c).color
    BY <1>4, <2>2, <2>3, <2>4, SeenWindow
  <2> QED BY <1>1, <2>1, <2>5, PartColor
<1> QED
  BY <1>2, <1>3, <1>4 DEF KeysGoToTop

\* Keys go to the window that is painted over all others, and only its title
\* bar is shown as active.
THEOREM TopHasKeys == Spec => []KeysGoToTop
<1> QED
  BY Invariant, Top, PTL

-----------------------------------------------------------------------------
(* A click takes what is seen *)

\* The colours that the point has in the parts of the frame of a window that is
\* seen there.
LEMMA SeenPart ==
  ASSUME Inv, booted, RowsFit, Len(list) <= WM_MAX_WINDOWS,
         NEW p \in Pointer, ~PointIn(p, Taskbar), NEW w, OnScreen(w), Under(p, w)
  PROVE  /\ w \in ToSet(list)
         /\ Seen(p)[1] = w
         /\ PointIn(p, CloseButton(rect[w])) => Seen(p) = <<w, "close">>
         /\ ~PointIn(p, CloseButton(rect[w])) /\ InTitleBar(p, rect[w]) =>
              Seen(p) \in {<<w, "active">>, <<w, "title">>}
<1>1. PICK i \in DOMAIN list :
        /\ w = list[i] /\ PointIn(p, rect[w])
        /\ \A j \in 1 .. (i - 1) : ~PointIn(p, rect[list[j]])
  BY DEF Under
<1>2. DOMAIN list = 1 .. Len(list) /\ Shown(list) = Len(list)
  BY ShownSome, LenProperties DEF Inv, Listed
<1>3. i \in 1 .. Shown(list) /\ i \in 1 .. Len(list) /\ w \in ToSet(list)
  BY <1>1, <1>2 DEF ToSet
<1>4. PICK c \in 1 .. 4 : /\ Seen(p) = Part(i, c).color
                          /\ On(p, Part(i, c).at)
                          /\ \A d \in 1 .. 4 : On(p, Part(i, d).at) => d <= c
  BY <1>1, <1>3, SeenWindow
<1>5. Seen(p)[1] = w
  BY <1>1, <1>3, <1>4, PartColor
<1> DEFINE r == rect[w]
<1>6. Sound(r)
  BY <1>3 DEF Inv, Listed
<1>7. /\ Part(i, 2).at = TitleBar(r)
      /\ Part(i, 2).color = <<w, IF w \in flag THEN "active" ELSE "title">>
      /\ Part(i, 3).at = CloseButton(r) /\ Part(i, 3).color = <<w, "close">>
      /\ Part(i, 4).at = Client(r)
  BY <1>1 DEF Part, wm_draw_window_frame
<1>8. r.x >= 0 /\ r.y >= 0 /\ PointIn(p, r)
  BY <1>1 DEF OnScreen
<1> HIDE DEF r
<1>9. /\ r.x \in Int /\ r.y \in Int /\ r.w \in Nat /\ r.h \in Nat
      /\ r.w >= Close.inset
      /\ p.x \in Int /\ p.y \in Int
      /\ r.x <= p.x /\ p.x < r.x + r.w /\ r.y <= p.y /\ p.y < r.y + r.h
  BY <1>6, <1>8 DEF Sound, Rectangle, PointIn, Pointer
<1>10. /\ Close.inset \in Nat /\ Close.top \in Nat /\ Close.w \in Nat /\ Close.h \in Nat
       /\ Close.top + Close.h <= TITLE_BAR_H
       /\ TITLE_BAR_H \in Nat /\ WINDOW_BORDER \in Nat
  BY WmAssumption
<1>11. ASSUME InTitleBar(p, r) PROVE c # 4
  <2>1. p.y < r.y + TITLE_BAR_H
    BY <1>11 DEF InTitleBar
  <2>2. Client(r).y = r.y + TITLE_BAR_H
    BY DEF Client
  <2>3. ~PointIn(p, Client(r))
    BY <1>9, <1>10, <2>1, <2>2, SMTT(60) DEF PointIn
  <2> QED BY <1>4, <1>7, <2>3 DEF On
<1>12. ASSUME PointIn(p, CloseButton(r)) PROVE Seen(p) = <<w, "close">>
  <2>1. /\ CloseButton(r).x = r.x + r.w - Close.inset /\ CloseButton(r).y = r.y + Close.top
        /\ CloseButton(r).w = Close.w /\ CloseButton(r).h = Close.h
    BY DEF CloseButton
  <2>2. On(p, CloseButton(r))
    <3>1. r.x + r.w - Close.inset >= 0 /\ r.y + Close.top >= 0
      <4>1. \A x, w0, n \in Int : x >= 0 /\ w0 >= n => x + w0 - n >= 0
        OBVIOUS
      <4>2. /\ r.x \in Int /\ r.w \in Int /\ Close.inset \in Int
            /\ r.x >= 0 /\ r.w >= Close.inset
        BY <1>8, <1>9, <1>10
      <4>3. r.x + r.w - Close.inset >= 0
        BY <4>1, <4>2, Zenon
      <4>4. \A y, n \in Int : y >= 0 /\ n >= 0 => y + n >= 0
        OBVIOUS
      <4>5. r.y \in Int /\ Close.top \in Int /\ r.y >= 0 /\ Close.top >= 0
        BY <1>8, <1>9, <1>10
      <4>6. r.y + Close.top >= 0
        BY <4>4, <4>5, Zenon
      <4> QED BY <4>3, <4>6
    <3>2. CloseButton(r).x >= 0 /\ CloseButton(r).y >= 0
      BY <2>1, <3>1
    <3> QED BY <1>12, <3>2 DEF On
  <2>3. InTitleBar(p, r)
    <3>1. p.y < CloseButton(r).y + CloseButton(r).h
      BY <1>12 DEF PointIn
    <3>2. p.y < (r.y + Close.top) + Close.h
      BY <2>1, <3>1
    <3>3. p.y < r.y + TITLE_BAR_H
      <4>1. \A a, b, c0, d, e \in Int : a < (b + c0) + d /\ c0 + d <= e => a < b + e
        OBVIOUS
      <4>2. /\ p.y \in Int /\ r.y \in Int /\ Close.top \in Int /\ Close.h \in Int
            /\ TITLE_BAR_H \in Int /\ Close.top + Close.h <= TITLE_BAR_H
        BY <1>9, <1>10
      <4> QED BY <3>2, <4>1, <4>2, Zenon
    <3> QED BY <3>3 DEF InTitleBar
  <2>4. 3 <= c
    BY <1>4, <1>7, <2>2
  <2>5. c = 3
    BY <1>11, <2>3, <2>4
  <2> QED BY <1>4, <1>7, <2>5
<1>13. ASSUME ~PointIn(p, CloseButton(r)), InTitleBar(p, r)
       PROVE  Seen(p) \in {<<w, "active">>, <<w, "title">>}
  <2>1. On(p, TitleBar(r))
    <3>1. p.y < r.y + TITLE_BAR_H
      BY <1>13 DEF InTitleBar
    <3>2. TitleBar(r).x = r.x /\ TitleBar(r).y = r.y /\ TitleBar(r).w = r.w /\ TitleBar(r).h = TITLE_BAR_H
      BY DEF TitleBar
    <3> QED BY <1>8, <1>9, <3>1, <3>2 DEF On, PointIn
  <2>2. 2 <= c
    BY <1>4, <1>7, <2>1
  <2>3. c # 3
    BY <1>4, <1>7, <1>13 DEF On
  <2>4. c = 2
    BY <1>11, <1>13, <2>2, <2>3
  <2>5. Seen(p) = <<w, IF w \in flag THEN "active" ELSE "title">>
    BY <1>4, <1>7, <2>4
  <2> QED BY <2>5
<1> QED
  BY <1>3, <1>5, <1>12, <1>13 DEF r

\* What ClickTakesWhatIsSeen says of a step.
Taken ==
  booted /\ RowsFit /\ ~dragging /\ Len(list) <= WM_MAX_WINDOWS =>
    \A w \in {v \in DOMAIN rect : OnScreen(v)} :
      ~PointIn(cursor', Taskbar) =>
        /\ focused' = w /\ focused # w => Seen(cursor')[1] = w
        /\ drag_win' = w => Seen(cursor') \in {<<w, "active">>, <<w, "title">>}
        /\ w \notin DOMAIN rect' => Seen(cursor') = <<w, "close">>

LEMMA Takes == Inv /\ Next => Taken
<1> SUFFICES ASSUME Inv, Next,
                    booted, RowsFit, ~dragging, Len(list) <= WM_MAX_WINDOWS,
                    NEW w \in DOMAIN rect, OnScreen(w), ~PointIn(cursor', Taskbar)
             PROVE  /\ focused' = w /\ focused # w => Seen(cursor')[1] = w
                    /\ drag_win' = w => Seen(cursor') \in {<<w, "active">>, <<w, "title">>}
                    /\ w \notin DOMAIN rect' => Seen(cursor') = <<w, "close">>
  BY DEF Taken
<1>1. PICK ms \in Packet : wm_handle_mouse(ms)
  BY DEF Next, wm_create_window, main_loop
<1>2. /\ Buttons(ms) /\ DOMAIN rect' = ToSet(list') /\ cursor' = [x |-> ms.x, y |-> ms.y]
  BY <1>1 DEF wm_handle_mouse
<1>3. /\ list \in Seq(Nat \ {0}) /\ Distinct(list) /\ DOMAIN rect = ToSet(list)
      /\ drag_win = None
  BY DEF Inv, Listed, Drag
<1>4. w # None
  <2>1. PICK i \in DOMAIN list : w = list[i]
    BY <1>3 DEF ToSet
  <2>2. list[i] \in Nat \ {0}
    BY <1>3, LenProperties, ElementOfSeq
  <2> QED BY <2>1, <2>2 DEF None
<1> DEFINE p == cursor'
<1>5. p \in Pointer /\ p.x = ms.x /\ p.y = ms.y
  <2>1. ms.x \in 0 .. (Width - 1) /\ ms.y \in 0 .. (Height - 1)
    BY DEF Packet
  <2> QED BY <1>2, <2>1 DEF Pointer
<1>6. \A r : PointIn(ms, r) <=> PointIn(p, r)
  BY <1>5 DEF PointIn
<1>7. \A r : InTitleBar(ms, r) <=> InTitleBar(p, r)
  BY <1>5 DEF InTitleBar
<1>8. \/ \E v \in ToSet(list) : Under(ms, v) /\ Click(v, ms)
      \/ ClickDesktop
      \/ Release
  BY <1>2, Zenon DEF Buttons
<1>9. CASE ClickDesktop
  <2>1. focused' = None /\ drag_win' = drag_win /\ list' = list
    BY <1>9 DEF ClickDesktop, dragVars
  <2> QED BY <1>2, <1>3, <1>4, <2>1
<1>10. CASE Release
  <2>1. focused' = focused /\ drag_win' = None /\ list' = list
    BY <1>10 DEF Release
  <2> QED BY <1>2, <1>3, <1>4, <2>1
<1>11. CASE \E v \in ToSet(list) : Under(ms, v) /\ Click(v, ms)
  <2>1. PICK v \in ToSet(list) : Under(ms, v) /\ Click(v, ms)
    BY <1>11
  <2>2. Under(p, v)
    BY <1>6, <2>1 DEF Under
  <2>3. ASSUME v = w
        PROVE  /\ Seen(p)[1] = w
               /\ PointIn(p, CloseButton(rect[w])) => Seen(p) = <<w, "close">>
               /\ ~PointIn(p, CloseButton(rect[w])) /\ InTitleBar(p, rect[w]) =>
                    Seen(p) \in {<<w, "active">>, <<w, "title">>}
    <3>1. Under(p, w)
      BY <2>2, <2>3
    <3> HIDE DEF p
    <3>2. ~PointIn(p, Taskbar)
      BY DEF p
    <3> QED BY <1>5, <3>1, <3>2, SeenPart
  <2>4. CASE PointIn(ms, CloseButton(rect[v])) /\ wm_destroy_window(v) /\ UNCHANGED dragVars
    <3>1. focused' = None /\ drag_win' = None /\ list' = RemoveFirst(list, v)
      BY <1>3, <2>4 DEF wm_destroy_window, dragVars
    <3>2. DOMAIN rect' = ToSet(list) \ {v}
      BY <1>2, <1>3, <2>1, <3>1, Removed
    <3>3. ASSUME w \notin DOMAIN rect' PROVE Seen(p) = <<w, "close">>
      <4>1. v = w
        BY <1>3, <3>2, <3>3
      <4>2. PointIn(p, CloseButton(rect[w]))
        BY <1>6, <2>4, <4>1
      <4> QED BY <2>3, <4>1, <4>2
    <3> QED BY <1>4, <3>1, <3>3
  <2>5. CASE /\ ~PointIn(ms, CloseButton(rect[v])) /\ InTitleBar(ms, rect[v])
             /\ wm_focus(v) /\ StartDrag(v, ms)
    <3>1. focused' = v /\ drag_win' = v
      BY <2>5 DEF wm_focus, StartDrag
    <3>2. w \in DOMAIN rect'
      BY <1>2, <1>3, <2>1, <2>5, FocusKeeps
    <3>3. v = w => Seen(p) \in {<<w, "active">>, <<w, "title">>}
      BY <1>6, <1>7, <2>3, <2>5
    <3> QED BY <2>3, <3>1, <3>2, <3>3
  <2>6. CASE /\ ~PointIn(ms, CloseButton(rect[v])) /\ ~InTitleBar(ms, rect[v])
             /\ wm_focus(v) /\ UNCHANGED dragVars
    <3>1. focused' = v /\ drag_win' = None
      BY <1>3, <2>6 DEF wm_focus, dragVars
    <3>2. w \in DOMAIN rect'
      BY <1>2, <1>3, <2>1, <2>6, FocusKeeps
    <3> QED BY <1>4, <2>3, <3>1, <3>2
  <2> QED BY <2>1, <2>4, <2>5, <2>6 DEF Click
<1> QED
  BY <1>8, <1>9, <1>10, <1>11

\* A click takes what the user saw at the pointer.
THEOREM ClickTakes == Spec => ClickTakesWhatIsSeen
<1>1. Inv /\ [Next]_vars => [Taken]_vars
  BY Takes
<1>2. Spec => [][Taken]_vars
  BY Invariant, <1>1, PTL DEF Spec
<1> QED
  BY <1>2, PTL DEF ClickTakesWhatIsSeen, Taken
=============================================================================
