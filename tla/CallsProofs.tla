---------------------------- MODULE CallsProofs -----------------------------
(***************************************************************************)
(* Calls and Ramfs: what the functions without state of their own do for   *)
(* every argument (interrupts, first stacks, the processor's tables,       *)
(* drawing, loading, strings, numbers, the search for programs), and that  *)
(* cat prints its file.                                                    *)
(***************************************************************************)
EXTENDS Calls, Ramfs, FiniteSetTheorems, SequenceTheorems, WellFoundedInduction, TLAPS

-----------------------------------------------------------------------------
(* SEQUENCES *)

\* t is s with w behind it.
Joins(t, s, w) ==
  /\ Len(t) = Len(s) + Len(w)
  /\ \A k \in 1 .. (Len(s) + Len(w)) : t[k] = IF k <= Len(s) THEN s[k] ELSE w[k - Len(s)]

\* What \o puts together, element by element.
LEMMA Joined ==
  ASSUME NEW S, NEW s \in Seq(S), NEW w \in Seq(S)
  PROVE  s \o w \in Seq(S) /\ Joins(s \o w, s, w)
  BY ConcatProperties DEF Joins

\* t is the part of s at from .. to.
Takes(t, s, from, to) ==
  /\ Len(t) = to - from + 1
  /\ \A k \in 1 .. (to - from + 1) : t[k] = s[from + k - 1]

\* What SubSeq takes out, element by element.
LEMMA Part ==
  ASSUME NEW S, NEW s \in Seq(S), NEW from \in Nat \ {0}, NEW to \in Nat,
         from <= to, to <= Len(s)
  PROVE  SubSeq(s, from, to) \in Seq(S) /\ Takes(SubSeq(s, from, to), s, from, to)
<1>1. \A k \in from .. to : s[k] \in S
  <2>1. s \in [1 .. Len(s) -> S] /\ Len(s) \in Nat
    BY LenProperties
  <2> QED BY <2>1
<1>2. /\ SubSeq(s, from, to) \in Seq(S)
      /\ Len(SubSeq(s, from, to)) = IF from <= to THEN to - from + 1 ELSE 0
      /\ \A k \in 1 .. (to - from + 1) : SubSeq(s, from, to)[k] = s[from + k - 1]
  BY <1>1, SubSeqProperties
<1> QED
  BY <1>2 DEF Takes

-----------------------------------------------------------------------------
(* NUMBERS *)

\* Remainder and quotient.
LEMMA Divided ==
  ASSUME NEW a \in Nat, NEW b \in Nat \ {0}
  PROVE  /\ a \div b \in Nat /\ a % b \in 0 .. (b - 1) /\ a = (a \div b) * b + (a % b)
         /\ a % b <= a
         /\ a < b => a % b = a /\ a \div b = 0
  OBVIOUS

LEMMA DividedOnce ==
  ASSUME NEW b \in Nat \ {0}, NEW q \in Nat, NEW r \in 0 .. (b - 1)
  PROVE  (q * b + r) % b = r /\ (q * b + r) \div b = q
  OBVIOUS

\* A quotient is within bounds.
LEMMA DividedBelow ==
  ASSUME NEW a \in Nat, NEW b \in Nat \ {0}, NEW c \in Nat, a < b * c
  PROVE  a \div b \in 0 .. (c - 1)
<1>1. a \div b \in Nat /\ a % b \in 0 .. (b - 1) /\ a = (a \div b) * b + (a % b)
  BY Divided
<1> DEFINE q == a \div b
<1> HIDE DEF q
<1>2. q * b < b * c
  BY <1>1 DEF q
<1>3. ASSUME q >= c PROVE FALSE
  <2>1. b * c <= b * q
    BY <1>1, <1>3 DEF q
  <2> QED BY <1>1, <1>2, <2>1 DEF q
<1> QED
  BY <1>1, <1>3 DEF q

\* What is reduced twice is reduced once.
LEMMA ReducedOnce ==
  ASSUME NEW a \in Nat, NEW c \in Nat, NEW b \in Nat \ {0}
  PROVE  ((a % b) + c) % b = (a + c) % b
<1> DEFINE q == a \div b
           r == a % b
           p == (r + c) \div b
           s == (r + c) % b
<1>1. q \in Nat /\ r \in 0 .. (b - 1) /\ a = q * b + r
  BY Divided
<1> HIDE DEF q, r
<1>2. p \in Nat /\ s \in 0 .. (b - 1) /\ r + c = p * b + s
  <2> DEFINE e == r + c
  <2>1. e \in Nat
    BY <1>1
  <2> HIDE DEF e
  <2>2. e \div b \in Nat /\ e % b \in 0 .. (b - 1) /\ e = (e \div b) * b + (e % b)
    BY <2>1, Divided
  <2> QED BY <2>2 DEF e
<1> HIDE DEF p, s
<1>3. a + c = (q + p) * b + s
  BY <1>1, <1>2
<1>4. (a + c) % b = s
  <2>1. q + p \in Nat
    BY <1>1, <1>2
  <2>2. ((q + p) * b + s) % b = s
    BY <1>2, <2>1, DividedOnce
  <2> QED BY <1>3, <2>2
<1> QED
  BY <1>4 DEF s, r

-----------------------------------------------------------------------------
(* LOOPS *)

\* Every set of numbers that is not empty has a least one.
LEMMA LeastNat ==
  ASSUME NEW T, T \subseteq Nat, T # {}
  PROVE  \E m \in T : \A k \in T : m <= k
<1> DEFINE R == OpToRel(<, Nat)
<1>1. IsWellFoundedOn(R, Nat)
  BY NatLessThanWellFounded
<1>2. \E x \in T : \A y \in T : ~ (<<y, x>> \in R)
  <2> HIDE DEF R
  <2> QED BY <1>1, WFMin
<1>3. \A a, b \in Nat : <<a, b>> \in R <=> a < b
  BY DEF OpToRel
<1> HIDE DEF R
<1>4. PICK m \in T : \A y \in T : ~ (<<y, m>> \in R)
  BY <1>2
<1>5. \A k \in T : ~ (k < m) /\ k \in Nat /\ m \in Nat
  BY <1>3, <1>4
<1> QED
  BY <1>5

\* A set that has 0, and with each number the next, has all up to len.
LEMMA Climbs ==
  ASSUME NEW S, NEW len \in Nat, 0 \in S, \A k \in 1 .. len : k - 1 \in S => k \in S
  PROVE  \A k \in 0 .. len : k \in S
<1> DEFINE Left == {k \in 0 .. len : k \notin S}
<1> SUFFICES ASSUME Left # {} PROVE FALSE
  OBVIOUS
<1>1. Left \subseteq Nat
  OBVIOUS
<1>2. PICK k \in Left : \A i \in Left : k <= i
  <2> HIDE DEF Left
  <2> QED BY <1>1, LeastNat
<1>3. k \in 1 .. len
  OBVIOUS
<1>4. k - 1 \in S
  BY <1>2, <1>3
<1> QED
  BY <1>3, <1>4

\* f is where the steps F lead from m, each from k - 1 to k.
Iterates(f, m, len, F) == f = [k \in 0 .. len |-> IF k = 0 THEN m ELSE F[k][f[k - 1]]]

\* A step from each k - 1 to k, for every state of T, can be taken len times.
LEMMA Iterated ==
  ASSUME NEW T, NEW m \in T, NEW len \in Nat, NEW F \in [1 .. len -> [T -> T]]
  PROVE  \E f \in [0 .. len -> T] : Iterates(f, m, len, F)
<1> DEFINE Goes(f, j) == f[0] = m /\ \A k \in 1 .. j : f[k] = F[k][f[k - 1]]
           S == {j \in 0 .. len : \E f \in [0 .. len -> T] : Goes(f, j)}
<1>1. 0 \in S
  <2> DEFINE f == [k \in 0 .. len |-> m]
  <2>1. f \in [0 .. len -> T] /\ Goes(f, 0)
    OBVIOUS
  <2> HIDE DEF f
  <2> QED BY <2>1
<1>2. ASSUME NEW j \in 1 .. len, j - 1 \in S PROVE j \in S
  <2>1. PICK f \in [0 .. len -> T] : Goes(f, j - 1)
    BY <1>2
  <2> DEFINE t == F[j][f[j - 1]]
             g == [k \in 0 .. len |-> IF k = j THEN t ELSE f[k]]
  <2>2. t \in T
    OBVIOUS
  <2>3. g \in [0 .. len -> T]
    BY <2>2
  <2>4. g[0] = m
    BY <2>1
  <2>5. ASSUME NEW k \in 1 .. j PROVE g[k] = F[k][g[k - 1]]
    <3>1. g[k - 1] = f[k - 1]
      OBVIOUS
    <3>2. CASE k = j
      BY <3>1, <3>2
    <3>3. CASE k # j
      <4>1. g[k] = f[k] /\ f[k] = F[k][f[k - 1]]
        BY <2>1, <3>3
      <4> QED BY <3>1, <4>1
    <3> QED BY <3>2, <3>3
  <2> HIDE DEF g
  <2>6. Goes(g, j)
    BY <2>4, <2>5
  <2> QED BY <2>3, <2>6
<1>3. len \in S
  <2> HIDE DEF S
  <2>1. \A k \in 1 .. len : k - 1 \in S => k \in S
    BY <1>2
  <2>2. \A k \in 0 .. len : k \in S
    BY <1>1, <2>1, Climbs
  <2> QED BY <2>2
<1>4. PICK f \in [0 .. len -> T] : Goes(f, len)
  BY <1>3
<1>5. f = [k \in 0 .. len |-> f[k]]
  OBVIOUS
<1>6. \A k \in 0 .. len : f[k] = IF k = 0 THEN m ELSE F[k][f[k - 1]]
  BY <1>4
<1>7. Iterates(f, m, len, F)
  BY <1>5, <1>6 DEF Iterates
<1> QED
  BY <1>7

\* What each turn of a loop keeps holds behind every turn.
LEMMA Kept ==
  ASSUME NEW T, NEW len \in Nat, NEW h, h[0] \in T,
         \A k \in 1 .. len : h[k - 1] \in T => h[k] \in T
  PROVE  \A k \in 0 .. len : h[k] \in T
<1> DEFINE S == {k \in 0 .. len : h[k] \in T}
<1>1. 0 \in S /\ \A k \in 1 .. len : k - 1 \in S => k \in S
  OBVIOUS
<1> HIDE DEF S
<1>2. \A k \in 0 .. len : k \in S
  BY <1>1, Climbs
<1> QED
  BY <1>2 DEF S

-----------------------------------------------------------------------------
(* INTERRUPTS: module TrapFrame *)

\* What is on the stack when isr_handler is called, from the bottom: what the
\* processor pushed, the code, the vector, and the registers.
LEMMA FrameIs ==
  ASSUME NEW cpu, NEW v, NEW code
  PROVE  LET s == Frame(cpu, v, code)
         IN  /\ \E V : s \in Seq(V)
             /\ Len(s) = 22
             /\ s[1] = cpu.ss /\ s[2] = cpu.rsp /\ s[3] = cpu.rflags /\ s[4] = cpu.cs
             /\ s[5] = cpu.rip
             /\ s[6] = (IF v \in WithCode THEN code ELSE "0") /\ s[7] = v
             /\ \A k \in 1 .. 15 : s[7 + k] = cpu.regs[Pushed[k]]
<1> DEFINE regs == [k \in DOMAIN Pushed |-> cpu.regs[Pushed[k]]]
           V == {cpu.ss, cpu.rsp, cpu.rflags, cpu.cs, cpu.rip, code, "0", v}
                  \cup {regs[k] : k \in 1 .. 15}
           low == <<cpu.ss, cpu.rsp, cpu.rflags, cpu.cs, cpu.rip>>
<1>1. WithCode = ISR_ERR
  BY DEF WithCode, ISR_ERR
<1>2. DOMAIN Pushed = 1 .. 15
  BY DEF Pushed
<1>3. /\ low \in Seq(V) /\ Len(low) = 5
      /\ low[1] = cpu.ss /\ low[2] = cpu.rsp /\ low[3] = cpu.rflags /\ low[4] = cpu.cs
      /\ low[5] = cpu.rip
  OBVIOUS
<1>4. regs \in Seq(V) /\ Len(regs) = 15 /\ \A k \in 1 .. 15 : regs[k] = cpu.regs[Pushed[k]]
  <2>1. regs \in [1 .. 15 -> V]
    BY <1>2
  <2> HIDE DEF V
  <2> QED BY <1>2, <2>1
<1> DEFINE one == <<code>>
           last == <<v>>
           two == <<"0", v>>
<1>5. /\ one \in Seq(V) /\ Len(one) = 1 /\ one[1] = code
      /\ last \in Seq(V) /\ Len(last) = 1 /\ last[1] = v
      /\ two \in Seq(V) /\ Len(two) = 2 /\ two[1] = "0" /\ two[2] = v
  OBVIOUS
<1> HIDE DEF low, regs, V, one, last, two
<1>6. ASSUME NEW mid \in Seq(V), Len(mid) = 7, NEW s, s = mid \o regs
      PROVE  /\ s \in Seq(V) /\ Len(s) = 22
             /\ s[1] = mid[1] /\ s[2] = mid[2] /\ s[3] = mid[3] /\ s[4] = mid[4]
             /\ s[5] = mid[5] /\ s[6] = mid[6] /\ s[7] = mid[7]
             /\ \A k \in 1 .. 15 : s[7 + k] = cpu.regs[Pushed[k]]
  <2>1. s \in Seq(V) /\ Joins(s, mid, regs)
    BY <1>4, <1>6, Joined
  <2>2. /\ Len(s) = 22
        /\ \A k \in 1 .. 7 : s[k] = mid[k]
        /\ \A k \in 1 .. 15 : s[7 + k] = regs[k]
    <3>1. Len(mid) = 7 /\ Len(regs) = 15 /\ Joins(s, mid, regs)
      BY <1>4, <1>6, <2>1
    <3> QED BY ONLY <3>1 DEF Joins
  <2>3. /\ s[1] = mid[1] /\ s[2] = mid[2] /\ s[3] = mid[3] /\ s[4] = mid[4]
        /\ s[5] = mid[5] /\ s[6] = mid[6] /\ s[7] = mid[7]
    BY <2>2
  <2>4. ASSUME NEW k \in 1 .. 15 PROVE s[7 + k] = cpu.regs[Pushed[k]]
    <3>1. s[7 + k] = regs[k]
      BY <2>2
    <3> QED BY <1>4, <3>1
  <2> QED BY <2>1, <2>2, <2>3, <2>4
<1>7. LET mid == (low \o one) \o last
      IN  /\ mid \in Seq(V) /\ Len(mid) = 7
          /\ mid[1] = low[1] /\ mid[2] = low[2] /\ mid[3] = low[3] /\ mid[4] = low[4]
          /\ mid[5] = low[5] /\ mid[6] = code /\ mid[7] = v
  <2> DEFINE six == low \o one
             mid == six \o last
  <2>1. six \in Seq(V) /\ Joins(six, low, one)
    BY <1>3, <1>5, Joined
  <2> HIDE DEF six
  <2>2. mid \in Seq(V) /\ Joins(mid, six, last)
    BY <1>5, <2>1, Joined
  <2> HIDE DEF mid
  <2>3. /\ Len(six) = 6 /\ six[6] = one[1]
        /\ \A k \in 1 .. 5 : six[k] = low[k]
    BY <1>3, <1>5, <2>1 DEF Joins
  <2>4. /\ Len(mid) = 7 /\ mid[7] = last[1]
        /\ \A k \in 1 .. 6 : mid[k] = six[k]
    BY <1>5, <2>2, <2>3 DEF Joins
  <2>5. /\ mid[1] = low[1] /\ mid[2] = low[2] /\ mid[3] = low[3] /\ mid[4] = low[4]
        /\ mid[5] = low[5] /\ mid[6] = code /\ mid[7] = v
    BY <1>5, <2>3, <2>4
  <2> QED BY <2>2, <2>4, <2>5 DEF mid, six
<1>8. LET mid == low \o two
      IN  /\ mid \in Seq(V) /\ Len(mid) = 7
          /\ mid[1] = low[1] /\ mid[2] = low[2] /\ mid[3] = low[3] /\ mid[4] = low[4]
          /\ mid[5] = low[5] /\ mid[6] = "0" /\ mid[7] = v
  <2> DEFINE mid == low \o two
  <2>1. mid \in Seq(V) /\ Joins(mid, low, two)
    BY <1>3, <1>5, Joined
  <2> HIDE DEF mid
  <2>2. /\ Len(mid) = 7
        /\ mid[1] = low[1] /\ mid[2] = low[2] /\ mid[3] = low[3] /\ mid[4] = low[4]
        /\ mid[5] = low[5] /\ mid[6] = two[1] /\ mid[7] = two[2]
    BY <1>3, <1>5, <2>1 DEF Joins
  <2> QED BY <1>5, <2>1, <2>2 DEF mid
<1>9. CASE v \in WithCode
  <2> DEFINE mid == (low \o one) \o last
             s == Frame(cpu, v, code)
  <2>1. s = mid \o regs
    BY <1>1, <1>9 DEF Frame, Entered, isr_table, low, regs, one, last
  <2>2. /\ s \in Seq(V) /\ Len(s) = 22
        /\ s[1] = mid[1] /\ s[2] = mid[2] /\ s[3] = mid[3] /\ s[4] = mid[4]
        /\ s[5] = mid[5] /\ s[6] = mid[6] /\ s[7] = mid[7]
        /\ \A k \in 1 .. 15 : s[7 + k] = cpu.regs[Pushed[k]]
    <3> HIDE DEF mid, s
    <3> QED BY <1>6, <1>7, <1>9, <2>1, ZenonT(60) DEF mid
  <2> HIDE DEF mid
  <2> QED BY <1>3, <1>7, <1>9, <2>2 DEF mid
<1>10. CASE v \notin WithCode
  <2> DEFINE mid == low \o two
             s == Frame(cpu, v, code)
  <2>1. s = mid \o regs
    <3>1. s = (low \o << >>) \o two \o regs
      BY <1>1, <1>10 DEF Frame, Entered, isr_table, low, regs, two
    <3>2. low \o << >> = low
      BY <1>3, ConcatEmptySeq
    <3> QED BY <3>1, <3>2
  <2>2. /\ s \in Seq(V) /\ Len(s) = 22
        /\ s[1] = mid[1] /\ s[2] = mid[2] /\ s[3] = mid[3] /\ s[4] = mid[4]
        /\ s[5] = mid[5] /\ s[6] = mid[6] /\ s[7] = mid[7]
        /\ \A k \in 1 .. 15 : s[7 + k] = cpu.regs[Pushed[k]]
    <3> HIDE DEF mid, s
    <3> QED BY <1>6, <1>8, <2>1, ZenonT(60) DEF mid
  <2> HIDE DEF mid
  <2> QED BY <1>3, <1>8, <1>10, <2>2 DEF mid
<1> QED
  BY <1>9, <1>10

\* What was pushed last is popped first.
LEMMA PoppedInTurn ==
  /\ DOMAIN Popped = 1 .. 15
  /\ \A k \in 1 .. 15 : Popped[k] = Pushed[16 - k]
  /\ \A r \in Regs : \E k \in 1 .. 15 : Popped[k] = r
<1>1. DOMAIN Popped = 1 .. 15
  BY DEF Popped
<1>2. /\ Popped[1] = Pushed[15] /\ Popped[2] = Pushed[14] /\ Popped[3] = Pushed[13]
      /\ Popped[4] = Pushed[12] /\ Popped[5] = Pushed[11] /\ Popped[6] = Pushed[10]
      /\ Popped[7] = Pushed[9] /\ Popped[8] = Pushed[8] /\ Popped[9] = Pushed[7]
      /\ Popped[10] = Pushed[6] /\ Popped[11] = Pushed[5] /\ Popped[12] = Pushed[4]
      /\ Popped[13] = Pushed[3] /\ Popped[14] = Pushed[2] /\ Popped[15] = Pushed[1]
  BY DEF Popped, Pushed
<1>3. ASSUME NEW k \in 1 .. 15 PROVE Popped[k] = Pushed[16 - k]
  <2>1. \/ k = 1 \/ k = 2 \/ k = 3 \/ k = 4 \/ k = 5 \/ k = 6 \/ k = 7 \/ k = 8 \/ k = 9
        \/ k = 10 \/ k = 11 \/ k = 12 \/ k = 13 \/ k = 14 \/ k = 15
    OBVIOUS
  <2> QED BY <1>2, <2>1
<1>4. ASSUME NEW r \in Regs PROVE \E k \in 1 .. 15 : Popped[k] = r
  <2>1. /\ Popped[1] = "rax" /\ Popped[2] = "rbx" /\ Popped[3] = "rcx" /\ Popped[4] = "rdx"
        /\ Popped[5] = "rsi" /\ Popped[6] = "rdi" /\ Popped[7] = "rbp" /\ Popped[8] = "r8"
        /\ Popped[9] = "r9" /\ Popped[10] = "r10" /\ Popped[11] = "r11" /\ Popped[12] = "r12"
        /\ Popped[13] = "r13" /\ Popped[14] = "r14" /\ Popped[15] = "r15"
    BY DEF Popped
  <2> QED BY <2>1 DEF Regs
<1> QED
  BY <1>1, <1>3, <1>4

\* isr_common takes off the stack what it and the stub put there.
LEMMA Resumes ==
  ASSUME NEW cpu, NEW v, NEW code
  PROVE  Resumed(cpu, v, code) =
           [regs |-> [r \in Regs |-> cpu.regs[r]], rip |-> cpu.rip, cs |-> cpu.cs,
            rflags |-> cpu.rflags, rsp |-> cpu.rsp, ss |-> cpu.ss]
<1> DEFINE s == Frame(cpu, v, code)
           at(k) == s[Len(s) + 1 - k]
           regs == [r \in Regs |-> IF \E k \in DOMAIN Popped : Popped[k] = r
                                   THEN at(CHOOSE k \in DOMAIN Popped : Popped[k] = r)
                                   ELSE Clobbered(cpu.regs)[r]]
           low == SubSeq(s, 1, Len(s) - Len(Popped) - 2)
<1>1. /\ Len(s) = 22 /\ \E V : s \in Seq(V)
      /\ s[1] = cpu.ss /\ s[2] = cpu.rsp /\ s[3] = cpu.rflags /\ s[4] = cpu.cs
      /\ s[5] = cpu.rip
      /\ \A k \in 1 .. 15 : s[7 + k] = cpu.regs[Pushed[k]]
  BY FrameIs, SMTT(60)
<1>2. Resumed(cpu, v, code) = iretq(low, regs)
  BY DEF Resumed
<1> HIDE DEF s
<1>3. ASSUME NEW r \in Regs PROVE regs[r] = cpu.regs[r]
  <2> DEFINE k == CHOOSE k \in DOMAIN Popped : Popped[k] = r
  <2>1. \E q \in DOMAIN Popped : Popped[q] = r
    BY PoppedInTurn
  <2>2. k \in 1 .. 15 /\ Popped[k] = r
    BY <2>1, PoppedInTurn
  <2>3. regs[r] = at(k)
    BY <2>1
  <2> HIDE DEF k, regs
  <2>4. at(k) = s[7 + (16 - k)] /\ 16 - k \in 1 .. 15
    <3>1. Len(s) + 1 - k = 7 + (16 - k)
      BY <1>1, <2>2
    <3> QED BY <2>2, <3>1
  <2> HIDE DEF at
  <2>5. s[7 + (16 - k)] = cpu.regs[Pushed[16 - k]]
    BY <1>1, <2>4
  <2> QED BY <2>2, <2>3, <2>4, <2>5, PoppedInTurn
<1>4. regs = [r \in Regs |-> cpu.regs[r]]
  <2>1. regs = [r \in Regs |-> regs[r]]
    OBVIOUS
  <2> HIDE DEF regs
  <2> QED BY <1>3, <2>1
<1>5. /\ Len(low) = 5 /\ low[1] = cpu.ss /\ low[2] = cpu.rsp /\ low[3] = cpu.rflags
      /\ low[4] = cpu.cs /\ low[5] = cpu.rip
  <2>1. Len(Popped) = 15
    BY DEF Popped
  <2>2. low = SubSeq(s, 1, 5)
    BY <1>1, <2>1
  <2>3. PICK V : s \in Seq(V)
    BY <1>1
  <2>4. Takes(low, s, 1, 5)
    <3>1. 1 \in Nat \ {0} /\ 5 \in Nat /\ 1 <= 5 /\ 5 <= Len(s)
      BY <1>1
    <3> HIDE DEF low
    <3> QED BY <2>2, <2>3, <3>1, Part, Zenon
  <2>5. Len(low) = 5 /\ \A k \in 1 .. 5 : low[k] = s[k]
    <3> HIDE DEF low
    <3> QED BY <2>4 DEF Takes
  <2> QED BY <1>1, <2>5, SMTT(60)
<1> HIDE DEF regs, low
<1>6. iretq(low, regs) = [regs |-> regs, rip |-> low[5], cs |-> low[4], rflags |-> low[3],
                          rsp |-> low[2], ss |-> low[1]]
  BY <1>5 DEF iretq
<1> QED
  BY <1>2, <1>4, <1>5, <1>6

\* The fields of isr_frame_t lie where the stubs push what they are named after.
LEMMA FieldsLie ==
  ASSUME NEW s, Len(s) = 22
  PROVE  /\ Field(s, "int_no") = s[7] /\ Field(s, "err_code") = s[6]
         /\ Field(s, "rip") = s[5] /\ Field(s, "cs") = s[4] /\ Field(s, "rflags") = s[3]
         /\ Field(s, "rsp") = s[2] /\ Field(s, "ss") = s[1]
<1> DEFINE where(name) == CHOOSE k \in DOMAIN isr_frame_t : isr_frame_t[k] = name
<1>1. \A name : Field(s, name) = s[Len(s) + 1 - where(name)]
  BY DEF Field
<1>2. DOMAIN isr_frame_t = 1 .. 22
  BY DEF isr_frame_t
<1>3. \A k \in 1 .. 22 :
        /\ isr_frame_t[k] = "int_no" <=> k = 16
        /\ isr_frame_t[k] = "err_code" <=> k = 17
        /\ isr_frame_t[k] = "rip" <=> k = 18
        /\ isr_frame_t[k] = "cs" <=> k = 19
        /\ isr_frame_t[k] = "rflags" <=> k = 20
        /\ isr_frame_t[k] = "rsp" <=> k = 21
        /\ isr_frame_t[k] = "ss" <=> k = 22
  <2>1. /\ isr_frame_t[1] = "r15" /\ isr_frame_t[2] = "r14" /\ isr_frame_t[3] = "r13"
        /\ isr_frame_t[4] = "r12" /\ isr_frame_t[5] = "r11" /\ isr_frame_t[6] = "r10"
        /\ isr_frame_t[7] = "r9" /\ isr_frame_t[8] = "r8" /\ isr_frame_t[9] = "rbp"
        /\ isr_frame_t[10] = "rdi" /\ isr_frame_t[11] = "rsi" /\ isr_frame_t[12] = "rdx"
        /\ isr_frame_t[13] = "rcx" /\ isr_frame_t[14] = "rbx" /\ isr_frame_t[15] = "rax"
        /\ isr_frame_t[16] = "int_no" /\ isr_frame_t[17] = "err_code"
        /\ isr_frame_t[18] = "rip" /\ isr_frame_t[19] = "cs" /\ isr_frame_t[20] = "rflags"
        /\ isr_frame_t[21] = "rsp" /\ isr_frame_t[22] = "ss"
    BY DEF isr_frame_t
  <2> SUFFICES ASSUME NEW k \in 1 .. 22
               PROVE  /\ isr_frame_t[k] = "int_no" <=> k = 16
                      /\ isr_frame_t[k] = "err_code" <=> k = 17
                      /\ isr_frame_t[k] = "rip" <=> k = 18
                      /\ isr_frame_t[k] = "cs" <=> k = 19
                      /\ isr_frame_t[k] = "rflags" <=> k = 20
                      /\ isr_frame_t[k] = "rsp" <=> k = 21
                      /\ isr_frame_t[k] = "ss" <=> k = 22
    OBVIOUS
  <2>2. \/ k = 1 \/ k = 2 \/ k = 3 \/ k = 4 \/ k = 5 \/ k = 6 \/ k = 7 \/ k = 8 \/ k = 9
        \/ k = 10 \/ k = 11 \/ k = 12 \/ k = 13 \/ k = 14 \/ k = 15 \/ k = 16 \/ k = 17
        \/ k = 18 \/ k = 19 \/ k = 20 \/ k = 21 \/ k = 22
    OBVIOUS
  <2> QED BY <2>1, <2>2
<1>4. /\ where("int_no") = 16 /\ where("err_code") = 17 /\ where("rip") = 18
      /\ where("cs") = 19 /\ where("rflags") = 20 /\ where("rsp") = 21 /\ where("ss") = 22
  BY <1>2, <1>3
<1> HIDE DEF where
<1> QED
  BY <1>1, <1>4

-----------------------------------------------------------------------------
(* THE FIRST STACK: module ElfLoad *)

\* The five words and where they lie.
LEMMA StackIs ==
  ASSUME NEW top \in Int, NEW nlen \in Nat
  PROVE  LET r == elf_setup_stack(top, nlen)
             w == r.words
             str == r.str
         IN  /\ str \in Int /\ str % 16 = 0 /\ str + nlen <= top - 8
             /\ r.sp = str - 40
             /\ DOMAIN w = {top - 8, str - 8, str - 16, str - 24, str - 32}
             /\ w[top - 8] = 0 /\ w[str - 8] = 0 /\ w[str - 16] = 0
             /\ w[str - 24] = str /\ w[str - 32] = 1
<1> DEFINE q == (top - 8 - nlen) \div 16
           str == q * 16
           words == FirstWords(top, str)
           sp == str - 32
<1>1. q \in Int /\ q * 16 <= top - 8 - nlen
  OBVIOUS
<1>2. str \in Int /\ str % 16 = 0 /\ str + nlen <= top - 8
  <2> HIDE DEF q
  <2> QED BY <1>1
<1>3. elf_setup_stack(top, nlen) =
        [words |-> words, str |-> str, sp |-> IF sp % 16 = 0 THEN sp - 8 ELSE sp]
  BY DEF elf_setup_stack
<1> HIDE DEF str
<1>4. /\ DOMAIN words = {top - 8, str - 8, str - 16, str - 24, str - 32}
      /\ words[top - 8] = 0 /\ words[str - 8] = 0 /\ words[str - 16] = 0
      /\ words[str - 24] = str /\ words[str - 32] = 1
  BY <1>2 DEF FirstWords
<1>5. sp % 16 = 0 /\ sp - 8 = str - 40
  BY <1>2
<1> HIDE DEF words, sp
<1> QED
  BY <1>2, <1>3, <1>4, <1>5

-----------------------------------------------------------------------------
(* THE TABLES: module Descriptors *)

\* Eight bytes are a sequence.
LEMMA BytesSeq ==
  ASSUME NEW b \in [1 .. 8 -> 0 .. 255]
  PROVE  b \in Seq(Int) /\ Len(b) = 8
<1>1. PICK m \in Nat : m = 8
  OBVIOUS
<1>2. b \in [1 .. m -> Int]
  BY <1>1
<1>3. b \in Seq(Int) /\ Len(b) = m
  BY <1>2
<1> QED
  BY <1>1, <1>3

\* Two sequences are together the eight bytes they agree with.
LEMMA EightBytes ==
  ASSUME NEW b \in [1 .. 8 -> 0 .. 255], NEW t \in Seq(Int), NEW s, NEW w, NEW m \in {2, 4},
         Joins(t, s, w), Len(s) = m, Len(w) = 8 - m,
         \A k \in 1 .. m : s[k] = b[k],
         \A k \in 1 .. (8 - m) : w[k] = b[m + k]
  PROVE  t = b
<1>1. Len(t) = 8 /\ \A k \in 1 .. 8 : t[k] = b[k]
  BY DEF Joins
<1>2. t \in [1 .. Len(t) -> Int]
  BY LenProperties
<1>3. t \in [1 .. 8 -> Int]
  BY <1>1, <1>2
<1>4. t = [k \in 1 .. 8 |-> t[k]] /\ b = [k \in 1 .. 8 |-> b[k]]
  BY <1>3
<1> QED
  BY <1>1, <1>4

\* A sequence of sixteen bytes made of eight, four and four more.
LEMMA TssBytes ==
  ASSUME NEW tss \in [1 .. 8 -> 0 .. 255], NEW t, t = make_tss_desc(tss, <<103, 0, 0, 0>>)
  PROVE  /\ t \in Seq(Int) /\ Len(t) = 16
         /\ t[1] = 103 /\ t[2] = 0 /\ t[3] = tss[1] /\ t[4] = tss[2] /\ t[5] = tss[3]
         /\ t[6] = 137 /\ t[7] = 0 /\ t[8] = tss[4]
         /\ t[9] = tss[5] /\ t[10] = tss[6] /\ t[11] = tss[7] /\ t[12] = tss[8]
<1> DEFINE low == <<103, 0, tss[1], tss[2], tss[3], 137, Low(0), tss[4]>>
           high == SubSeq(tss, 5, 8)
           zeros == Zeros(4)
           most == low \o high
           d == most \o zeros
<1>1. t = d
  BY DEF make_tss_desc
<1>2. /\ low \in Seq(Int) /\ Len(low) = 8
      /\ low[1] = 103 /\ low[2] = 0 /\ low[3] = tss[1] /\ low[4] = tss[2] /\ low[5] = tss[3]
      /\ low[6] = 137 /\ low[7] = 0 /\ low[8] = tss[4]
  <2>1. Low(0) = 0
    BY DEF Low
  <2>2. tss[1] \in Int /\ tss[2] \in Int /\ tss[3] \in Int /\ tss[4] \in Int
    OBVIOUS
  <2> QED BY <2>1, <2>2
<1>3. /\ high \in Seq(Int) /\ Len(high) = 4
      /\ high[1] = tss[5] /\ high[2] = tss[6] /\ high[3] = tss[7] /\ high[4] = tss[8]
  <2>1. tss \in Seq(Int) /\ Len(tss) = 8
    BY BytesSeq
  <2>2. high \in Seq(Int) /\ Takes(high, tss, 5, 8)
    <3>1. 5 \in Nat \ {0} /\ 8 \in Nat /\ 5 <= 8 /\ 8 <= Len(tss)
      BY <2>1
    <3> QED BY <2>1, <3>1, Part, Zenon
  <2> HIDE DEF high
  <2> QED BY <2>2 DEF Takes
<1>4. zeros \in Seq(Int) /\ Len(zeros) = 4
  BY DEF Zeros
<1> HIDE DEF low, high, zeros
<1>5. most \in Seq(Int) /\ Joins(most, low, high)
  BY <1>2, <1>3, Joined
<1> HIDE DEF most
<1>6. d \in Seq(Int) /\ Joins(d, most, zeros)
  BY <1>4, <1>5, Joined
<1> HIDE DEF d
<1>7. /\ Len(most) = 12
      /\ \A k \in 1 .. 8 : most[k] = low[k]
      /\ most[9] = high[1] /\ most[10] = high[2] /\ most[11] = high[3] /\ most[12] = high[4]
  BY <1>2, <1>3, <1>5 DEF Joins
<1>8. Len(d) = 16 /\ \A k \in 1 .. 12 : d[k] = most[k]
  BY <1>4, <1>6, <1>7 DEF Joins
<1>9. /\ d[1] = low[1] /\ d[2] = low[2] /\ d[3] = low[3] /\ d[4] = low[4] /\ d[5] = low[5]
      /\ d[6] = low[6] /\ d[7] = low[7] /\ d[8] = low[8]
      /\ d[9] = most[9] /\ d[10] = most[10] /\ d[11] = most[11] /\ d[12] = most[12]
  BY <1>7, <1>8
<1>10. /\ d[1] = 103 /\ d[2] = 0 /\ d[3] = tss[1] /\ d[4] = tss[2] /\ d[5] = tss[3]
       /\ d[6] = 137 /\ d[7] = 0 /\ d[8] = tss[4]
  BY <1>2, <1>9
<1>11. d[9] = tss[5] /\ d[10] = tss[6] /\ d[11] = tss[7] /\ d[12] = tss[8]
  BY <1>3, <1>7, <1>9
<1> QED
  BY <1>1, <1>6, <1>8, <1>10, <1>11, ZenonT(60)

\* Eight bytes, those that are the access byte and the flags among them.
LEMMA DescBytes ==
  ASSUME NEW access \in Nat, NEW flags \in Nat, NEW limit \in {NoBytes, All}
  PROVE  LET d == make_desc(NoBytes, limit, access, flags)
         IN  /\ d \in Seq(Int) /\ Len(d) = 8
             /\ d[6] = access /\ d[7] = Halves(Low(limit[3]), Low(flags))
<1>1. Halves(Low(limit[3]), Low(flags)) \in Int
  BY DEF Halves, Low, NoBytes, All
<1>2. limit[1] \in Int /\ limit[2] \in Int
  BY DEF NoBytes, All
<1> QED
  BY <1>1, <1>2 DEF make_desc, NoBytes

\* Elements before and behind the seam.
LEMMA Seam ==
  ASSUME NEW t, NEW s, NEW w, NEW m \in Nat, NEW p \in Nat, Len(s) = m, Len(w) = p,
         Joins(t, s, w)
  PROVE  /\ Len(t) = m + p
         /\ \A k \in 1 .. m : t[k] = s[k]
         /\ \A k \in 1 .. p : t[m + k] = w[k]
  BY DEF Joins

\* Where the slots of the table are.
LEMMA SlotsLie ==
  ASSUME NEW tss \in [1 .. 8 -> 0 .. 255]
  PROVE  LET g == gdt_init(tss)
         IN  /\ g \in Seq(Int) /\ Len(g) = 64
             /\ \A k \in 1 .. 8 : g[k] = make_desc(NoBytes, NoBytes, 0, 0)[k]
             /\ \A k \in 1 .. 8 : g[8 + k] = make_desc(NoBytes, All, 154, 10)[k]
             /\ \A k \in 1 .. 8 : g[16 + k] = make_desc(NoBytes, All, 146, 12)[k]
             /\ \A k \in 1 .. 8 : g[24 + k] = make_desc(NoBytes, All, 250, 10)[k]
             /\ \A k \in 1 .. 8 : g[32 + k] = make_desc(NoBytes, All, 242, 12)[k]
             /\ \A k \in 1 .. 16 : g[40 + k] = make_tss_desc(tss, <<103, 0, 0, 0>>)[k]
<1> DEFINE d0 == make_desc(NoBytes, NoBytes, 0, 0)
           d1 == make_desc(NoBytes, All, 154, 10)
           d2 == make_desc(NoBytes, All, 146, 12)
           d3 == make_desc(NoBytes, All, 250, 10)
           d4 == make_desc(NoBytes, All, 242, 12)
           d5 == make_tss_desc(tss, <<103, 0, 0, 0>>)
           d6 == Zeros(8)
           t1 == d0 \o d1
           t2 == t1 \o d2
           t3 == t2 \o d3
           t4 == t3 \o d4
           t5 == t4 \o d5
           t6 == t5 \o d6
<1>1. gdt_init(tss) = t6
  BY DEF gdt_init
<1>2. /\ d0 \in Seq(Int) /\ Len(d0) = 8 /\ d1 \in Seq(Int) /\ Len(d1) = 8
      /\ d2 \in Seq(Int) /\ Len(d2) = 8 /\ d3 \in Seq(Int) /\ Len(d3) = 8
      /\ d4 \in Seq(Int) /\ Len(d4) = 8
  <2>1. \A access, flags \in Nat, limit \in {NoBytes, All} :
          /\ make_desc(NoBytes, limit, access, flags) \in Seq(Int)
          /\ Len(make_desc(NoBytes, limit, access, flags)) = 8
    BY DescBytes
  <2> HIDE DEF t1, t2, t3, t4, t5, t6
  <2>2. d0 \in Seq(Int) /\ Len(d0) = 8
    BY <2>1
  <2>3. d1 \in Seq(Int) /\ Len(d1) = 8
    BY <2>1, ZenonT(60)
  <2>4. d2 \in Seq(Int) /\ Len(d2) = 8
    BY <2>1, ZenonT(60)
  <2>5. d3 \in Seq(Int) /\ Len(d3) = 8
    <3>1. 250 \in Nat /\ 10 \in Nat /\ All \in {NoBytes, All}
      OBVIOUS
    <3> QED BY <2>1, <3>1, ZenonT(60)
  <2>6. d4 \in Seq(Int) /\ Len(d4) = 8
    <3>1. 242 \in Nat /\ 12 \in Nat /\ All \in {NoBytes, All}
      OBVIOUS
    <3> QED BY <2>1, <3>1, ZenonT(60)
  <2> QED BY <2>2, <2>3, <2>4, <2>5, <2>6
<1>3. d5 \in Seq(Int) /\ Len(d5) = 16
  BY TssBytes
<1>4. d6 \in Seq(Int) /\ Len(d6) = 8
  BY DEF Zeros
<1> HIDE DEF d0, d1, d2, d3, d4, d5, d6
<1>5. t1 \in Seq(Int) /\ Joins(t1, d0, d1)
  BY <1>2, Joined
<1> HIDE DEF t1
<1>6. t2 \in Seq(Int) /\ Joins(t2, t1, d2)
  BY <1>2, <1>5, Joined
<1> HIDE DEF t2
<1>7. t3 \in Seq(Int) /\ Joins(t3, t2, d3)
  BY <1>2, <1>6, Joined
<1> HIDE DEF t3
<1>8. t4 \in Seq(Int) /\ Joins(t4, t3, d4)
  BY <1>2, <1>7, Joined
<1> HIDE DEF t4
<1>9. t5 \in Seq(Int) /\ Joins(t5, t4, d5)
  BY <1>3, <1>8, Joined
<1> HIDE DEF t5
<1>10. t6 \in Seq(Int) /\ Joins(t6, t5, d6)
  BY <1>4, <1>9, Joined
<1> HIDE DEF t6
<1>11. /\ Len(t1) = 16
       /\ \A k \in 1 .. 8 : t1[k] = d0[k]
       /\ \A k \in 1 .. 8 : t1[8 + k] = d1[k]
  BY <1>2, <1>5 DEF Joins
<1>12. /\ Len(t2) = 24
       /\ \A k \in 1 .. 16 : t2[k] = t1[k]
       /\ \A k \in 1 .. 8 : t2[16 + k] = d2[k]
  BY <1>2, <1>6, <1>11 DEF Joins
<1>13. /\ Len(t3) = 32
       /\ \A k \in 1 .. 24 : t3[k] = t2[k]
       /\ \A k \in 1 .. 8 : t3[24 + k] = d3[k]
  BY <1>2, <1>7, <1>12 DEF Joins
<1>14. /\ Len(t4) = 40
       /\ \A k \in 1 .. 32 : t4[k] = t3[k]
       /\ \A k \in 1 .. 8 : t4[32 + k] = d4[k]
  BY <1>2, <1>8, <1>13 DEF Joins
<1>15. /\ Len(t5) = 56
       /\ \A k \in 1 .. 40 : t5[k] = t4[k]
       /\ \A k \in 1 .. 16 : t5[40 + k] = d5[k]
  BY <1>3, <1>9, <1>14 DEF Joins
<1>16. Len(t6) = 64 /\ \A k \in 1 .. 56 : t6[k] = t5[k]
  BY <1>4, <1>10, <1>15 DEF Joins
<1>17. \A k \in 1 .. 8 :
         /\ t6[k] = d0[k] /\ t6[8 + k] = d1[k] /\ t6[16 + k] = d2[k]
         /\ t6[24 + k] = d3[k] /\ t6[32 + k] = d4[k]
  <2> SUFFICES ASSUME NEW k \in 1 .. 8
               PROVE  /\ t6[k] = d0[k] /\ t6[8 + k] = d1[k] /\ t6[16 + k] = d2[k]
                      /\ t6[24 + k] = d3[k] /\ t6[32 + k] = d4[k]
    OBVIOUS
  <2>1. /\ 8 + k \in 1 .. 16 /\ 16 + k \in 1 .. 24 /\ 24 + k \in 1 .. 32 /\ 32 + k \in 1 .. 40
        /\ k \in 1 .. 16
    OBVIOUS
  <2>2. /\ t4[k] = t1[k] /\ t4[8 + k] = t1[8 + k] /\ t4[16 + k] = t2[16 + k]
        /\ t4[24 + k] = t3[24 + k]
    BY <1>12, <1>13, <1>14, <2>1
  <2>3. /\ t6[k] = t4[k] /\ t6[8 + k] = t4[8 + k] /\ t6[16 + k] = t4[16 + k]
        /\ t6[24 + k] = t4[24 + k] /\ t6[32 + k] = t4[32 + k]
    BY <1>15, <1>16, <2>1
  <2> QED BY <1>11, <1>12, <1>13, <1>14, <2>2, <2>3
<1>18. \A k \in 1 .. 16 : t6[40 + k] = d5[k]
  <2>1. ASSUME NEW k \in 1 .. 16 PROVE t6[40 + k] = t5[40 + k]
    BY <1>16
  <2> QED BY <1>15, <2>1
<1> QED
  BY <1>1, <1>10, <1>16, <1>17, <1>18 DEF d0, d1, d2, d3, d4, d5

\* The parts of an access byte and of a descriptor, one by one.
LEMMA AccessReads ==
  ASSUME NEW b
  PROVE  /\ (Access(b).present <=> High(b) \div 8 = 1)
         /\ Access(b).ring = (High(b) \div 2) % 4
         /\ (Access(b).system <=> High(b) % 2 = 0)
         /\ Access(b).type = Low(b)
<1>1. (Access(b).present <=> High(b) \div 8 = 1)
  BY DEF Access
<1>2. Access(b).ring = (High(b) \div 2) % 4
  BY DEF Access
<1>3. (Access(b).system <=> High(b) % 2 = 0)
  BY DEF Access
<1>4. Access(b).type = Low(b)
  BY DEF Access
<1> QED
  BY <1>1, <1>2, <1>3, <1>4

LEMMA SegmentReads ==
  ASSUME NEW d
  PROVE  /\ Segment(d).access = Access(d[6])
         /\ Segment(d).limit = <<d[1], d[2], Low(d[7])>>
         /\ (Segment(d).pages <=> High(d[7]) \div 8 = 1)
         /\ (Segment(d).default32 <=> (High(d[7]) \div 4) % 2 = 1)
         /\ (Segment(d).long <=> (High(d[7]) \div 2) % 2 = 1)
<1>1. Segment(d).access = Access(d[6])
  BY DEF Segment
<1>2. Segment(d).limit = <<d[1], d[2], Low(d[7])>>
  BY DEF Segment
<1>3. (Segment(d).pages <=> High(d[7]) \div 8 = 1)
  BY DEF Segment
<1>4. (Segment(d).default32 <=> (High(d[7]) \div 4) % 2 = 1)
  BY DEF Segment
<1>5. (Segment(d).long <=> (High(d[7]) \div 2) % 2 = 1)
  BY DEF Segment
<1> QED
  BY <1>1, <1>2, <1>3, <1>4, <1>5

\* The bytes that occur.
LEMMA BytesRead ==
  /\ High(0) = 0 /\ Low(0) = 0
  /\ High(154) = 9 /\ Low(154) = 10 /\ High(146) = 9 /\ Low(146) = 2
  /\ High(250) = 15 /\ Low(250) = 10 /\ High(242) = 15 /\ Low(242) = 2
  /\ High(238) = 14 /\ Low(238) = 14 /\ High(142) = 8 /\ Low(142) = 14
  /\ High(Halves(Low(255), Low(10))) = 10
  BY DEF High, Low, Halves

\* The quotients and remainders that occur.
LEMMA PartsRead ==
  /\ 0 \div 8 = 0 /\ 8 \div 8 = 1 /\ 9 \div 8 = 1 /\ 14 \div 8 = 1 /\ 15 \div 8 = 1
  /\ 10 \div 4 = 2 /\ 10 \div 2 = 5 /\ 8 \div 2 = 4 /\ 9 \div 2 = 4 /\ 14 \div 2 = 7
  /\ 15 \div 2 = 7
  /\ 4 % 4 = 0 /\ 7 % 4 = 3 /\ 9 % 2 = 1 /\ 15 % 2 = 1 /\ 8 % 2 = 0 /\ 14 % 2 = 0
  /\ 2 % 2 = 0 /\ 5 % 2 = 1
  OBVIOUS

\* Code and data of either ring, and the null descriptor.
LEMMA SlotsRead ==
  ASSUME NEW tss \in [1 .. 8 -> 0 .. 255]
  PROVE  LET g == gdt_init(tss)
         IN  /\ IsCode(Slot(g, 8), 0) /\ IsData(Slot(g, 16), 0)
             /\ IsCode(Slot(g, 24), 3) /\ IsData(Slot(g, 32), 3)
             /\ ~Segment(Slot(g, 0)).access.present
<1> DEFINE g == gdt_init(tss)
           Holds(at, d) == \A k \in 1 .. 8 : g[at + k] = d[k]
<1>1. g \in Seq(Int) /\ Len(g) = 64
  BY SlotsLie, SMTT(60)
<1>2. /\ Holds(0, make_desc(NoBytes, NoBytes, 0, 0))
      /\ Holds(8, make_desc(NoBytes, All, 154, 10))
      /\ Holds(16, make_desc(NoBytes, All, 146, 12))
      /\ Holds(24, make_desc(NoBytes, All, 250, 10))
      /\ Holds(32, make_desc(NoBytes, All, 242, 12))
  BY SlotsLie
<1> HIDE DEF g
<1>3. ASSUME NEW at \in {0, 8, 16, 24, 32}, NEW d, Holds(at, d)
      PROVE  Slot(g, at)[6] = d[6] /\ Slot(g, at)[7] = d[7]
  <2>1. at + 1 \in Nat \ {0} /\ at + 8 \in Nat /\ at + 1 <= at + 8 /\ at + 8 <= Len(g)
    BY <1>1
  <2>2. Takes(SubSeq(g, at + 1, at + 8), g, at + 1, at + 8)
    BY <1>1, <2>1, Part, Zenon
  <2>3. Takes(Slot(g, at), g, at + 1, at + 8)
    BY <2>2 DEF Slot
  <2> HIDE DEF Holds
  <2>4. Slot(g, at)[6] = g[at + 6] /\ Slot(g, at)[7] = g[at + 7]
    BY <2>3 DEF Takes
  <2> QED BY <1>3, <2>4 DEF Holds
<1>4. ASSUME NEW d, d[6] = 0 PROVE ~Segment(d).access.present
  <2>1. Segment(d).access = Access(d[6])
    BY SegmentReads, Zenon
  <2> QED BY <1>4, <2>1, AccessReads, BytesRead, PartsRead
<1>5. ASSUME NEW d, d[6] = 154, d[7] = Halves(Low(255), Low(10)) PROVE IsCode(d, 0)
  <2>1. Segment(d).access = Access(154) /\ Segment(d).long /\ ~Segment(d).default32
    <3>1. /\ Segment(d).access = Access(d[6])
          /\ Segment(d).long <=> ((High(d[7]) \div 2) % 2 = 1)
          /\ Segment(d).default32 <=> ((High(d[7]) \div 4) % 2 = 1)
      BY SegmentReads, Zenon
    <3> QED BY <1>5, <3>1, BytesRead, PartsRead
  <2>2. /\ Access(154).present /\ ~Access(154).system /\ Access(154).type = 10
        /\ Access(154).ring = 0
    BY AccessReads, BytesRead, PartsRead
  <2> QED BY <2>1, <2>2 DEF IsCode, Code
<1>6. ASSUME NEW d, d[6] = 146 PROVE IsData(d, 0)
  <2>1. Segment(d).access = Access(146)
    <3>1. Segment(d).access = Access(d[6])
      BY SegmentReads, Zenon
    <3> QED BY <1>6, <3>1
  <2>2. /\ Access(146).present /\ ~Access(146).system /\ Access(146).type = 2
        /\ Access(146).ring = 0
    BY AccessReads, BytesRead, PartsRead
  <2> QED BY <2>1, <2>2 DEF IsData, DataRW
<1>7. ASSUME NEW d, d[6] = 250, d[7] = Halves(Low(255), Low(10)) PROVE IsCode(d, 3)
  <2>1. Segment(d).access = Access(250) /\ Segment(d).long /\ ~Segment(d).default32
    <3>1. /\ Segment(d).access = Access(d[6])
          /\ Segment(d).long <=> ((High(d[7]) \div 2) % 2 = 1)
          /\ Segment(d).default32 <=> ((High(d[7]) \div 4) % 2 = 1)
      BY SegmentReads, Zenon
    <3> QED BY <1>7, <3>1, BytesRead, PartsRead
  <2>2. /\ Access(250).present /\ ~Access(250).system /\ Access(250).type = 10
        /\ Access(250).ring = 3
    BY AccessReads, BytesRead, PartsRead
  <2> QED BY <2>1, <2>2 DEF IsCode, Code
<1>8. ASSUME NEW d, d[6] = 242 PROVE IsData(d, 3)
  <2>1. Segment(d).access = Access(242)
    <3>1. Segment(d).access = Access(d[6])
      BY SegmentReads, Zenon
    <3> QED BY <1>8, <3>1
  <2>2. /\ Access(242).present /\ ~Access(242).system /\ Access(242).type = 2
        /\ Access(242).ring = 3
    BY AccessReads, BytesRead, PartsRead
  <2> QED BY <2>1, <2>2 DEF IsData, DataRW
<1>9. /\ make_desc(NoBytes, NoBytes, 0, 0)[6] = 0
      /\ make_desc(NoBytes, All, 154, 10)[6] = 154
      /\ make_desc(NoBytes, All, 154, 10)[7] = Halves(Low(255), Low(10))
      /\ make_desc(NoBytes, All, 146, 12)[6] = 146
      /\ make_desc(NoBytes, All, 250, 10)[6] = 250
      /\ make_desc(NoBytes, All, 250, 10)[7] = Halves(Low(255), Low(10))
      /\ make_desc(NoBytes, All, 242, 12)[6] = 242
  BY DEF make_desc, All, NoBytes
<1> HIDE DEF Holds
<1>10. Slot(g, 0)[6] = 0
  BY <1>2, <1>3, <1>9
<1>11. Slot(g, 8)[6] = 154 /\ Slot(g, 8)[7] = Halves(Low(255), Low(10))
  BY <1>2, <1>3, <1>9
<1>12. Slot(g, 16)[6] = 146 /\ Slot(g, 32)[6] = 242
  BY <1>2, <1>3, <1>9
<1>13. Slot(g, 24)[6] = 250 /\ Slot(g, 24)[7] = Halves(Low(255), Low(10))
  BY <1>2, <1>3, <1>9
<1> QED
  BY <1>4, <1>5, <1>6, <1>7, <1>8, <1>10, <1>11, <1>12, <1>13, SMTT(60) DEF g

\* The two slots of the task state segment.
LEMMA TssReads ==
  ASSUME NEW tss \in [1 .. 8 -> 0 .. 255]
  PROVE  LET pair == SlotPair(gdt_init(tss), 40)
         IN  /\ SystemBase(pair) = tss /\ Segment(pair).limit = <<103, 0, 0>>
             /\ ~Segment(pair).pages /\ Segment(pair).access = Access(137)
<1> DEFINE g == gdt_init(tss)
           d == make_tss_desc(tss, <<103, 0, 0, 0>>)
           pair == SlotPair(g, 40)
           high == SubSeq(pair, 9, 12)
           low == <<pair[3], pair[4], pair[5], pair[8]>>
<1>1. g \in Seq(Int) /\ Len(g) = 64 /\ \A k \in 1 .. 16 : g[40 + k] = d[k]
  BY SlotsLie
<1>2. /\ d[1] = 103 /\ d[2] = 0 /\ d[3] = tss[1] /\ d[4] = tss[2] /\ d[5] = tss[3]
      /\ d[6] = 137 /\ d[7] = 0 /\ d[8] = tss[4]
      /\ d[9] = tss[5] /\ d[10] = tss[6] /\ d[11] = tss[7] /\ d[12] = tss[8]
  <2> HIDE DEF g, pair, high, low
  <2> QED BY TssBytes
<1> HIDE DEF g, d
<1>3. pair \in Seq(Int) /\ Takes(pair, g, 40 + 1, 40 + 16)
  <2>1. 40 + 1 \in Nat \ {0} /\ 40 + 16 \in Nat /\ 40 + 1 <= 40 + 16 /\ 40 + 16 <= Len(g)
    BY <1>1
  <2>2. /\ SubSeq(g, 40 + 1, 40 + 16) \in Seq(Int)
        /\ Takes(SubSeq(g, 40 + 1, 40 + 16), g, 40 + 1, 40 + 16)
    BY <1>1, <2>1, Part, Zenon
  <2> QED BY <2>2 DEF SlotPair
<1> HIDE DEF pair
<1>4. Len(pair) = 16 /\ \A k \in 1 .. 16 : pair[k] = d[k]
  <2>1. Len(pair) = 16 /\ \A k \in 1 .. 16 : pair[k] = g[40 + k]
    BY <1>3 DEF Takes
  <2> QED BY <1>1, <2>1
<1>5. /\ pair[1] = 103 /\ pair[2] = 0 /\ pair[3] = tss[1] /\ pair[4] = tss[2]
      /\ pair[5] = tss[3] /\ pair[6] = 137 /\ pair[7] = 0 /\ pair[8] = tss[4]
      /\ pair[9] = tss[5] /\ pair[10] = tss[6] /\ pair[11] = tss[7] /\ pair[12] = tss[8]
  BY <1>2, <1>4
<1>6. high \in Seq(Int) /\ Takes(high, pair, 9, 12)
  <2>1. 9 \in Nat \ {0} /\ 12 \in Nat /\ 9 <= 12 /\ 12 <= Len(pair)
    BY <1>4
  <2> QED BY <1>3, <2>1, Part, Zenon
<1> HIDE DEF high
<1>7. /\ Len(high) = 4 /\ high[1] = tss[5] /\ high[2] = tss[6] /\ high[3] = tss[7]
      /\ high[4] = tss[8]
  BY <1>5, <1>6 DEF Takes
<1>8. /\ low \in Seq(Int) /\ Len(low) = 4 /\ low[1] = tss[1] /\ low[2] = tss[2]
      /\ low[3] = tss[3] /\ low[4] = tss[4]
  BY <1>5
<1> HIDE DEF low
<1>9. low \o high \in Seq(Int) /\ Joins(low \o high, low, high)
  BY <1>6, <1>8, Joined
<1>10. low \o high = tss
  <2>1. 4 \in {2, 4} /\ Len(high) = 8 - 4
    BY <1>7
  <2>2. /\ \A k \in 1 .. 4 : low[k] = tss[k]
        /\ \A k \in 1 .. (8 - 4) : high[k] = tss[4 + k]
    BY <1>7, <1>8
  <2> HIDE DEF Joins
  <2> QED BY <1>8, <1>9, <2>1, <2>2, EightBytes, Zenon
<1>11. SystemBase(pair) = low \o high
  BY DEF SystemBase, Segment, low, high
<1>12. Segment(pair).limit = <<103, 0, 0>> /\ ~Segment(pair).pages
  <2>1. /\ Segment(pair).limit = <<pair[1], pair[2], Low(pair[7])>>
        /\ Segment(pair).pages <=> (High(pair[7]) \div 8 = 1)
    BY SegmentReads, Zenon
  <2> QED BY <1>5, <2>1, BytesRead, PartsRead
<1>13. Segment(pair).access = Access(137)
  BY <1>5 DEF Segment
<1> QED
  BY <1>10, <1>11, <1>12, <1>13, SMTT(60) DEF pair, g

\* The gate leads to its handler, on the stack of the task, from ring 3 for 0x80 only.
LEMMA GateReads ==
  ASSUME NEW v, NEW h \in [1 .. 8 -> 0 .. 255]
  PROVE  LET gate == Gate(idt_init(v, h))
         IN  /\ gate.offset = h /\ gate.selector = 8 /\ gate.ist = 0
             /\ gate.access.present /\ gate.access.system /\ gate.access.type = 14
             /\ gate.access.ring = IF v = 128 THEN 3 ELSE 0
<1> DEFINE attr == IF v = 128 THEN 238 ELSE 142
           first == <<h[1], h[2], 8, 0, 0, attr>>
           rest == SubSeq(h, 3, 8)
           zeros == Zeros(4)
           most == first \o rest
           g == most \o zeros
           low == <<g[1], g[2]>>
           high == SubSeq(g, 7, 12)
<1>1. idt_init(v, h) = g
  BY DEF idt_init, idt_set_gate
<1>2. attr \in Int
  OBVIOUS
<1> HIDE DEF attr
<1>3. /\ first \in Seq(Int) /\ Len(first) = 6 /\ first[1] = h[1] /\ first[2] = h[2]
      /\ first[3] = 8 /\ first[4] = 0 /\ first[5] = 0 /\ first[6] = attr
  BY <1>2
<1>4. rest \in Seq(Int) /\ Takes(rest, h, 3, 8)
  <2>1. h \in Seq(Int) /\ Len(h) = 8
    BY BytesSeq
  <2>2. 3 \in Nat \ {0} /\ 8 \in Nat /\ 3 <= 8 /\ 8 <= Len(h)
    BY <2>1
  <2> QED BY <2>1, <2>2, Part, Zenon
<1>5. zeros \in Seq(Int) /\ Len(zeros) = 4
  BY DEF Zeros
<1> HIDE DEF first, rest, zeros
<1>6. most \in Seq(Int) /\ Joins(most, first, rest)
  BY <1>3, <1>4, Joined
<1> HIDE DEF most
<1>7. g \in Seq(Int) /\ Joins(g, most, zeros)
  BY <1>5, <1>6, Joined
<1> HIDE DEF g
<1>8. /\ Len(rest) = 6 /\ rest[1] = h[3] /\ rest[2] = h[4] /\ rest[3] = h[5] /\ rest[4] = h[6]
      /\ rest[5] = h[7] /\ rest[6] = h[8]
  BY <1>4 DEF Takes
<1>9. /\ Len(most) = 12 /\ \A k \in 1 .. 6 : most[k] = first[k]
      /\ most[7] = rest[1] /\ most[8] = rest[2] /\ most[9] = rest[3] /\ most[10] = rest[4]
      /\ most[11] = rest[5] /\ most[12] = rest[6]
  BY <1>3, <1>6, <1>8 DEF Joins
<1>10. Len(g) = 16 /\ \A k \in 1 .. 12 : g[k] = most[k]
  BY <1>5, <1>7, <1>9 DEF Joins
<1>11. /\ g[1] = h[1] /\ g[2] = h[2] /\ g[3] = 8 /\ g[4] = 0 /\ g[5] = 0 /\ g[6] = attr
       /\ g[7] = h[3] /\ g[8] = h[4] /\ g[9] = h[5] /\ g[10] = h[6] /\ g[11] = h[7]
       /\ g[12] = h[8]
  <2>1. /\ g[1] = first[1] /\ g[2] = first[2] /\ g[3] = first[3] /\ g[4] = first[4]
        /\ g[5] = first[5] /\ g[6] = first[6]
    BY <1>9, <1>10
  <2>2. /\ g[7] = rest[1] /\ g[8] = rest[2] /\ g[9] = rest[3] /\ g[10] = rest[4]
        /\ g[11] = rest[5] /\ g[12] = rest[6]
    BY <1>9, <1>10
  <2> QED BY <1>3, <1>8, <2>1, <2>2
<1>12. high \in Seq(Int) /\ Takes(high, g, 7, 12)
  <2>1. 7 \in Nat \ {0} /\ 12 \in Nat /\ 7 <= 12 /\ 12 <= Len(g)
    BY <1>10
  <2> QED BY <1>7, <2>1, Part, Zenon
<1> HIDE DEF high
<1>13. /\ Len(high) = 6 /\ high[1] = h[3] /\ high[2] = h[4] /\ high[3] = h[5]
       /\ high[4] = h[6] /\ high[5] = h[7] /\ high[6] = h[8]
  BY <1>11, <1>12, SMTT(60) DEF Takes
<1>14. low \in Seq(Int) /\ Len(low) = 2 /\ low[1] = h[1] /\ low[2] = h[2]
  BY <1>11
<1> HIDE DEF low
<1>15. low \o high \in Seq(Int) /\ Joins(low \o high, low, high)
  BY <1>12, <1>14, Joined
<1>16. low \o high = h
  <2>1. 2 \in {2, 4} /\ Len(high) = 8 - 2
    BY <1>13
  <2>2. /\ \A k \in 1 .. 2 : low[k] = h[k]
        /\ \A k \in 1 .. (8 - 2) : high[k] = h[2 + k]
    BY <1>13, <1>14
  <2> QED BY <1>14, <1>15, <2>1, <2>2, EightBytes, Zenon
<1>17. Gate(g).offset = h /\ Gate(g).selector = 8 /\ Gate(g).ist = 0
  <2>1. Gate(g).offset = low \o high
    BY DEF Gate, low, high
  <2>2. Gate(g).selector = 8 /\ Gate(g).ist = 0
    BY <1>11 DEF Gate
  <2> QED BY <1>16, <2>1, <2>2
<1>18. Gate(g).access = Access(attr)
  BY <1>11 DEF Gate
<1>19. /\ Access(attr).present /\ Access(attr).system /\ Access(attr).type = 14
       /\ Access(attr).ring = IF v = 128 THEN 3 ELSE 0
  <2>1. CASE v = 128
    <3>1. attr = 238
      BY <2>1 DEF attr
    <3> QED BY <2>1, <3>1, AccessReads, BytesRead, PartsRead
  <2>2. CASE v # 128
    <3>1. attr = 142
      BY <2>2 DEF attr
    <3> QED BY <2>2, <3>1, AccessReads, BytesRead, PartsRead
  <2> QED BY <2>1, <2>2
<1> QED
  BY <1>1, <1>17, <1>18, <1>19

-----------------------------------------------------------------------------
(* DRAWING: module Framebuffer *)

Places == 0 .. (Pitch * Height - 1)

\* The place p shows a pixel of the rectangle.
Inside(x, y, w, h, p) ==
  \E i \in 0 .. (w - 1), j \in 0 .. (h - 1) :
    /\ (x + i) % U32 < Width /\ (y + j) % U32 < Height
    /\ p = Place(Pitch, (x + i) % U32, (y + j) % U32)

\* What a framebuffer that was black may hold when only the rectangle was drawn in.
Drawings(x, y, w, h) ==
  {m \in [Places -> {0, 1}] : \A p \in Places : m[p] # 0 => Inside(x, y, w, h, p)}

LEMMA BlackIs ==
  ASSUME NEW x, NEW y, NEW w, NEW h
  PROVE  Black \in Drawings(x, y, w, h)
  BY DEF Black, Drawings, Places

\* A pixel of the rectangle that is put.
LEMMA PutInside ==
  ASSUME NEW x \in Nat, NEW y \in Nat, NEW w, NEW h, NEW m \in Drawings(x, y, w, h),
         NEW i \in 0 .. (w - 1), NEW j \in 0 .. (h - 1), NEW c \in {0, 1}
  PROVE  fb_put_pixel(m, Pitch, (x + i) % U32, (y + j) % U32, c) \in Drawings(x, y, w, h)
<1> DEFINE X == (x + i) % U32
           Y == (y + j) % U32
           new == fb_put_pixel(m, Pitch, X, Y, c)
<1>1. CASE X >= Width \/ Y >= Height
  BY <1>1 DEF fb_put_pixel
<1>2. CASE ~ (X >= Width \/ Y >= Height)
  <2> DEFINE at == Place(Pitch, X, Y)
  <2>1. Inside(x, y, w, h, at)
    <3>1. x + i \in Nat /\ y + j \in Nat
      OBVIOUS
    <3>2. X \in Nat /\ Y \in Nat /\ Width \in Nat /\ Height \in Nat
      BY <3>1, FramebufferAssumption, Divided
    <3>3. X < Width /\ Y < Height
      BY <1>2, <3>2
    <3> QED BY <3>3 DEF Inside
  <2>2. new = [m EXCEPT ![at] = c]
    BY <1>2 DEF fb_put_pixel
  <2> HIDE DEF new, at
  <2>3. m \in [Places -> {0, 1}] /\ \A p \in Places : m[p] # 0 => Inside(x, y, w, h, p)
    BY DEF Drawings
  <2>4. new \in [Places -> {0, 1}] /\ \A p \in Places : new[p] = m[p] \/ p = at
    BY <2>2, <2>3
  <2>5. new \in Drawings(x, y, w, h)
    BY <2>1, <2>3, <2>4 DEF Drawings
  <2> QED BY <2>5 DEF new
<1> QED
  BY <1>1, <1>2

\* The rectangle that fb_fill_rect fills: nothing else, and all of it where the far
\* corner is within range.
LEMMA Fills ==
  ASSUME NEW x \in 0 .. (U32 - 1), NEW y \in 0 .. (U32 - 1), NEW w \in Nat, NEW h \in Nat
  PROVE  LET new == fb_fill_rect(Black, Pitch, x, y, w, h, 1)
         IN  /\ new \in Drawings(x, y, w, h)
             /\ x + w < U32 /\ y + h < U32 =>
                  \A p : Inside(x, y, w, h, p) => new[p] = 1
<1> DEFINE new == fb_fill_rect(Black, Pitch, x, y, w, h, 1)
<1>1. /\ U32 \in Nat \ {0} /\ Width \in Nat /\ Height \in Nat
      /\ Pitch = Width + 1
  BY FramebufferAssumption DEF Pitch
<1>2. new = [p \in Places |-> IF Covers(Pitch, x, y, w, h, p) THEN 1 ELSE 0]
  BY DEF fb_fill_rect, Black, Places
<1>3. \A p \in Places : /\ p % Pitch \in Nat /\ p \div Pitch \in Nat
                        /\ p = (p \div Pitch) * Pitch + (p % Pitch)
  <2> SUFFICES ASSUME NEW p \in Places
               PROVE  /\ p % Pitch \in Nat /\ p \div Pitch \in Nat
                      /\ p = (p \div Pitch) * Pitch + (p % Pitch)
    OBVIOUS
  <2>1. p \in Nat /\ Pitch \in Nat \ {0}
    BY <1>1 DEF Places
  <2>2. \A q \in Nat : /\ q \div Pitch \in Nat /\ q % Pitch \in 0 .. (Pitch - 1)
                      /\ q = (q \div Pitch) * Pitch + (q % Pitch)
    <3> HIDE <1>2
    <3> QED BY <2>1, Divided
  <2> QED BY <2>1, <2>2
<1>4. ASSUME NEW a \in 0 .. (U32 - 1), NEW v \in Nat, NEW k \in Nat, NEW b \in Nat,
             Counts(a, v, b, k)
      PROVE  k - a \in 0 .. (v - 1) /\ (a + (k - a)) % U32 = k /\ k < b
  <2>1. a <= k /\ k < (a + v) % U32 /\ k < b
    BY <1>4 DEF Counts
  <2>2. (a + v) % U32 \in 0 .. (U32 - 1) /\ (a + v) % U32 <= a + v
    <3>1. a + v \in Nat
      BY <1>1
    <3> QED BY <1>1, <3>1, Divided
  <2>3. k < U32 /\ k % U32 = k
    <3>1. k < U32
      BY <1>1, <2>1, <2>2
    <3> QED BY <1>1, <3>1, Divided
  <2>4. a + (k - a) = k
    OBVIOUS
  <2>5. k - a \in 0 .. (v - 1)
    BY <1>1, <2>1, <2>2
  <2> QED BY <2>1, <2>3, <2>4, <2>5
<1>5. \A p \in Places : Covers(Pitch, x, y, w, h, p) => Inside(x, y, w, h, p)
  <2> SUFFICES ASSUME NEW p \in Places, Covers(Pitch, x, y, w, h, p)
               PROVE  Inside(x, y, w, h, p)
    OBVIOUS
  <2> DEFINE X == p % Pitch
             Y == p \div Pitch
  <2>1. Counts(x, w, Width, X) /\ Counts(y, h, Height, Y) /\ X \in Nat /\ Y \in Nat
        /\ p = Place(Pitch, X, Y)
    BY <1>3 DEF Covers, Place
  <2> HIDE DEF X, Y
  <2>2. /\ X - x \in 0 .. (w - 1) /\ (x + (X - x)) % U32 = X /\ X < Width
        /\ Y - y \in 0 .. (h - 1) /\ (y + (Y - y)) % U32 = Y /\ Y < Height
    BY <1>1, <1>4, <2>1
  <2> QED BY <2>1, <2>2 DEF Inside
<1>6. new \in Drawings(x, y, w, h)
  <2> HIDE DEF new
  <2> QED BY <1>2, <1>5 DEF Drawings
<1>7. ASSUME x + w < U32, y + h < U32, NEW p, Inside(x, y, w, h, p)
      PROVE  new[p] = 1
  <2>1. PICK i \in 0 .. (w - 1), j \in 0 .. (h - 1) :
          /\ (x + i) % U32 < Width /\ (y + j) % U32 < Height
          /\ p = Place(Pitch, (x + i) % U32, (y + j) % U32)
    BY <1>7 DEF Inside
  <2> DEFINE X == x + i
             Y == y + j
  <2>2. X \in Nat /\ Y \in Nat /\ X < U32 /\ Y < U32 /\ X < x + w /\ Y < y + h /\ x <= X /\ y <= Y
    BY <1>1, <1>7
  <2>3. X % U32 = X /\ Y % U32 = Y /\ (x + w) % U32 = x + w /\ (y + h) % U32 = y + h
    <3>1. x + w \in Nat /\ y + h \in Nat
      OBVIOUS
    <3> HIDE DEF X, Y
    <3> QED BY <1>1, <1>7, <2>2, <3>1, Divided
  <2>4. X < Width /\ Y < Height /\ p = Y * Pitch + X
    BY <2>1, <2>3 DEF Place
  <2> HIDE DEF X, Y
  <2>5. p % Pitch = X /\ p \div Pitch = Y
    <3>1. X \in 0 .. (Pitch - 1) /\ Pitch \in Nat \ {0}
      BY <1>1, <2>2, <2>4
    <3>2. (Y * Pitch + X) % Pitch = X /\ (Y * Pitch + X) \div Pitch = Y
      BY <2>2, <3>1, DividedOnce
    <3> QED BY <2>4, <3>2
  <2>6. p \in Places
    <3>1. (Y + 1) * Pitch <= Height * Pitch
      BY <1>1, <2>2, <2>4
    <3>2. (Y + 1) * Pitch = Y * Pitch + Pitch /\ Height * Pitch = Pitch * Height
          /\ Y * Pitch \in Nat /\ Pitch * Height \in Nat
      BY <1>1, <2>2
    <3> QED BY <1>1, <2>2, <2>4, <3>1, <3>2 DEF Places
  <2>7. Counts(x, w, Width, X) /\ Counts(y, h, Height, Y)
    BY <2>2, <2>3, <2>4 DEF Counts
  <2>8. Covers(Pitch, x, y, w, h, p)
    BY <2>5, <2>7 DEF Covers
  <2> QED BY <1>2, <2>6, <2>8
<1> QED
  BY <1>6, <1>7

\* The k-th glyph of a text of two, its k-th pixel: both within the rectangle.
LEMMA GlyphInside ==
  ASSUME NEW x \in Nat, NEW y \in Nat, NEW g \in 0 .. 1, NEW set, NEW opaque \in BOOLEAN,
         NEW m \in Drawings(x, y, 2 * GlyphW, GlyphH)
  PROVE  DrawGlyph(m, Pitch, (x + g * GlyphW) % U32, y, set, 1, 1, opaque)
           \in Drawings(x, y, 2 * GlyphW, GlyphH)
<1> DEFINE T == Drawings(x, y, 2 * GlyphW, GlyphH)
           from == (x + g * GlyphW) % U32
           len == GlyphW * GlyphH
           Step(t, k) == DrawPixel(t, Pitch, from, y, k - 1, set, 1, 1, opaque)
<1>1. GlyphW \in Nat \ {0} /\ GlyphH \in Nat /\ len \in Nat /\ U32 \in Nat \ {0}
      /\ g * GlyphW \in Nat /\ g * GlyphW \in {0, GlyphW}
  BY FramebufferAssumption
<1>2. ASSUME NEW k \in 1 .. len, NEW t \in T PROVE Step(t, k) \in T
  <2> DEFINE q == k - 1
             col == q % GlyphW
             row == q \div GlyphW
             at == <<col, row>>
  <2>1. q \in Nat /\ q < GlyphW * GlyphH
    BY <1>1
  <2> HIDE DEF q, len
  <2>2. col \in 0 .. (GlyphW - 1) /\ row \in 0 .. (GlyphH - 1)
    BY <1>1, <2>1, Divided, DividedBelow
  <2> HIDE DEF col, row
  <2>3. (from + col) % U32 = (x + (g * GlyphW + col)) % U32
    <3>1. x + g * GlyphW \in Nat /\ col \in Nat
      BY <1>1, <2>2
    <3>2. (from + col) % U32 = ((x + g * GlyphW) + col) % U32
      BY <1>1, <3>1, ReducedOnce, ZenonT(60)
    <3>3. (x + g * GlyphW) + col = x + (g * GlyphW + col)
      BY <1>1, <3>1
    <3> QED BY <3>2, <3>3
  <2>4. g * GlyphW + col \in 0 .. (2 * GlyphW - 1)
    BY <1>1, <2>2
  <2>5. fb_put_pixel(t, Pitch, (from + col) % U32, (y + row) % U32, 1) \in T
    BY <2>2, <2>3, <2>4, PutInside
  <2>6. Step(t, k) = IF at \in set \/ opaque
                     THEN fb_put_pixel(t, Pitch, (from + col) % U32, (y + row) % U32, 1) ELSE t
    BY DEF DrawPixel, q, col, row
  <2> QED BY <2>5, <2>6
<1> HIDE DEF T, Step, len
<1>3. PICK f \in [0 .. len -> T] : f = [k \in 0 .. len |-> IF k = 0 THEN m ELSE Step(f[k - 1], k)]
  <2> DEFINE F == [k \in 1 .. len |-> [t \in T |-> Step(t, k)]]
  <2>1. F \in [1 .. len -> [T -> T]] /\ m \in T
    BY <1>2 DEF T
  <2>2. PICK f \in [0 .. len -> T] : Iterates(f, m, len, F)
    <3> HIDE DEF F
    <3>1. len \in Nat
      BY <1>1
    <3> QED BY <2>1, <3>1, Iterated, Zenon
  <2>3. \A k \in 0 .. len : k # 0 => F[k][f[k - 1]] = Step(f[k - 1], k)
    BY <1>1
  <2> HIDE DEF F
  <2>4. f = [k \in 0 .. len |-> IF k = 0 THEN m ELSE Step(f[k - 1], k)]
    BY <2>2, <2>3 DEF Iterates
  <2> QED BY <2>4
<1> DEFINE G(h) == h = [k \in 0 .. len |-> IF k = 0 THEN m ELSE Step(h[k - 1], k)]
           drawn == CHOOSE h : G(h)
<1>4. DrawGlyph(m, Pitch, from, y, set, 1, 1, opaque) = drawn[len]
  BY DEF DrawGlyph, len, Step
<1>5. G(drawn)
  BY <1>3
<1> HIDE DEF drawn
<1>6. drawn[0] = m /\ \A k \in 1 .. len : drawn[k] = Step(drawn[k - 1], k)
  <2>1. \A k \in 0 .. len : drawn[k] = IF k = 0 THEN m ELSE Step(drawn[k - 1], k)
    BY <1>5
  <2> QED BY <1>1, <2>1
<1>7. drawn[0] \in T /\ \A k \in 1 .. len : drawn[k - 1] \in T => drawn[k] \in T
  BY <1>2, <1>6 DEF T
<1>8. \A k \in 0 .. len : drawn[k] \in T
  BY <1>1, <1>7, Kept
<1> QED
  BY <1>1, <1>4, <1>8 DEF T, from

\* A text of two glyphs, in either way.
TextDrawn(m, x, y, glyphs, opaque) ==
  LET drawn[k \in 0 .. Len(glyphs)] ==
        IF k = 0 THEN m
        ELSE DrawGlyph(drawn[k - 1], Pitch, (x + (k - 1) * GlyphW) % U32, y, glyphs[k], 1, 1,
                       opaque)
  IN  drawn[Len(glyphs)]

LEMMA TextInside ==
  ASSUME NEW x \in Nat, NEW y \in Nat, NEW glyphs, Len(glyphs) = 2, NEW opaque \in BOOLEAN
  PROVE  TextDrawn(Black, x, y, glyphs, opaque) \in Drawings(x, y, 2 * GlyphW, GlyphH)
<1> DEFINE T == Drawings(x, y, 2 * GlyphW, GlyphH)
           len == Len(glyphs)
           Step(t, k) == DrawGlyph(t, Pitch, (x + (k - 1) * GlyphW) % U32, y, glyphs[k], 1, 1,
                                   opaque)
<1>1. len \in Nat /\ len = 2 /\ Black \in T
  BY BlackIs
<1>2. ASSUME NEW k \in 1 .. len, NEW t \in T PROVE Step(t, k) \in T
  <2> DEFINE g == k - 1
             set == glyphs[k]
  <2>1. g \in 0 .. 1
    BY <1>1
  <2> HIDE DEF g, set, len
  <2>2. DrawGlyph(t, Pitch, (x + g * GlyphW) % U32, y, set, 1, 1, opaque) \in T
    BY <2>1, GlyphInside
  <2> QED BY <2>2 DEF g, set
<1> HIDE DEF T, Step, len
<1>3. PICK f \in [0 .. len -> T] :
        f = [k \in 0 .. len |-> IF k = 0 THEN Black ELSE Step(f[k - 1], k)]
  <2> DEFINE F == [k \in 1 .. len |-> [t \in T |-> Step(t, k)]]
  <2>1. F \in [1 .. len -> [T -> T]] /\ Black \in T
    BY <1>1, <1>2
  <2>2. PICK f \in [0 .. len -> T] : Iterates(f, Black, len, F)
    <3> HIDE DEF F
    <3>1. len \in Nat
      BY <1>1
    <3> QED BY <2>1, <3>1, Iterated, Zenon
  <2>3. \A k \in 0 .. len : k # 0 => F[k][f[k - 1]] = Step(f[k - 1], k)
    BY <1>1
  <2> HIDE DEF F
  <2>4. f = [k \in 0 .. len |-> IF k = 0 THEN Black ELSE Step(f[k - 1], k)]
    BY <2>2, <2>3 DEF Iterates
  <2> QED BY <2>4
<1> DEFINE G(h) == h = [k \in 0 .. len |-> IF k = 0 THEN Black ELSE Step(h[k - 1], k)]
           drawn == CHOOSE h : G(h)
<1>4. TextDrawn(Black, x, y, glyphs, opaque) = drawn[len]
  BY DEF TextDrawn, len, Step
<1>5. G(drawn)
  BY <1>3
<1> HIDE DEF drawn
<1>6. drawn[0] = Black /\ \A k \in 1 .. len : drawn[k] = Step(drawn[k - 1], k)
  <2>1. \A k \in 0 .. len : drawn[k] = IF k = 0 THEN Black ELSE Step(drawn[k - 1], k)
    BY <1>5
  <2> QED BY <1>1, <2>1
<1>7. drawn[0] \in T /\ \A k \in 1 .. len : drawn[k - 1] \in T => drawn[k] \in T
  BY <1>1, <1>2, <1>6
<1>8. \A k \in 0 .. len : drawn[k] \in T
  BY <1>1, <1>7, Kept
<1> QED
  BY <1>1, <1>4, <1>8 DEF T

LEMMA BlitInside ==
  ASSUME NEW x \in Nat, NEW y \in Nat, NEW w \in Nat, NEW h \in Nat,
         NEW pixels, \A k \in 1 .. (w * h) : pixels[k] \in {0, 1}
  PROVE  fb_blit(Black, Pitch, x, y, pixels, w, h) \in Drawings(x, y, w, h)
<1> DEFINE T == Drawings(x, y, w, h)
           len == w * h
           Step(t, k) == fb_put_pixel(t, Pitch, (x + ((k - 1) % w)) % U32,
                                      (y + ((k - 1) \div w)) % U32, pixels[k])
<1>1. len \in Nat /\ Black \in T
  BY BlackIs
<1>2. ASSUME NEW k \in 1 .. len, NEW t \in T PROVE Step(t, k) \in T
  <2> DEFINE q == k - 1
             i == q % w
             j == q \div w
  <2>1. q \in Nat /\ q < w * h /\ w \in Nat \ {0}
    <3>1. w = 0 => w * h = 0
      OBVIOUS
    <3> QED BY <3>1
  <2> HIDE DEF q, len
  <2>2. i \in 0 .. (w - 1) /\ j \in 0 .. (h - 1)
    BY <2>1, Divided, DividedBelow
  <2> HIDE DEF i, j
  <2>3. pixels[k] \in {0, 1}
    BY DEF len
  <2>4. fb_put_pixel(t, Pitch, (x + i) % U32, (y + j) % U32, pixels[k]) \in T
    BY <2>2, <2>3, PutInside
  <2> QED BY <2>4 DEF i, j, q
<1> HIDE DEF T, Step, len
<1>3. PICK f \in [0 .. len -> T] :
        f = [k \in 0 .. len |-> IF k = 0 THEN Black ELSE Step(f[k - 1], k)]
  <2> DEFINE F == [k \in 1 .. len |-> [t \in T |-> Step(t, k)]]
  <2>1. F \in [1 .. len -> [T -> T]] /\ Black \in T
    BY <1>1, <1>2
  <2>2. PICK f \in [0 .. len -> T] : Iterates(f, Black, len, F)
    <3> HIDE DEF F
    <3>1. len \in Nat
      BY <1>1
    <3> QED BY <2>1, <3>1, Iterated, Zenon
  <2>3. \A k \in 0 .. len : k # 0 => F[k][f[k - 1]] = Step(f[k - 1], k)
    BY <1>1
  <2> HIDE DEF F
  <2>4. f = [k \in 0 .. len |-> IF k = 0 THEN Black ELSE Step(f[k - 1], k)]
    BY <2>2, <2>3 DEF Iterates
  <2> QED BY <2>4
<1> DEFINE G(g) == g = [k \in 0 .. len |-> IF k = 0 THEN Black ELSE Step(g[k - 1], k)]
           put == CHOOSE g : G(g)
<1>4. fb_blit(Black, Pitch, x, y, pixels, w, h) = put[len]
  BY DEF fb_blit, len, Step
<1>5. G(put)
  BY <1>3
<1> HIDE DEF put
<1>6. put[0] = Black /\ \A k \in 1 .. len : put[k] = Step(put[k - 1], k)
  <2>1. \A k \in 0 .. len : put[k] = IF k = 0 THEN Black ELSE Step(put[k - 1], k)
    BY <1>5
  <2> QED BY <1>1, <2>1
<1>7. put[0] \in T /\ \A k \in 1 .. len : put[k - 1] \in T => put[k] \in T
  BY <1>1, <1>2, <1>6
<1>8. \A k \in 0 .. len : put[k] \in T
  BY <1>1, <1>7, Kept
<1> QED
  BY <1>1, <1>4, <1>8 DEF T

\* What DrawsInside says of such a framebuffer.
LEMMA DrawingsInside ==
  ASSUME result \in Drawings(call.x, call.y, call.w, call.h),
         call.f = "fb_fill_rect" /\ call.x + call.w < U32 /\ call.y + call.h < U32 =>
           \A p : Inside(call.x, call.y, call.w, call.h, p) => result[p] = 1
  PROVE  DrawsInside
<1> DEFINE inside == {Place(Pitch, (call.x + i) % U32, (call.y + j) % U32) :
                        i \in {k \in 0 .. (call.w - 1) : (call.x + k) % U32 < Width},
                        j \in {k \in 0 .. (call.h - 1) : (call.y + k) % U32 < Height}}
<1>1. \A p : p \in inside <=> Inside(call.x, call.y, call.w, call.h, p)
  BY DEF Inside
<1>2. DOMAIN result = Places /\ DOMAIN Black = Places
  BY DEF Drawings, Black, Places
<1>3. \A p \in DOMAIN Black : result[p] # 0 => p \in inside
  BY <1>1, <1>2 DEF Drawings
<1> HIDE DEF inside
<1>4. call.f = "fb_fill_rect" /\ call.x + call.w < U32 /\ call.y + call.h < U32 =>
        \A p \in inside : result[p] = 1
  BY <1>1
<1> QED
  BY <1>2, <1>3, <1>4 DEF DrawsInside, inside

-----------------------------------------------------------------------------
(* LOADING: module ElfLoad *)

Headers == [load : BOOLEAN, inside : BOOLEAN, vaddr : Nat, filesz : Nat, memsz : Nat \ {0}]

Contents == [0 .. (PageSize - 1) -> [seg : Nat, at : Int]]

\* What loading goes through.
Loadings ==
  [page : UNION {[D -> Contents] : D \in SUBSET Nat}, frames : Nat, max_end : Nat,
   failed : BOOLEAN]

\* Multiples of PageSize that differ do so by a page at least.
LEMMA PagesApart ==
  ASSUME NEW i \in Nat, NEW j \in Nat
  PROVE  /\ i * PageSize \in Nat
         /\ i < j => i * PageSize + PageSize <= j * PageSize
         /\ i * PageSize < j * PageSize => i < j
<1>1. PageSize \in Nat \ {0}
  BY ElfLoadAssumption
<1>2. ASSUME NEW a \in Nat, NEW b \in Nat, a < b
      PROVE  a * PageSize + PageSize <= b * PageSize
  <2>1. (a + 1) * PageSize <= b * PageSize
    BY <1>1, <1>2
  <2>2. (a + 1) * PageSize = a * PageSize + PageSize
    BY <1>1
  <2> QED BY <2>1, <2>2
<1>3. \A a \in Nat : a * PageSize \in Nat
  BY <1>1
<1>4. ASSUME i * PageSize < j * PageSize, ~ (i < j) PROVE FALSE
  <2>1. CASE i = j
    BY <1>3, <1>4, <2>1
  <2>2. CASE j < i
    BY <1>1, <1>2, <1>3, <1>4, <2>2
  <2> QED BY <1>4, <2>1, <2>2
<1> QED
  BY <1>2, <1>3, <1>4

\* An address lies in the page at the multiple below it.
LEMMA InItsPage ==
  ASSUME NEW a \in Nat
  PROVE  \E i \in Nat : /\ RoundDown(a) = i * PageSize
                        /\ i * PageSize <= a /\ a < i * PageSize + PageSize
                        /\ a % PageSize = a - i * PageSize
                        /\ a % PageSize \in 0 .. (PageSize - 1)
<1>1. PageSize \in Nat \ {0}
  BY ElfLoadAssumption
<1>2. /\ a \div PageSize \in Nat /\ a % PageSize \in 0 .. (PageSize - 1)
      /\ a = (a \div PageSize) * PageSize + (a % PageSize)
  BY <1>1, Divided
<1> DEFINE i == a \div PageSize
<1>3. RoundDown(a) = i * PageSize
  BY DEF RoundDown
<1>4. i * PageSize \in Nat
  BY <1>2, PagesApart
<1> HIDE DEF i
<1>5. i * PageSize <= a /\ a < i * PageSize + PageSize /\ a % PageSize = a - i * PageSize
  <2>1. a = i * PageSize + (a % PageSize)
    BY <1>2 DEF i
  <2> QED BY <1>1, <1>2, <1>4, <2>1
<1>6. i \in Nat
  BY <1>2 DEF i
<1> QED
  BY <1>2, <1>3, <1>5, <1>6

\* ... and the page boundary above it is less than a page away.
LEMMA AboveIt ==
  ASSUME NEW a \in Nat
  PROVE  \E j \in Nat : /\ RoundUp(a) = j * PageSize
                        /\ a <= j * PageSize /\ j * PageSize < a + PageSize
<1>1. PageSize \in Nat \ {0}
  BY ElfLoadAssumption
<1> DEFINE b == a + PageSize - 1
<1>2. b \in Nat
  BY <1>1
<1>3. RoundUp(a) = RoundDown(b)
  BY DEF RoundUp
<1> HIDE DEF b
<1>4. PICK j \in Nat : /\ RoundDown(b) = j * PageSize
                       /\ j * PageSize <= b /\ b < j * PageSize + PageSize
  BY <1>2, InItsPage
<1>5. j * PageSize \in Nat
  BY PagesApart
<1>6. a <= j * PageSize /\ j * PageSize < a + PageSize
  BY <1>1, <1>2, <1>4, <1>5 DEF b
<1> QED
  BY <1>3, <1>4, <1>6

\* The pages that are loaded for a segment are those its bytes are in.
LEMMA PagesLoaded ==
  ASSUME NEW g \in Headers
  PROVE  /\ PageCount(g) \in Nat
         /\ \A k \in 1 .. PageCount(g) : Page(g, k) \in Nat
         /\ PagesOf(g) = {Page(g, k) : k \in 1 .. PageCount(g)}
<1> DEFINE v == g.vaddr
           end == g.vaddr + g.memsz
<1>1. /\ PageSize \in Nat \ {0} /\ v \in Nat /\ end \in Nat /\ v < end
  BY ElfLoadAssumption DEF Headers
<1>10. PagesOf(g) = {RoundDown(a) : a \in v .. (end - 1)}
  <2>1. g.vaddr + g.memsz - 1 = end - 1
    BY DEF Headers
  <2>2. PagesOf(g) = {RoundDown(a) : a \in g.vaddr .. (g.vaddr + g.memsz - 1)}
    BY DEF PagesOf
  <2> HIDE DEF end
  <2> QED BY <2>1, <2>2
<1> HIDE DEF v, end
<1>2. PICK i \in Nat : /\ RoundDown(v) = i * PageSize
                       /\ i * PageSize <= v /\ v < i * PageSize + PageSize
  BY <1>1, InItsPage
<1>3. PICK j \in Nat : /\ RoundUp(end) = j * PageSize
                       /\ end <= j * PageSize /\ j * PageSize < end + PageSize
  BY <1>1, AboveIt
<1>4. i < j
  <2>1. i * PageSize < j * PageSize
    BY <1>1, <1>2, <1>3, PagesApart
  <2> QED BY <2>1, PagesApart
<1>5. PageCount(g) = j - i
  <2> DEFINE d == j - i
  <2>1. d \in Nat
    BY <1>4
  <2>2. j * PageSize - i * PageSize = d * PageSize + 0
    BY <1>1
  <2> HIDE DEF d
  <2>3. 0 \in 0 .. (PageSize - 1)
    BY <1>1
  <2>4. (d * PageSize + 0) \div PageSize = d
    BY <1>1, <2>1, <2>3, DividedOnce
  <2>5. PageCount(g) = (j * PageSize - i * PageSize) \div PageSize
    BY <1>2, <1>3 DEF PageCount, v, end
  <2> QED BY <2>2, <2>4, <2>5 DEF d
<1>6. \A k \in 1 .. (j - i) : Page(g, k) = (i + (k - 1)) * PageSize
  <2> SUFFICES ASSUME NEW k \in 1 .. (j - i) PROVE Page(g, k) = (i + (k - 1)) * PageSize
    OBVIOUS
  <2>1. Page(g, k) = i * PageSize + (k - 1) * PageSize
    BY <1>2 DEF Page, v
  <2> QED BY <1>1, <2>1
<1>7. ASSUME NEW k \in 1 .. (j - i) PROVE Page(g, k) \in Nat /\ Page(g, k) \in PagesOf(g)
  <2> DEFINE t == i + (k - 1)
  <2>1. t \in Nat /\ i <= t /\ t < j
    BY <1>4
  <2>2. Page(g, k) = t * PageSize
    BY <1>6
  <2> HIDE DEF t
  <2>3. t * PageSize \in Nat /\ t * PageSize + PageSize <= j * PageSize
    BY <2>1, PagesApart
  <2>4. t * PageSize < end
    BY <1>1, <1>3, <2>3, PagesApart
  <2>5. \E a \in v .. (end - 1) : RoundDown(a) = t * PageSize
    <3>1. CASE t = i
      BY <1>1, <1>2, <3>1
    <3>2. CASE i < t
      <4>1. i * PageSize + PageSize <= t * PageSize /\ i * PageSize \in Nat
        BY <2>1, <3>2, PagesApart
      <4>2. t * PageSize \in v .. (end - 1)
        BY <1>1, <1>2, <2>3, <2>4, <4>1
      <4>3. RoundDown(t * PageSize) = t * PageSize
        <5>1. 0 \in 0 .. (PageSize - 1) /\ t * PageSize + 0 = t * PageSize
          BY <1>1, <2>3
        <5>2. (t * PageSize + 0) \div PageSize = t
          BY <1>1, <2>1, <5>1, DividedOnce
        <5> QED BY <5>1, <5>2 DEF RoundDown
      <4> QED BY <4>2, <4>3
    <3> QED BY <2>1, <3>1, <3>2
  <2>6. t * PageSize \in PagesOf(g)
    BY <1>10, <2>5
  <2> QED BY <2>2, <2>3, <2>6
<1>8. ASSUME NEW p \in PagesOf(g) PROVE \E k \in 1 .. (j - i) : p = Page(g, k)
  <2>1. PICK a \in v .. (end - 1) : p = RoundDown(a)
    BY <1>10
  <2>2. a \in Nat
    BY <1>1
  <2>3. PICK t \in Nat : p = t * PageSize /\ t * PageSize <= a /\ a < t * PageSize + PageSize
    BY <2>1, <2>2, InItsPage
  <2>4. i * PageSize \in Nat /\ j * PageSize \in Nat /\ t * PageSize \in Nat
    BY PagesApart
  <2>5. t < j
    <3>1. t * PageSize < j * PageSize
      BY <1>1, <1>3, <2>1, <2>3, <2>4
    <3> QED BY <3>1, PagesApart
  <2>6. i <= t
    <3>1. ASSUME t < i PROVE FALSE
      <4>1. t * PageSize + PageSize <= i * PageSize
        BY <3>1, PagesApart
      <4> QED BY <1>1, <1>2, <2>1, <2>2, <2>3, <2>4, <4>1
    <3> QED BY <3>1
  <2> DEFINE k == t - i + 1
  <2>7. k \in 1 .. (j - i) /\ i + (k - 1) = t
    BY <2>5, <2>6
  <2> HIDE DEF k
  <2>8. p = Page(g, k)
    BY <1>6, <2>3, <2>7
  <2> QED BY <2>7, <2>8
<1>9. j - i \in Nat
  BY <1>4
<1> QED
  BY <1>5, <1>7, <1>8, <1>9

\* What a page of a segment holds is bytes, and where the segment begins a page,
\* those of the file and then zeros.
LEMMA FilledIs ==
  ASSUME NEW g \in Headers, NEW s \in Nat, NEW p \in Nat
  PROVE  /\ Filled(g, s, p) \in Contents
         /\ g.vaddr <= p =>
              \A b \in 0 .. (PageSize - 1) :
                Filled(g, s, p)[b] =
                  IF p + b - g.vaddr < g.filesz THEN Data(s, p + b - g.vaddr) ELSE Zero
<1> DEFINE v == g.vaddr
           off == IF p < v THEN v - p ELSE 0
           seg_off == p + off - v
           room == PageSize - off
           n0 == IF g.filesz - seg_off > room THEN room ELSE g.filesz - seg_off
           zeros == [b \in 0 .. (PageSize - 1) |-> Zero]
           copy == Copied(s, seg_off, off, n0)
<1>1. /\ PageSize \in Nat \ {0} /\ v \in Nat /\ g.filesz \in Nat
  BY ElfLoadAssumption DEF Headers
<1>2. Filled(g, s, p) = IF seg_off < g.filesz THEN copy ELSE zeros
  BY DEF Filled
<1>3. /\ seg_off \in Nat /\ off \in Nat /\ n0 \in Int
  BY <1>1
<1> HIDE DEF seg_off, off, n0
<1>4. copy = [b \in 0 .. (PageSize - 1) |->
                IF b < n0 THEN Data(s, seg_off + b)
                ELSE IF b >= off + n0 THEN Zero ELSE Junk]
  BY DEF Copied
<1>5. \A e \in Nat : Data(s, e) \in [seg : Nat, at : Int]
  BY DEF Data
<1>6. Zero \in [seg : Nat, at : Int] /\ Junk \in [seg : Nat, at : Int]
  BY DEF Zero, Junk, Data
<1>7. zeros \in Contents
  BY <1>6 DEF Contents
<1>8. copy \in Contents
  <2>1. \A b \in 0 .. (PageSize - 1) : Data(s, seg_off + b) \in [seg : Nat, at : Int]
    BY <1>1, <1>3, <1>5
  <2> QED BY <1>4, <1>6, <2>1 DEF Contents
<1>9. ASSUME v <= p, NEW b \in 0 .. (PageSize - 1)
      PROVE  Filled(g, s, p)[b] = IF p + b - v < g.filesz THEN Data(s, p + b - v) ELSE Zero
  <2>1. off = 0 /\ seg_off = p - v
    BY <1>1, <1>9 DEF off, seg_off
  <2>2. p + b - v = seg_off + b
    BY <1>1, <2>1
  <2>3. CASE seg_off < g.filesz
    <3>1. n0 = IF g.filesz - seg_off > PageSize THEN PageSize ELSE g.filesz - seg_off
      BY <1>1, <2>1 DEF n0
    <3>2. b < n0 <=> seg_off + b < g.filesz
      BY <1>1, <1>3, <3>1
    <3>3. b >= off + n0 <=> ~ (b < n0)
      BY <1>1, <1>3, <2>1
    <3>4. copy[b] = IF b < n0 THEN Data(s, seg_off + b) ELSE IF b >= off + n0 THEN Zero ELSE Junk
      BY <1>4
    <3>5. Filled(g, s, p) = copy
      BY <1>2, <2>3
    <3> HIDE DEF copy
    <3> QED BY <2>2, <3>2, <3>3, <3>4, <3>5
  <2>4. CASE ~ (seg_off < g.filesz)
    <3>1. ~ (seg_off + b < g.filesz)
      BY <1>1, <1>3, <2>4
    <3> QED BY <1>2, <2>2, <2>4, <3>1
  <2> QED BY <2>3, <2>4
<1> QED
  BY <1>2, <1>7, <1>8, <1>9

\* The first k pages of the segment, in a list of headers the s-th, have been loaded.
PagesUpTo(st, new, g, s, k) ==
  /\ new.max_end = st.max_end
  /\ ~new.failed =>
       /\ ~st.failed
       /\ DOMAIN new.page = DOMAIN st.page \cup {Page(g, i) : i \in 1 .. k}
       /\ \A q \in DOMAIN new.page :
            new.page[q] = IF q \in {Page(g, i) : i \in 1 .. k} THEN Filled(g, s, q)
                          ELSE st.page[q]

LEMMA PageStep ==
  ASSUME NEW g \in Headers, NEW s \in Nat, NEW st \in Loadings, NEW k \in 1 .. PageCount(g)
  PROVE  LET new == LoadPage(st, g, s, Page(g, k))
         IN  /\ new \in Loadings
             /\ \A st0 : PagesUpTo(st0, st, g, s, k - 1) => PagesUpTo(st0, new, g, s, k)
<1> DEFINE p == Page(g, k)
           new == LoadPage(st, g, s, p)
           c == Filled(g, s, p)
<1>1. p \in Nat /\ c \in Contents /\ k \in Nat /\ PageCount(g) \in Nat
  BY PagesLoaded, FilledIs
<1>2. /\ st.max_end \in Nat /\ st.frames \in Nat /\ st.failed \in BOOLEAN
      /\ \E D \in SUBSET Nat : st.page \in [D -> Contents]
      /\ st = [page |-> st.page, frames |-> st.frames, max_end |-> st.max_end,
               failed |-> st.failed]
  BY DEF Loadings
<1>3. {Page(g, i) : i \in 1 .. k} = {Page(g, i) : i \in 1 .. (k - 1)} \cup {p}
  <2>1. 1 .. k = 1 .. (k - 1) \cup {k}
    BY <1>1
  <2> QED BY <2>1
<1>4. CASE st.failed \/ st.frames = 0
  <2>1. new = [page |-> st.page, frames |-> st.frames, max_end |-> st.max_end, failed |-> TRUE]
    BY <1>2, <1>4 DEF LoadPage
  <2> HIDE DEF new
  <2>2. new \in Loadings
    BY <1>2, <2>1 DEF Loadings
  <2>3. \A st0 : PagesUpTo(st0, st, g, s, k - 1) => PagesUpTo(st0, new, g, s, k)
    BY <2>1 DEF PagesUpTo
  <2> QED BY <2>2, <2>3 DEF new
<1>5. CASE ~ (st.failed \/ st.frames = 0)
  <2> DEFINE page == [q \in DOMAIN st.page \cup {p} |-> IF q = p THEN c ELSE st.page[q]]
  <2>1. new = [page |-> page, frames |-> st.frames - 1, max_end |-> st.max_end, failed |-> FALSE]
    BY <1>2, <1>5 DEF LoadPage
  <2>2. \E D \in SUBSET Nat : page \in [D -> Contents]
    <3>1. PICK D \in SUBSET Nat : st.page \in [D -> Contents]
      BY <1>2
    <3>2. DOMAIN st.page = D
      BY <3>1
    <3>3. page \in [D \cup {p} -> Contents]
      BY <1>1, <3>1, <3>2
    <3> HIDE DEF page
    <3> QED BY <1>1, <3>3
  <2>3. DOMAIN page = DOMAIN st.page \cup {p}
        /\ \A q \in DOMAIN page : page[q] = IF q = p THEN c ELSE st.page[q]
    OBVIOUS
  <2> HIDE DEF new, page
  <2>4. new \in Loadings
    BY <1>2, <1>5, <2>1, <2>2 DEF Loadings
  <2>5. ASSUME NEW st0, PagesUpTo(st0, st, g, s, k - 1) PROVE PagesUpTo(st0, new, g, s, k)
    <3> DEFINE old == {Page(g, i) : i \in 1 .. (k - 1)}
    <3>1. /\ st.max_end = st0.max_end /\ ~st0.failed
          /\ DOMAIN st.page = DOMAIN st0.page \cup old
          /\ \A q \in DOMAIN st.page :
               st.page[q] = IF q \in old THEN Filled(g, s, q) ELSE st0.page[q]
      BY <1>5, <2>5 DEF PagesUpTo
    <3>2. new.max_end = st.max_end /\ new.page = page
      BY <2>1
    <3> HIDE DEF old
    <3>3. DOMAIN new.page = DOMAIN st0.page \cup (old \cup {p})
      BY <2>3, <3>1, <3>2
    <3>4. \A q \in DOMAIN new.page :
            new.page[q] = IF q \in old \cup {p} THEN Filled(g, s, q) ELSE st0.page[q]
      BY <2>3, <3>1, <3>2
    <3> QED BY <1>3, <3>1, <3>2, <3>3, <3>4 DEF PagesUpTo, old
  <2> QED BY <2>4, <2>5 DEF new
<1> QED
  BY <1>4, <1>5

LEMMA PagesLoad ==
  ASSUME NEW g \in Headers, NEW s \in Nat, NEW st \in Loadings
  PROVE  LET new == LoadPages(st, g, s)
         IN  new \in Loadings /\ PagesUpTo(st, new, g, s, PageCount(g))
<1> DEFINE T == Loadings
           len == PageCount(g)
           Step(x, k) == LoadPage(x, g, s, Page(g, k))
<1>1. len \in Nat /\ st \in T
  BY PagesLoaded
<1>2. ASSUME NEW k \in 1 .. len, NEW x \in T PROVE Step(x, k) \in T
  BY PageStep
<1> HIDE DEF T, Step, len
<1>3. PICK f \in [0 .. len -> T] : f = [k \in 0 .. len |-> IF k = 0 THEN st ELSE Step(f[k - 1], k)]
  <2> DEFINE F == [k \in 1 .. len |-> [x \in T |-> Step(x, k)]]
  <2>1. F \in [1 .. len -> [T -> T]]
    BY <1>2
  <2>2. PICK f \in [0 .. len -> T] : Iterates(f, st, len, F)
    <3> HIDE DEF F
    <3>1. len \in Nat /\ st \in T
      BY <1>1
    <3> QED BY <2>1, <3>1, Iterated, Zenon
  <2>3. \A k \in 0 .. len : k # 0 => F[k][f[k - 1]] = Step(f[k - 1], k)
    BY <1>1
  <2> HIDE DEF F
  <2>4. f = [k \in 0 .. len |-> IF k = 0 THEN st ELSE Step(f[k - 1], k)]
    BY <2>2, <2>3 DEF Iterates
  <2> QED BY <2>4
<1> DEFINE G(h) == h = [k \in 0 .. len |-> IF k = 0 THEN st ELSE Step(h[k - 1], k)]
           after == CHOOSE h : G(h)
<1>4. LoadPages(st, g, s) = after[len]
  BY DEF LoadPages, len, Step
<1>5. G(after)
  BY <1>3
<1> HIDE DEF after
<1>6. after[0] = st /\ \A k \in 1 .. len : after[k] = Step(after[k - 1], k)
  <2>1. \A k \in 0 .. len : after[k] = IF k = 0 THEN st ELSE Step(after[k - 1], k)
    BY <1>5
  <2> QED BY <1>1, <2>1
<1> DEFINE S == {k \in 0 .. len : after[k] \in Loadings /\ PagesUpTo(st, after[k], g, s, k)}
<1>7. 0 \in S
  <2>1. {Page(g, i) : i \in 1 .. 0} = {}
    OBVIOUS
  <2>2. PagesUpTo(st, st, g, s, 0)
    BY <2>1 DEF PagesUpTo
  <2> QED BY <1>1, <1>6, <2>2
<1>8. \A k \in 1 .. len : k - 1 \in S => k \in S
  <2> SUFFICES ASSUME NEW k \in 1 .. len, k - 1 \in S PROVE k \in S
    OBVIOUS
  <2>1. /\ after[k - 1] \in Loadings /\ PagesUpTo(st, after[k - 1], g, s, k - 1)
        /\ after[k] = LoadPage(after[k - 1], g, s, Page(g, k))
    BY <1>6 DEF Step
  <2>2. after[k] \in Loadings /\ PagesUpTo(st, after[k], g, s, k)
    BY <2>1, PageStep DEF len
  <2> QED BY <2>2
<1> HIDE DEF S
<1>9. len \in S
  <2>1. \A k \in 0 .. len : k \in S
    BY <1>1, <1>7, <1>8, Climbs
  <2> QED BY <1>1, <2>1
<1> QED
  BY <1>4, <1>9 DEF S, len

\* The first i headers have been gone through: the pages of their segments are there,
\* below max_end, and hold what the file says where no other segment is in the way.
SegmentsUpTo(st, ph, i) ==
  ~st.failed =>
    /\ \A s \in Segments(ph) : s <= i =>
         /\ PagesOf(ph[s]) \subseteq DOMAIN st.page
         /\ ph[s].vaddr + ph[s].memsz <= st.max_end
    /\ \A q \in DOMAIN st.page : \E s \in Segments(ph) : s <= i /\ q \in PagesOf(ph[s])
    /\ \A s \in Segments(ph) : s <= i /\ Alone(ph, s) =>
         \A q \in PagesOf(ph[s]) : st.page[q] = Filled(ph[s], s, q)

LEMMA SegmentTyped ==
  ASSUME NEW ph \in Seq(Headers), NEW s \in DOMAIN ph, NEW st \in Loadings
  PROVE  LoadSegment(st, ph[s], s) \in Loadings
<1> DEFINE g == ph[s]
           end == g.vaddr + g.memsz
           mid == LoadPages(st, g, s)
<1>1. s \in Nat /\ g \in Headers
  BY LenProperties, ElementOfSeq
<1>2. end \in Nat
  BY <1>1 DEF Headers
<1>3. mid \in Loadings
  BY <1>1, PagesLoad
<1> HIDE DEF g, end, mid
<1>4. SegmentDone(mid, g) \in Loadings
  <2>1. SegmentDone(mid, g) = [mid EXCEPT !.max_end = IF end > mid.max_end THEN end
                                                       ELSE mid.max_end]
    BY DEF SegmentDone, end
  <2> QED BY <1>2, <1>3, <2>1 DEF Loadings
<1>5. [st EXCEPT !.failed = TRUE] \in Loadings
  BY DEF Loadings
<1> QED
  BY <1>4, <1>5 DEF LoadSegment, mid, g

LEMMA SegmentStep ==
  ASSUME NEW ph \in Seq(Headers), NEW s \in DOMAIN ph, NEW st \in Loadings,
         SegmentsUpTo(st, ph, s - 1)
  PROVE  LET new == LoadSegment(st, ph[s], s)
         IN  new \in Loadings /\ SegmentsUpTo(new, ph, s)
<1> DEFINE g == ph[s]
           new == LoadSegment(st, g, s)
           mid == LoadPages(st, g, s)
           end == g.vaddr + g.memsz
           pages == PagesOf(g)
<1>1. /\ s \in Nat \ {0} /\ g \in Headers /\ DOMAIN ph \subseteq Nat \ {0}
      /\ end \in Nat
  <2>1. s \in Nat \ {0} /\ g \in Headers /\ DOMAIN ph \subseteq Nat \ {0}
    BY LenProperties, ElementOfSeq
  <2> QED BY <2>1, SMTT(60) DEF Headers
<1>2. /\ st.failed \in BOOLEAN
      /\ st = [page |-> st.page, frames |-> st.frames, max_end |-> st.max_end,
               failed |-> st.failed]
  BY DEF Loadings
<1>3. Segments(ph) \subseteq DOMAIN ph /\ (s \in Segments(ph) <=> g.load)
  BY DEF Segments
<1>4. CASE st.failed \/ ~g.load
  <2>1. new = st
    BY <1>4 DEF LoadSegment
  <2>2. ~st.failed => \A r \in Segments(ph) : r <= s <=> r <= s - 1
    BY <1>1, <1>3, <1>4
  <2>3. SegmentsUpTo(st, ph, s)
    BY <2>2 DEF SegmentsUpTo
  <2> QED BY <2>1, <2>3
<1>5. CASE ~st.failed /\ g.load /\ ~g.inside
  <2>1. new = [page |-> st.page, frames |-> st.frames, max_end |-> st.max_end, failed |-> TRUE]
    BY <1>2, <1>5 DEF LoadSegment
  <2> HIDE DEF new
  <2>2. new \in Loadings
    BY <2>1 DEF Loadings
  <2> QED BY <2>1, <2>2 DEF new, SegmentsUpTo
<1>6. CASE ~st.failed /\ g.load /\ g.inside
  <2>1. mid \in Loadings /\ PagesUpTo(st, mid, g, s, PageCount(g))
    BY <1>1, PagesLoad
  <2>2. new = SegmentDone(mid, g)
    BY <1>6 DEF LoadSegment
  <2> HIDE DEF mid
  <2>3. /\ mid.max_end \in Nat /\ st.max_end \in Nat
        /\ new = [page |-> mid.page, frames |-> mid.frames,
                  max_end |-> IF end > mid.max_end THEN end ELSE mid.max_end,
                  failed |-> mid.failed]
    BY <2>1, <2>2 DEF SegmentDone, Loadings
  <2> HIDE DEF new, end
  <2>4. new \in Loadings
    BY <1>1, <2>1, <2>3 DEF Loadings
  <2>5. ASSUME ~new.failed
        PROVE  /\ mid.max_end = st.max_end
               /\ DOMAIN new.page = DOMAIN st.page \cup pages
               /\ \A q \in DOMAIN new.page :
                    new.page[q] = IF q \in pages THEN Filled(g, s, q) ELSE st.page[q]
    <3>1. pages = {Page(g, i) : i \in 1 .. PageCount(g)}
      BY <1>1, PagesLoaded
    <3>2. ~mid.failed /\ new.page = mid.page
      BY <2>3, <2>5
    <3> HIDE DEF pages
    <3> QED BY <2>1, <3>1, <3>2 DEF PagesUpTo
  <2>6. /\ \A r \in Segments(ph) : r <= s - 1 =>
             PagesOf(ph[r]) \subseteq DOMAIN st.page /\ ph[r].vaddr + ph[r].memsz <= st.max_end
        /\ \A q \in DOMAIN st.page : \E r \in Segments(ph) : r <= s - 1 /\ q \in PagesOf(ph[r])
        /\ \A r \in Segments(ph) : r <= s - 1 /\ Alone(ph, r) =>
             \A q \in PagesOf(ph[r]) : st.page[q] = Filled(ph[r], r, q)
    BY <1>6 DEF SegmentsUpTo
  <2>7. \A r \in Segments(ph) : r <= s => r <= s - 1 \/ r = s
    BY <1>1, <1>3
  <2>8. \A r \in Segments(ph) : /\ r <= s - 1 => r <= s /\ r # s
                                /\ ph[r].vaddr + ph[r].memsz \in Nat
    <3>1. \A r \in Segments(ph) : ph[r] \in Headers
      BY <1>3, ElementOfSeq
    <3>2. \A h \in Headers : h.vaddr + h.memsz \in Nat
      BY SMTT(60) DEF Headers
    <3>3. \A r \in Segments(ph) : r <= s - 1 => r <= s /\ r # s
      BY <1>1, <1>3
    <3> QED BY <3>1, <3>2, <3>3
  <2>9. ASSUME ~new.failed, NEW r \in Segments(ph), r <= s
        PROVE  PagesOf(ph[r]) \subseteq DOMAIN new.page /\ ph[r].vaddr + ph[r].memsz <= new.max_end
    <3>1. new.max_end = IF end > st.max_end THEN end ELSE st.max_end
      BY <2>3, <2>5, <2>9
    <3>2. CASE r = s
      BY <1>1, <2>3, <2>5, <2>9, <3>1, <3>2 DEF end
    <3>3. CASE r <= s - 1
      <4>1. PagesOf(ph[r]) \subseteq DOMAIN st.page /\ ph[r].vaddr + ph[r].memsz <= st.max_end
        BY <2>6, <3>3
      <4>2. ph[r].vaddr + ph[r].memsz <= new.max_end
        BY <1>1, <2>3, <2>8, <3>1, <4>1
      <4> QED BY <2>5, <2>9, <4>1, <4>2
    <3> QED BY <2>7, <2>9, <3>2, <3>3
  <2>10. ASSUME ~new.failed, NEW q \in DOMAIN new.page
         PROVE  \E r \in Segments(ph) : r <= s /\ q \in PagesOf(ph[r])
    <3>1. CASE q \in pages
      BY <1>1, <1>3, <1>6, <3>1
    <3>2. CASE q \in DOMAIN st.page
      BY <2>6, <2>8, <3>2
    <3> QED BY <2>5, <2>10, <3>1, <3>2
  <2>11. ASSUME ~new.failed, NEW r \in Segments(ph), r <= s, Alone(ph, r), NEW q \in PagesOf(ph[r])
         PROVE  new.page[q] = Filled(ph[r], r, q)
    <3>1. q \in DOMAIN new.page
      BY <2>9, <2>11
    <3>2. CASE r = s
      BY <2>5, <2>11, <3>1, <3>2
    <3>3. CASE r <= s - 1
      <4>1. s \in Segments(ph) \ {r}
        BY <1>3, <1>6, <2>8, <3>3
      <4>2. q \notin pages
        BY <2>11, <4>1 DEF Alone
      <4> QED BY <2>5, <2>6, <2>11, <3>1, <3>3, <4>2
    <3> QED BY <2>7, <2>11, <3>2, <3>3
  <2>12. SegmentsUpTo(new, ph, s)
    BY <2>9, <2>10, <2>11 DEF SegmentsUpTo
  <2> QED BY <2>4, <2>12 DEF new
<1> QED
  BY <1>2, <1>4, <1>5, <1>6

LEMMA SegmentsLoad ==
  ASSUME NEW ph \in Seq(Headers), NEW frames \in Nat
  PROVE  \E st \in Loadings :
           /\ SegmentsUpTo(st, ph, Len(ph))
           /\ elf_load(ph, frames) = [page |-> st.page, loaded |-> ~st.failed,
                                      brk |-> RoundUp(st.max_end)]
<1> DEFINE T == Loadings
           len == Len(ph)
           first == NothingLoaded(frames)
           Step(x, s) == LoadSegment(x, ph[s], s)
           S(s) == {x \in Loadings : SegmentsUpTo(x, ph, s)}
<1>1. len \in Nat /\ DOMAIN ph = 1 .. len
  BY LenProperties
<1>2. first \in Loadings /\ SegmentsUpTo(first, ph, 0)
  <2>1. << >> \in [{} -> Contents] /\ DOMAIN << >> = {}
    OBVIOUS
  <2>2. first \in Loadings
    BY <2>1 DEF Loadings, NothingLoaded
  <2>3. \A s \in Segments(ph) : ~ (s <= 0)
    BY <1>1 DEF Segments
  <2>4. DOMAIN first.page = {}
    BY <2>1 DEF NothingLoaded
  <2> HIDE DEF first
  <2>5. SegmentsUpTo(first, ph, 0)
    BY <2>3, <2>4 DEF SegmentsUpTo
  <2> QED BY <2>2, <2>5
<1>3. ASSUME NEW s \in 1 .. len, NEW x \in Loadings
      PROVE  /\ Step(x, s) \in Loadings
             /\ SegmentsUpTo(x, ph, s - 1) => SegmentsUpTo(Step(x, s), ph, s)
  <2>1. CASE SegmentsUpTo(x, ph, s - 1)
    BY <1>1, <2>1, SegmentStep
  <2>2. Step(x, s) \in Loadings
    BY <1>1, SegmentTyped
  <2> QED BY <2>1, <2>2
<1> HIDE DEF T, Step, len, first
<1>4. PICK f \in [0 .. len -> T] :
        f = [s \in 0 .. len |-> IF s = 0 THEN first ELSE Step(f[s - 1], s)]
  <2> DEFINE F == [s \in 1 .. len |-> [x \in T |-> Step(x, s)]]
  <2>1. F \in [1 .. len -> [T -> T]]
    BY <1>3 DEF T
  <2>2. PICK f \in [0 .. len -> T] : Iterates(f, first, len, F)
    <3> HIDE DEF F
    <3>1. len \in Nat /\ first \in T
      BY <1>1, <1>2 DEF T
    <3> QED BY <2>1, <3>1, Iterated, Zenon
  <2>3. \A s \in 0 .. len : s # 0 => F[s][f[s - 1]] = Step(f[s - 1], s)
    BY <1>1
  <2> HIDE DEF F
  <2>4. f = [s \in 0 .. len |-> IF s = 0 THEN first ELSE Step(f[s - 1], s)]
    BY <2>2, <2>3 DEF Iterates
  <2> QED BY <2>4
<1> DEFINE G(h) == h = [s \in 0 .. len |-> IF s = 0 THEN first ELSE Step(h[s - 1], s)]
           after == CHOOSE h : G(h)
           st == after[len]
<1>5. elf_load(ph, frames) = [page |-> st.page, loaded |-> ~st.failed, brk |-> RoundUp(st.max_end)]
  BY DEF elf_load, len, Step, first
<1>6. G(after)
  BY <1>4
<1> HIDE DEF after
<1>7. after[0] = first /\ \A s \in 1 .. len : after[s] = Step(after[s - 1], s)
  <2>1. \A s \in 0 .. len : after[s] = IF s = 0 THEN first ELSE Step(after[s - 1], s)
    BY <1>6
  <2> QED BY <1>1, <2>1
<1> DEFINE Done == {s \in 0 .. len : after[s] \in Loadings /\ SegmentsUpTo(after[s], ph, s)}
<1>8. 0 \in Done /\ \A s \in 1 .. len : s - 1 \in Done => s \in Done
  <2>1. 0 \in Done
    BY <1>1, <1>2, <1>7
  <2>2. \A s \in 1 .. len : s - 1 \in Done => s \in Done
    BY <1>3, <1>7
  <2> QED BY <2>1, <2>2
<1> HIDE DEF Done
<1>9. len \in Done
  <2>1. \A s \in 0 .. len : s \in Done
    BY <1>1, <1>8, Climbs
  <2> QED BY <1>1, <2>1
<1>10. st \in Loadings /\ SegmentsUpTo(st, ph, Len(ph))
  BY <1>9 DEF Done, len
<1> HIDE DEF st
<1> QED
  BY <1>5, <1>10

\* What has been loaded is the image, and the break is above it.
LEMMA ImageIs ==
  ASSUME NEW ph \in Seq(Headers), NEW st \in Loadings, ~st.failed,
         SegmentsUpTo(st, ph, Len(ph)), NEW s \in Segments(ph)
  PROVE  /\ PagesOf(ph[s]) \subseteq DOMAIN st.page
         /\ ph[s].vaddr % PageSize = 0 /\ Alone(ph, s) => AsLinked(ph, s, st.page)
         /\ \A p \in PagesOf(ph[s]) : p + PageSize <= RoundUp(st.max_end)
<1> DEFINE g == ph[s]
           v == g.vaddr
           end == g.vaddr + g.memsz
<1>1. /\ s \in Nat /\ g \in Headers /\ s <= Len(ph)
  <2>1. s \in DOMAIN ph
    BY DEF Segments
  <2> QED BY <2>1, LenProperties, ElementOfSeq
<1> HIDE DEF g
<1>2. /\ PageSize \in Nat \ {0} /\ v \in Nat /\ g.filesz \in Nat /\ g.memsz \in Nat
      /\ end \in Nat /\ end - 1 = v + g.memsz - 1
  BY <1>1, ElfLoadAssumption DEF Headers
<1>3. /\ PagesOf(g) \subseteq DOMAIN st.page
      /\ end <= st.max_end
      /\ Alone(ph, s) => \A q \in PagesOf(g) : st.page[q] = Filled(g, s, q)
  BY <1>1 DEF SegmentsUpTo, g
<1>4. PagesOf(g) = {RoundDown(a) : a \in v .. (end - 1)}
  BY <1>2 DEF PagesOf
<1>5. st.max_end \in Nat
  BY DEF Loadings
<1> HIDE DEF v, end
<1>6. ASSUME NEW p \in PagesOf(g) PROVE p + PageSize <= RoundUp(st.max_end)
  <2>1. PICK a \in v .. (end - 1) : p = RoundDown(a)
    BY <1>4
  <2>2. a \in Nat /\ a < st.max_end
    BY <1>2, <1>3, <1>5
  <2>3. PICK t \in Nat : p = t * PageSize /\ t * PageSize <= a
    BY <2>1, <2>2, InItsPage
  <2>4. PICK j \in Nat : RoundUp(st.max_end) = j * PageSize /\ st.max_end <= j * PageSize
    BY <1>5, AboveIt
  <2>5. t * PageSize \in Nat /\ j * PageSize \in Nat
    BY PagesApart
  <2>6. t * PageSize < j * PageSize
    BY <1>5, <2>2, <2>3, <2>4, <2>5
  <2>7. t * PageSize + PageSize <= j * PageSize
    BY <2>6, PagesApart
  <2> QED BY <2>3, <2>4, <2>7
<1>7. ASSUME v % PageSize = 0, Alone(ph, s), NEW a \in v .. (end - 1)
      PROVE  st.page[RoundDown(a)][a % PageSize] =
               IF a - v < g.filesz THEN Data(s, a - v) ELSE Zero
  <2>1. a \in Nat /\ v <= a
    BY <1>2
  <2>2. PICK t \in Nat : /\ RoundDown(a) = t * PageSize
                         /\ t * PageSize <= a /\ a < t * PageSize + PageSize
                         /\ a % PageSize = a - t * PageSize
                         /\ a % PageSize \in 0 .. (PageSize - 1)
    BY <2>1, InItsPage
  <2>3. PICK i \in Nat : /\ i * PageSize <= v /\ v % PageSize = v - i * PageSize
    BY <1>2, InItsPage
  <2>4. t * PageSize \in Nat /\ i * PageSize \in Nat
    BY PagesApart
  <2>5. v = i * PageSize
    BY <1>2, <1>7, <2>3, <2>4
  <2> DEFINE q == t * PageSize
             b == a % PageSize
  <2>6. v <= q
    <3>1. t < i => q + PageSize <= v
      BY <2>5, PagesApart
    <3>2. i < t => v + PageSize <= q
      BY <2>5, PagesApart
    <3>3. i = t => v = q
      BY <2>5
    <3>4. q \in Nat /\ q <= a /\ a < q + PageSize
      BY <2>2, <2>4
    <3> HIDE DEF q
    <3> QED BY <1>2, <2>1, <3>1, <3>2, <3>3, <3>4
  <2>7. st.page[q] = Filled(g, s, q)
    BY <1>3, <1>4, <1>7, <2>2
  <2>8. q + b - v = a - v
    <3>1. q \in Nat /\ b = a - q
      BY <2>2, <2>4
    <3> HIDE DEF q, b
    <3> QED BY <1>2, <2>1, <3>1
  <2>9. q \in Nat /\ v <= q /\ b \in 0 .. (PageSize - 1) /\ RoundDown(a) = q
    BY <2>2, <2>4, <2>6
  <2> HIDE DEF q, b
  <2>10. Filled(g, s, q)[b] = IF q + b - v < g.filesz THEN Data(s, q + b - v) ELSE Zero
    BY <1>1, <2>9, FilledIs DEF v
  <2> QED BY <2>7, <2>8, <2>9, <2>10 DEF b
<1>8. v % PageSize = 0 /\ Alone(ph, s) => AsLinked(ph, s, st.page)
  <2> SUFFICES ASSUME v % PageSize = 0, Alone(ph, s) PROVE AsLinked(ph, s, st.page)
    OBVIOUS
  <2>1. \A a \in v .. (v + g.memsz - 1) :
          st.page[RoundDown(a)][a % PageSize] =
            IF a - v < g.filesz THEN Data(s, a - v) ELSE Zero
    BY <1>2, <1>7
  <2> QED BY <2>1 DEF AsLinked, g, v
<1> QED
  BY <1>3, <1>6, <1>8 DEF g, v

-----------------------------------------------------------------------------
(* STRINGS AND MEMORY: module Lib *)

Memory == Seq(0 .. 255)

\* The least of a set of numbers.
LEMMA MinIs ==
  ASSUME NEW T, T \subseteq Nat, T # {}
  PROVE  Min(T) \in T /\ \A k \in T : Min(T) <= k
  BY LeastNat DEF Min

\* A function on 1 .. len is a sequence.
LEMMA IsSeq ==
  ASSUME NEW S, NEW len \in Nat, NEW g \in [1 .. len -> S]
  PROVE  g \in Seq(S) /\ Len(g) = len /\ DOMAIN g = 1 .. len
  OBVIOUS

LEMMA MemoryIs ==
  ASSUME NEW m \in Memory
  PROVE  /\ Len(m) \in Nat /\ DOMAIN m = 1 .. Len(m)
         /\ \A k \in 1 .. Len(m) : m[k] \in 0 .. 255
         /\ \A p \in Nat \ {0} : Offsets(m, p) = {k \in Nat : p + k <= Len(m)}
<1>1. /\ Len(m) \in Nat /\ DOMAIN m = 1 .. Len(m)
      /\ \A k \in 1 .. Len(m) : m[k] \in 0 .. 255
  BY LenProperties, ElementOfSeq DEF Memory
<1>2. Cardinality(DOMAIN m) = Len(m)
  <2> DEFINE b == Len(m)
  <2>1. 1 \in Int /\ b \in Int
    BY <1>1
  <2> HIDE DEF b
  <2>2. Cardinality(1 .. b) = IF 1 > b THEN 0 ELSE b - 1 + 1
    BY <2>1, FS_Interval, Zenon
  <2> QED BY <1>1, <2>2 DEF b
<1>3. \A p \in Nat \ {0} : Offsets(m, p) = {k \in Nat : p + k <= Len(m)}
  <2> SUFFICES ASSUME NEW p \in Nat \ {0}
               PROVE  Offsets(m, p) = {k \in Nat : p + k <= Len(m)}
    OBVIOUS
  <2>1. Offsets(m, p) = {k \in 0 .. Len(m) : p + k \in 1 .. Len(m)}
    BY <1>1, <1>2 DEF Offsets
  <2> QED BY <1>1, <2>1
<1> QED
  BY <1>1, <1>3

\* There is a string of len bytes at p.
String(m, p, len) ==
  /\ len \in Nat /\ p + len <= Len(m) /\ m[p + len] = 0
  /\ \A k \in 0 .. (len - 1) : m[p + k] # 0

LEMMA StringIs ==
  ASSUME NEW m \in Memory, NEW p \in Nat \ {0}, Terminated(m, p)
  PROVE  /\ String(m, p, strlen(m, p))
         /\ Len(Text(m, p)) = strlen(m, p) /\ Text(m, p) \in Seq(0 .. 255)
         /\ \A k \in 1 .. strlen(m, p) : Text(m, p)[k] = m[p + (k - 1)]
<1> DEFINE T == {k \in Offsets(m, p) : m[p + k] = 0}
           len == strlen(m, p)
<1>1. Offsets(m, p) = {k \in Nat : p + k <= Len(m)} /\ Len(m) \in Nat /\ DOMAIN m = 1 .. Len(m)
      /\ \A k \in 1 .. Len(m) : m[k] \in 0 .. 255
  BY MemoryIs
<1>2. T # {}
  <2>1. PICK e \in 1 .. Len(m) : p <= e /\ m[e] = 0
    BY <1>1 DEF Terminated
  <2>2. e - p \in Offsets(m, p) /\ p + (e - p) = e
    BY <1>1, <2>1
  <2> QED BY <2>1, <2>2
<1>3. len \in T /\ \A k \in T : len <= k
  <2>1. T \subseteq Nat
    BY <1>1
  <2>2. len = Min(T)
    BY DEF strlen
  <2> HIDE DEF T, len
  <2> QED BY <1>2, <2>1, <2>2, MinIs
<1> HIDE DEF len
<1>4. len \in Nat /\ p + len <= Len(m) /\ m[p + len] = 0
  BY <1>1, <1>3
<1>5. ASSUME NEW k \in 0 .. (len - 1), m[p + k] = 0 PROVE FALSE
  <2>1. k \in T
    BY <1>1, <1>4, <1>5
  <2> QED BY <1>3, <1>4, <2>1
<1>6. Text(m, p) = [k \in 1 .. len |-> m[p + (k - 1)]]
  <2>1. \A k \in 1 .. len : p + k - 1 = p + (k - 1)
    BY <1>4
  <2> QED BY <2>1 DEF Text, len
<1>7. \A k \in 1 .. len : m[p + (k - 1)] \in 0 .. 255
  <2>1. \A k \in 1 .. len : p + (k - 1) \in 1 .. Len(m)
    BY <1>1, <1>4
  <2> QED BY <1>1, <2>1
<1> DEFINE text == Text(m, p)
<1>8. text \in [1 .. len -> 0 .. 255] /\ \A k \in 1 .. len : text[k] = m[p + (k - 1)]
  BY <1>6, <1>7
<1> HIDE DEF text
<1>9. text \in Seq(0 .. 255) /\ Len(text) = len
  BY <1>4, <1>8
<1>10. String(m, p, len)
  BY <1>4, <1>5 DEF String
<1> QED
  BY <1>8, <1>9, <1>10 DEF len, text

\* All the bytes that are read are there, and none is read after it was written.
InOrder(m, d, s, ks) ==
  /\ \A i \in 1 .. Len(ks) : s + ks[i] \in DOMAIN m
  /\ \A i \in 1 .. Len(ks) : \A j \in 1 .. (i - 1) : d + ks[j] # s + ks[i]

\* r is m with what was at s at d, at the places ks from there.
CopyOf(r, m, d, s, ks) ==
  /\ r \in Memory /\ DOMAIN r = DOMAIN m
  /\ \A x \in DOMAIN m :
       r[x] = IF \E i \in 1 .. Len(ks) : x = d + ks[i] THEN m[s + (x - d)] ELSE m[x]

\* What copying each of ks in turn leaves.
LEMMA Copies ==
  ASSUME NEW m \in Memory, NEW d \in Nat \ {0}, NEW s \in Nat \ {0},
         NEW ks \in Seq(Nat), InOrder(m, d, s, ks)
  PROVE  CopyOf(CopyEach(m, d, s, ks), m, d, s, ks)
<1>0. /\ \A i \in 1 .. Len(ks) : s + ks[i] \in DOMAIN m
      /\ \A i \in 1 .. Len(ks) : \A j \in 1 .. (i - 1) : d + ks[j] # s + ks[i]
  BY DEF InOrder
<1> DEFINE T == [DOMAIN m -> 0 .. 255]
           len == Len(ks)
           Step(t, i) == [t EXCEPT ![d + ks[i]] = t[s + ks[i]]]
<1>1. /\ len \in Nat /\ \A i \in 1 .. len : ks[i] \in Nat
      /\ Len(m) \in Nat /\ DOMAIN m = 1 .. Len(m) /\ m \in T
  <2>1. Len(m) \in Nat /\ DOMAIN m = 1 .. Len(m) /\ m \in [1 .. Len(m) -> 0 .. 255]
    BY LenProperties, ZenonT(60) DEF Memory
  <2> QED BY <2>1, LenProperties, ElementOfSeq
<1>2. ASSUME NEW i \in 1 .. len, NEW t \in T PROVE Step(t, i) \in T
  <2>1. t[s + ks[i]] \in 0 .. 255
    BY <1>0
  <2> QED BY <2>1
<1> HIDE DEF Step, len
<1>3. PICK f \in [0 .. len -> T] : f = [i \in 0 .. len |-> IF i = 0 THEN m ELSE Step(f[i - 1], i)]
  <2> DEFINE F == [i \in 1 .. len |-> [t \in T |-> Step(t, i)]]
  <2> HIDE DEF T
  <2>1. F \in [1 .. len -> [T -> T]]
    BY <1>2
  <2>2. PICK f \in [0 .. len -> T] : Iterates(f, m, len, F)
    <3> HIDE DEF F
    <3>1. len \in Nat /\ m \in T
      BY <1>1
    <3> QED BY <2>1, <3>1, Iterated, Zenon
  <2>3. \A i \in 0 .. len : i # 0 => F[i][f[i - 1]] = Step(f[i - 1], i)
    BY <1>1
  <2> HIDE DEF F
  <2>4. f = [i \in 0 .. len |-> IF i = 0 THEN m ELSE Step(f[i - 1], i)]
    BY <2>2, <2>3 DEF Iterates
  <2> QED BY <2>4
<1> DEFINE G(h) == h = [i \in 0 .. len |-> IF i = 0 THEN m ELSE Step(h[i - 1], i)]
           copied == CHOOSE h : G(h)
<1>4. CopyEach(m, d, s, ks) = copied[len]
  BY DEF CopyEach, len, Step
<1>5. G(copied)
  BY <1>3
<1> HIDE DEF copied
<1>6. copied[0] = m /\ \A i \in 1 .. len : copied[i] = Step(copied[i - 1], i)
  <2> HIDE DEF T
  <2>1. \A i \in 0 .. len : copied[i] = IF i = 0 THEN m ELSE Step(copied[i - 1], i)
    BY <1>5
  <2>2. 0 \in 0 .. len /\ \A i \in 1 .. len : i \in 0 .. len /\ i # 0
    BY <1>1
  <2> HIDE DEF G
  <2> QED BY <2>1, <2>2, Zenon
<1> DEFINE Upto(t, i) ==
             \A x \in DOMAIN m :
               t[x] = IF \E j \in 1 .. i : x = d + ks[j] THEN m[s + (x - d)] ELSE m[x]
           S == {i \in 0 .. len : copied[i] \in T /\ Upto(copied[i], i)}
<1>7. 0 \in S
  <2>1. Upto(m, 0)
    OBVIOUS
  <2> HIDE DEF T, Upto
  <2> QED BY <1>1, <1>6, <2>1
<1>8. ASSUME NEW i \in 1 .. len, i - 1 \in S PROVE i \in S
  <2> DEFINE t == copied[i - 1]
             new == copied[i]
             at == d + ks[i]
             from == s + ks[i]
  <2>1. t \in T /\ Upto(t, i - 1) /\ new = Step(t, i)
    BY <1>6, <1>8
  <2> HIDE DEF t, new
  <2>2. new \in T
    BY <1>2, <2>1
  <2>3. new = [t EXCEPT ![at] = t[from]]
    BY <2>1 DEF Step
  <2>4. from \in DOMAIN m /\ at \in Nat /\ ks[i] \in Nat
        /\ \A j \in 1 .. (i - 1) : d + ks[j] # from
    BY <1>0, <1>1 DEF len
  <2> HIDE DEF at, from
  <2>5. t[from] = m[from]
    BY <2>1, <2>4
  <2>6. ASSUME NEW x \in DOMAIN m
        PROVE  new[x] = IF \E j \in 1 .. i : x = d + ks[j] THEN m[s + (x - d)] ELSE m[x]
    <3>1. new[x] = IF x = at THEN t[from] ELSE t[x]
      BY <2>1, <2>3
    <3>2. CASE x = at
      <4>1. s + (x - d) = from /\ \E j \in 1 .. i : x = d + ks[j]
        <5>1. s + (x - d) = from
          BY <2>4, <3>2 DEF at, from
        <5>2. i \in 1 .. i /\ x = d + ks[i]
          BY <1>1, <3>2 DEF at
        <5> QED BY <5>1, <5>2
      <4> QED BY <2>5, <3>1, <3>2, <4>1
    <3>3. CASE x # at
      <4>1. (\E j \in 1 .. i : x = d + ks[j]) <=> \E j \in 1 .. (i - 1) : x = d + ks[j]
        <5>1. \A j \in 1 .. i : j = i \/ j \in 1 .. (i - 1)
          OBVIOUS
        <5>2. \A j \in 1 .. (i - 1) : j \in 1 .. i
          OBVIOUS
        <5> QED BY <3>3, <5>1, <5>2 DEF at
      <4>2. t[x] = IF \E j \in 1 .. (i - 1) : x = d + ks[j] THEN m[s + (x - d)] ELSE m[x]
        BY <2>1
      <4> QED BY <3>1, <3>3, <4>1, <4>2
    <3> QED BY <3>2, <3>3
  <2>7. Upto(new, i)
    BY <2>6
  <2> HIDE DEF Upto
  <2> QED BY <2>2, <2>7 DEF new
<1>9. len \in S
  <2> HIDE DEF S
  <2>1. \A i \in 1 .. len : i - 1 \in S => i \in S
    BY <1>8
  <2>2. \A i \in 0 .. len : i \in S
    BY <1>1, <1>7, <2>1, Climbs
  <2> QED BY <1>1, <2>2
<1> DEFINE r == copied[len]
<1>10. r \in [1 .. Len(m) -> 0 .. 255] /\ Upto(r, len)
  BY <1>1, <1>9
<1> HIDE DEF r, S
<1>11. r \in Memory /\ DOMAIN r = DOMAIN m
  <2>1. r \in [1 .. Len(m) -> 0 .. 255] /\ Len(m) \in Nat /\ DOMAIN m = 1 .. Len(m)
    BY <1>1, <1>10
  <2> HIDE DEF T, Upto, G
  <2>2. r \in Seq(0 .. 255) /\ DOMAIN r = 1 .. Len(m)
    BY <2>1, IsSeq, Zenon
  <2> QED BY <2>1, <2>2, Zenon DEF Memory
<1> QED
  BY <1>4, <1>10, <1>11 DEF len, r, CopyOf

\* Copying bytes in either direction, so that none is read after it was written.
LEMMA CopyRange ==
  ASSUME NEW m \in Memory, NEW d \in Nat \ {0}, NEW s \in Nat \ {0}, NEW cnt \in Nat,
         There(m, s, cnt), NEW ks,
         \/ ks = Upwards(cnt) /\ (d < s \/ s + cnt <= d)
         \/ ks = Downwards(cnt) /\ d >= s
  PROVE  /\ CopyEach(m, d, s, ks) \in Memory
         /\ Changed(m, CopyEach(m, d, s, ks), d, Bytes(m, s, cnt))
<1>1. ks \in [1 .. cnt -> Nat] /\ \A i \in 1 .. cnt : ks[i] \in 0 .. (cnt - 1)
  BY DEF Upwards, Downwards
<1>2. ks \in Seq(Nat) /\ Len(ks) = cnt
  BY <1>1, IsSeq
<1>3. \A i \in 1 .. cnt : s + ks[i] \in DOMAIN m
  <2>1. \A i \in 1 .. cnt : s + ks[i] \in s .. (s + cnt - 1)
    BY <1>1
  <2> QED BY <2>1 DEF There
<1>4. \A i \in 1 .. cnt : \A j \in 1 .. (i - 1) : d + ks[j] # s + ks[i]
  <2>1. CASE ks = Upwards(cnt) /\ (d < s \/ s + cnt <= d)
    <3>1. \A i \in 1 .. cnt : ks[i] = i - 1
      BY <2>1 DEF Upwards
    <3> QED BY <2>1, <3>1
  <2>2. CASE ks = Downwards(cnt) /\ d >= s
    <3>1. \A i \in 1 .. cnt : ks[i] = cnt - i
      BY <2>2 DEF Downwards
    <3> QED BY <2>2, <3>1
  <2> QED BY <2>1, <2>2
<1>5. \A y \in 0 .. (cnt - 1) : \E i \in 1 .. cnt : ks[i] = y
  <2>1. CASE ks = Upwards(cnt)
    <3>1. \A y \in 0 .. (cnt - 1) : y + 1 \in 1 .. cnt /\ ks[y + 1] = y
      BY <2>1 DEF Upwards
    <3> QED BY <3>1
  <2>2. CASE ks = Downwards(cnt)
    <3>1. \A y \in 0 .. (cnt - 1) : cnt - y \in 1 .. cnt /\ ks[cnt - y] = y
      BY <2>2 DEF Downwards
    <3> QED BY <3>1
  <2> QED BY <2>1, <2>2
<1> DEFINE r == CopyEach(m, d, s, ks)
           bytes == Bytes(m, s, cnt)
<1>6. /\ r \in Memory /\ DOMAIN r = DOMAIN m
      /\ \A x \in DOMAIN m :
           r[x] = IF \E i \in 1 .. cnt : x = d + ks[i] THEN m[s + (x - d)] ELSE m[x]
  <2>1. InOrder(m, d, s, ks)
    BY <1>2, <1>3, <1>4 DEF InOrder
  <2>2. CopyOf(r, m, d, s, ks)
    BY <1>2, <2>1, Copies
  <2> HIDE DEF r
  <2> QED BY <1>2, <2>2 DEF CopyOf
<1> HIDE DEF r
<1>7. DOMAIN bytes = 1 .. cnt /\ \A k \in 1 .. cnt : bytes[k] = m[s + k - 1]
  BY DEF Bytes
<1> HIDE DEF bytes
<1>8. DOMAIN m \subseteq Nat
  BY MemoryIs
<1>9. ASSUME NEW x \in DOMAIN m
      PROVE  r[x] = IF x - d + 1 \in DOMAIN bytes THEN bytes[x - d + 1] ELSE m[x]
  <2>1. x \in Nat
    BY <1>8
  <2>2. (\E i \in 1 .. cnt : x = d + ks[i]) <=> x - d + 1 \in 1 .. cnt
    <3>1. ASSUME NEW i \in 1 .. cnt, x = d + ks[i] PROVE x - d + 1 \in 1 .. cnt
      BY <1>1, <2>1, <3>1
    <3>2. ASSUME x - d + 1 \in 1 .. cnt PROVE \E i \in 1 .. cnt : x = d + ks[i]
      <4>1. x - d \in 0 .. (cnt - 1)
        BY <2>1, <3>2
      <4>2. PICK i \in 1 .. cnt : ks[i] = x - d
        BY <1>5, <4>1
      <4> QED BY <2>1, <4>2
    <3> QED BY <3>1, <3>2
  <2>3. x - d + 1 \in 1 .. cnt => bytes[x - d + 1] = m[s + (x - d)]
    <3>1. s + (x - d + 1) - 1 = s + (x - d)
      BY <2>1
    <3> QED BY <1>7, <3>1
  <2> QED BY <1>6, <1>7, <2>2, <2>3
<1> QED
  BY <1>6, <1>9 DEF Changed, r, bytes

LEMMA Memsets ==
  ASSUME NEW m \in Memory, NEW d \in Nat, NEW c \in Nat, NEW cnt \in Nat
  PROVE  Changed(m, memset(m, d, c, cnt), d, [k \in 1 .. cnt |-> c % 256])
<1> DEFINE s == [k \in 1 .. cnt |-> c % 256]
           r == memset(m, d, c, cnt)
<1>1. DOMAIN s = 1 .. cnt /\ \A k \in 1 .. cnt : s[k] = c % 256
  OBVIOUS
<1>2. /\ DOMAIN r = DOMAIN m
      /\ \A x \in DOMAIN m : r[x] = IF x \in d .. (d + cnt - 1) THEN c % 256 ELSE m[x]
  BY DEF memset
<1>3. \A x \in DOMAIN m : x \in Nat
  BY MemoryIs
<1>4. \A x \in DOMAIN m : x \in d .. (d + cnt - 1) <=> x - d + 1 \in 1 .. cnt
  BY <1>3
<1> HIDE DEF s, r
<1>5. \A x \in DOMAIN m : r[x] = IF x - d + 1 \in DOMAIN s THEN s[x - d + 1] ELSE m[x]
  BY <1>1, <1>2, <1>4
<1> QED
  BY <1>2, <1>5 DEF Changed, s, r

LEMMA Memcopies ==
  ASSUME NEW m \in Memory, NEW d \in Nat \ {0}, NEW s \in Nat \ {0}, NEW cnt \in Nat,
         There(m, s, cnt), Apart(d, s, cnt)
  PROVE  /\ memcpy(m, d, s, cnt) \in Memory
         /\ Changed(m, memcpy(m, d, s, cnt), d, Bytes(m, s, cnt))
<1>1. CASE cnt # 0
  <2>1. d < s \/ s + cnt <= d
    BY <1>1 DEF Apart
  <2> QED BY <2>1, CopyRange DEF memcpy
<1>2. CASE cnt = 0
  <2>1. CASE d < s
    BY <2>1, CopyRange DEF memcpy
  <2>2. CASE s + cnt <= d
    BY <2>2, CopyRange DEF memcpy
  <2> QED BY <1>2, <2>1, <2>2
<1> QED
  BY <1>1, <1>2

LEMMA Memmoves ==
  ASSUME NEW m \in Memory, NEW d \in Nat \ {0}, NEW s \in Nat \ {0}, NEW cnt \in Nat,
         There(m, s, cnt)
  PROVE  Changed(m, memmove(m, d, s, cnt), d, Bytes(m, s, cnt))
<1>1. CASE d < s
  <2>1. memmove(m, d, s, cnt) = CopyEach(m, d, s, Upwards(cnt))
    BY <1>1 DEF memmove
  <2> QED BY <1>1, <2>1, CopyRange
<1>2. CASE d >= s
  <2>1. memmove(m, d, s, cnt) = CopyEach(m, d, s, Downwards(cnt))
    BY <1>2 DEF memmove
  <2> QED BY <1>2, <2>1, CopyRange
<1> QED
  BY <1>1, <1>2

\* The string at p is there, NUL included, with what the lemmas need of it.
LEMMA StringThere ==
  ASSUME NEW m \in Memory, NEW p \in Nat \ {0}, Terminated(m, p)
  PROVE  /\ strlen(m, p) \in Nat /\ There(m, p, Size(m, p)) /\ p + strlen(m, p) \in DOMAIN m
         /\ Bytes(m, p, Size(m, p)) = Append(Text(m, p), 0)
         /\ Append(Text(m, p), 0) \in [1 .. (strlen(m, p) + 1) -> 0 .. 255]
         /\ \A k \in 1 .. (strlen(m, p) + 1) :
              Append(Text(m, p), 0)[k] = IF k <= strlen(m, p) THEN Text(m, p)[k] ELSE 0
<1> DEFINE len == strlen(m, p)
           text == Text(m, p)
           whole == Append(text, 0)
<1>1. /\ String(m, p, len) /\ Len(text) = len /\ text \in Seq(0 .. 255)
      /\ \A k \in 1 .. len : text[k] = m[p + (k - 1)]
  BY StringIs
<1>2. len \in Nat /\ p + len <= Len(m) /\ m[p + len] = 0
  BY <1>1 DEF String
<1>3. Len(m) \in Nat /\ DOMAIN m = 1 .. Len(m)
  BY MemoryIs
<1> HIDE DEF len, text
<1>4. There(m, p, len + 1) /\ p + len \in DOMAIN m
  BY <1>2, <1>3 DEF There
<1>5. /\ whole \in Seq(0 .. 255) /\ Len(whole) = len + 1
      /\ \A k \in 1 .. (len + 1) : whole[k] = IF k <= len THEN text[k] ELSE 0
  <2>1. 0 \in 0 .. 255
    OBVIOUS
  <2> QED BY <1>1, <1>2, <2>1, AppendProperties
<1> HIDE DEF whole
<1>6. whole \in [1 .. (len + 1) -> 0 .. 255]
  <2>1. whole \in [1 .. Len(whole) -> 0 .. 255]
    BY <1>5, LenProperties
  <2> QED BY <1>5, <2>1
<1>7. Bytes(m, p, len + 1) = whole
  <2>1. \A k \in 1 .. (len + 1) : whole[k] = m[p + k - 1]
    <3> SUFFICES ASSUME NEW k \in 1 .. (len + 1) PROVE whole[k] = m[p + k - 1]
      OBVIOUS
    <3>1. p + k - 1 = p + (k - 1)
      BY <1>2
    <3>2. CASE k <= len
      BY <1>1, <1>2, <1>5, <3>1, <3>2
    <3>3. CASE k = len + 1
      <4>1. p + (k - 1) = p + len
        BY <1>2, <3>3
      <4> QED BY <1>2, <1>5, <3>1, <3>3, <4>1
    <3> QED BY <1>2, <3>2, <3>3
  <2>2. Bytes(m, p, len + 1) = [k \in 1 .. (len + 1) |-> m[p + k - 1]]
    BY DEF Bytes
  <2> QED BY <1>6, <2>1, <2>2
<1> QED
  BY <1>2, <1>4, <1>5, <1>6, <1>7 DEF whole, text, len, Size

LEMMA Strcpies ==
  ASSUME NEW m \in Memory, NEW d \in Nat \ {0}, NEW s \in Nat \ {0},
         Terminated(m, s), Apart(d, s, Size(m, s))
  PROVE  /\ strcpy(m, d, s) \in Memory
         /\ Changed(m, strcpy(m, d, s), d, Append(Text(m, s), 0))
<1> DEFINE z == Size(m, s)
<1>1. There(m, s, z) /\ z \in Nat /\ Bytes(m, s, z) = Append(Text(m, s), 0)
  BY StringThere DEF Size
<1>2. strcpy(m, d, s) = memcpy(m, d, s, z)
  BY DEF strcpy, Size
<1> HIDE DEF z
<1>3. Apart(d, s, z)
  BY DEF z
<1>4. memcpy(m, d, s, z) \in Memory /\ Changed(m, memcpy(m, d, s, z), d, Bytes(m, s, z))
  BY <1>1, <1>3, Memcopies
<1> QED
  BY <1>1, <1>2, <1>4

LEMMA Strcats ==
  ASSUME NEW m \in Memory, NEW d \in Nat \ {0}, NEW s \in Nat \ {0},
         Terminated(m, d), Terminated(m, s),
         Apart(d + strlen(m, d), s, Size(m, s))
  PROVE  Changed(m, strcat(m, d, s), d, Text(m, d) \o Append(Text(m, s), 0))
<1> DEFINE len == strlen(m, d)
           front == Text(m, d)
           back == Append(Text(m, s), 0)
           size == strlen(m, s) + 1
           all == front \o back
           r == strcat(m, d, s)
<1>1. /\ len \in Nat /\ front \in Seq(0 .. 255) /\ Len(front) = len
      /\ \A k \in 1 .. len : front[k] = m[d + (k - 1)]
      /\ d + len \in DOMAIN m
  BY StringIs, StringThere
<1>2. size \in Nat /\ back \in Seq(0 .. 255) /\ Len(back) = size /\ DOMAIN back = 1 .. size
  <2>1. size \in Nat /\ back \in [1 .. size -> 0 .. 255]
    BY StringThere, SMTT(60)
  <2> HIDE DEF size, back
  <2> QED BY <2>1, IsSeq
<1>3. Changed(m, r, d + len, back)
  <2>1. d + len \in Nat \ {0}
    BY <1>1
  <2>2. Apart(d + len, s, Size(m, s))
    OBVIOUS
  <2> HIDE DEF len, back
  <2>3. Changed(m, strcpy(m, d + len, s), d + len, Append(Text(m, s), 0))
    BY <2>1, <2>2, Strcpies
  <2> QED BY <2>3 DEF strcat, len, back
<1> HIDE DEF len, front, back, size, r
<1>4. all \in Seq(0 .. 255) /\ Joins(all, front, back)
  BY <1>1, <1>2, Joined
<1>5. DOMAIN all = 1 .. (len + size)
      /\ \A k \in 1 .. (len + size) : all[k] = IF k <= len THEN front[k] ELSE back[k - len]
  <2>1. Len(all) = len + size
        /\ \A k \in 1 .. (len + size) : all[k] = IF k <= len THEN front[k] ELSE back[k - len]
    BY <1>1, <1>2, <1>4 DEF Joins
  <2> HIDE DEF all
  <2> QED BY <1>4, <2>1, LenProperties
<1> HIDE DEF all
<1>6. /\ DOMAIN r = DOMAIN m
      /\ \A x \in DOMAIN m :
           r[x] = IF x - (d + len) + 1 \in DOMAIN back THEN back[x - (d + len) + 1] ELSE m[x]
  BY <1>3 DEF Changed
<1>7. \A x \in DOMAIN m : x \in Nat
  BY MemoryIs
<1>8. ASSUME NEW x \in DOMAIN m
      PROVE  r[x] = IF x - d + 1 \in DOMAIN all THEN all[x - d + 1] ELSE m[x]
  <2>1. x \in Nat
    BY <1>7
  <2>2. CASE x < d
    <3>1. x - d + 1 \notin 1 .. (len + size) /\ x - (d + len) + 1 \notin 1 .. size
      BY <1>1, <1>2, <2>1, <2>2
    <3> QED BY <1>2, <1>5, <1>6, <3>1
  <2>3. CASE d <= x /\ x < d + len
    <3>1. x - d + 1 \in 1 .. len /\ x - (d + len) + 1 \notin 1 .. size
          /\ x - d + 1 \in 1 .. (len + size)
      BY <1>1, <1>2, <2>1, <2>3
    <3>2. front[x - d + 1] = m[x]
      <4>1. PICK k \in 1 .. len : k = x - d + 1
        BY <3>1
      <4>2. d + (k - 1) = x
        BY <2>1, <4>1
      <4> QED BY <1>1, <4>1, <4>2
    <3>3. all[x - d + 1] = m[x]
      BY <1>5, <3>1, <3>2
    <3> QED BY <1>2, <1>5, <1>6, <3>1, <3>3
  <2>4. CASE d + len <= x /\ x < d + len + size
    <3>1. x - (d + len) + 1 \in 1 .. size /\ x - d + 1 \in 1 .. (len + size)
      BY <1>1, <1>2, <2>1, <2>4
    <3>2. PICK k \in 1 .. (len + size) : k = x - d + 1
      BY <3>1
    <3>3. ~ (k <= len) /\ k - len = x - (d + len) + 1
      BY <1>1, <2>1, <2>4, <3>2
    <3>4. all[k] = back[x - (d + len) + 1]
      BY <1>5, <3>3
    <3> QED BY <1>2, <1>5, <1>6, <3>1, <3>2, <3>4
  <2>5. CASE x >= d + len + size
    <3>1. x - d + 1 \notin 1 .. (len + size) /\ x - (d + len) + 1 \notin 1 .. size
      BY <1>1, <1>2, <2>1, <2>5
    <3> QED BY <1>2, <1>5, <1>6, <3>1
  <2> QED BY <1>1, <1>2, <2>1, <2>2, <2>3, <2>4, <2>5
<1> QED
  BY <1>6, <1>8 DEF Changed, r, all, front, back

LEMMA Strncpies ==
  ASSUME NEW m \in Memory, NEW d \in Nat \ {0}, NEW s \in Nat \ {0}, NEW max \in Nat,
         Terminated(m, s), Apart(d, s, Size(m, s)), Len(Text(m, s)) < max
  PROVE  Changed(m, strncpy(m, d, s, max), d,
                 Text(m, s) \o [k \in 1 .. (max - Len(Text(m, s))) |-> 0])
<1> DEFINE len == strlen(m, s)
           text == Text(m, s)
           zeros == [k \in 1 .. (max - len) |-> 0]
           all == text \o zeros
           mid == strcpy(m, d, s)
           r == strncpy(m, d, s, max)
           whole == Append(text, 0)
           pad == [k \in 1 .. (max - len - 1) |-> 0 % 256]
<1>1. len \in Nat /\ text \in Seq(0 .. 255) /\ Len(text) = len /\ len < max
  BY StringIs, StringThere
<1>2. DOMAIN whole = 1 .. (len + 1)
      /\ \A k \in 1 .. (len + 1) : whole[k] = IF k <= len THEN text[k] ELSE 0
  BY StringThere
<1>3. mid \in Memory /\ Changed(m, mid, d, whole)
  BY Strcpies
<1> HIDE DEF mid, whole
<1>4. Changed(mid, r, d + len + 1, pad)
  <2>1. r = memset(mid, d + len + 1, 0, max - len - 1)
    BY <1>1 DEF strncpy, mid
  <2>2. d + len + 1 \in Nat /\ max - len - 1 \in Nat /\ 0 \in Nat
    BY <1>1
  <2> HIDE DEF len, r
  <2> QED BY <1>3, <2>1, <2>2, Memsets
<1>5. DOMAIN pad = 1 .. (max - len - 1) /\ \A k \in 1 .. (max - len - 1) : pad[k] = 0
  OBVIOUS
<1>6. zeros \in Seq(0 .. 255) /\ Len(zeros) = max - len
      /\ \A k \in 1 .. (max - len) : zeros[k] = 0
  <2>1. max - len \in Nat
    BY <1>1
  <2>2. zeros \in [1 .. (max - len) -> 0 .. 255]
    OBVIOUS
  <2>3. \A k \in 1 .. (max - len) : zeros[k] = 0
    OBVIOUS
  <2> HIDE DEF zeros, len
  <2> QED BY <2>1, <2>2, <2>3, IsSeq, SMTT(60)
<1>7. all = Text(m, s) \o [k \in 1 .. (max - Len(Text(m, s))) |-> 0]
  BY <1>1
<1> HIDE DEF zeros, len, text, r, pad
<1>8. all \in Seq(0 .. 255) /\ Joins(all, text, zeros)
  BY <1>1, <1>6, Joined
<1>9. DOMAIN all = 1 .. max
      /\ \A k \in 1 .. max : all[k] = IF k <= len THEN text[k] ELSE 0
  <2>1. Len(all) = max
    BY <1>1, <1>6, <1>8 DEF Joins
  <2>2. \A k \in 1 .. max : all[k] = IF k <= len THEN text[k] ELSE zeros[k - len]
    <3>1. len + (max - len) = max
      BY <1>1
    <3> QED BY <1>1, <1>6, <1>8, <3>1 DEF Joins
  <2>3. \A k \in 1 .. max : ~ (k <= len) => k - len \in 1 .. (max - len)
    BY <1>1
  <2> HIDE DEF all
  <2> QED BY <1>6, <1>8, <2>1, <2>2, <2>3, LenProperties
<1> HIDE DEF all
<1>10. /\ DOMAIN mid = DOMAIN m
       /\ \A x \in DOMAIN m : mid[x] = IF x - d + 1 \in DOMAIN whole THEN whole[x - d + 1] ELSE m[x]
  BY <1>3 DEF Changed
<1>11. /\ DOMAIN r = DOMAIN m
       /\ \A x \in DOMAIN m :
            r[x] = IF x - (d + len + 1) + 1 \in DOMAIN pad
                   THEN pad[x - (d + len + 1) + 1] ELSE mid[x]
  BY <1>4, <1>10 DEF Changed
<1>12. \A x \in DOMAIN m : x \in Nat
  BY MemoryIs
<1>13. ASSUME NEW x \in DOMAIN m
       PROVE  r[x] = IF x - d + 1 \in DOMAIN all THEN all[x - d + 1] ELSE m[x]
  <2>1. x \in Nat
    BY <1>12
  <2>2. CASE d + len < x /\ x < d + max
    <3>1. /\ x - (d + len + 1) + 1 \in 1 .. (max - len - 1)
          /\ x - d + 1 \in 1 .. max /\ ~ (x - d + 1 <= len)
      BY <1>1, <2>1, <2>2
    <3> QED BY <1>5, <1>9, <1>11, <3>1
  <2>3. CASE d <= x /\ x <= d + len
    <3>1. /\ x - (d + len + 1) + 1 \notin 1 .. (max - len - 1)
          /\ x - d + 1 \in 1 .. max /\ x - d + 1 \in 1 .. (len + 1)
      BY <1>1, <2>1, <2>3, SMTT(60)
    <3> QED BY <1>2, <1>5, <1>9, <1>10, <1>11, <3>1
  <2>4. CASE x < d \/ x >= d + max
    <3>1. /\ x - (d + len + 1) + 1 \notin 1 .. (max - len - 1)
          /\ x - d + 1 \notin 1 .. max /\ x - d + 1 \notin 1 .. (len + 1)
      BY <1>1, <2>1, <2>4, SMTT(60)
    <3> QED BY <1>2, <1>5, <1>9, <1>10, <1>11, <3>1
  <2> QED BY <1>1, <2>1, <2>2, <2>3, <2>4
<1> QED
  BY <1>7, <1>11, <1>13 DEF Changed, r

LEMMA SameFunction ==
  ASSUME NEW D, NEW S, NEW a \in [D -> S], NEW b \in [D -> S]
  PROVE  a = b <=> \A i \in D : a[i] = b[i]
  OBVIOUS

\* A prefix, element by element.
LEMMA PrefixIs ==
  ASSUME NEW S, NEW s \in Seq(S), NEW t \in Seq(S)
  PROVE  IsPrefix(s, t) <=> Len(s) <= Len(t) /\ \A i \in 1 .. Len(s) : s[i] = t[i]
<1>1. /\ Len(s) \in Nat /\ Len(t) \in Nat /\ s \in [1 .. Len(s) -> S]
  BY LenProperties
<1>2. IsPrefix(s, t) <=> Len(s) <= Len(t) /\ SubSeq(s, 1, Len(s)) = SubSeq(t, 1, Len(s))
  BY DEF IsPrefix
<1> SUFFICES ASSUME Len(s) <= Len(t)
             PROVE  SubSeq(s, 1, Len(s)) = SubSeq(t, 1, Len(s)) <=>
                      \A i \in 1 .. Len(s) : s[i] = t[i]
  BY <1>2
<1> DEFINE a == SubSeq(s, 1, Len(s))
           b == SubSeq(t, 1, Len(s))
           len == Len(s)
<1>3. /\ a \in Seq(S) /\ b \in Seq(S) /\ Len(a) = len /\ Len(b) = len
      /\ \A i \in 1 .. len : a[i] = s[i] /\ b[i] = t[i]
  <2>1. CASE len = 0
    <3>1. a = << >> /\ b = << >>
      BY <1>1, <2>1, SubSeqProperties
    <3>2. << >> \in Seq(S) /\ Len(<< >>) = 0
      OBVIOUS
    <3> QED BY <2>1, <3>1, <3>2
  <2>2. CASE len # 0
    <3>1. len \in Nat /\ 1 <= len /\ len <= Len(t) /\ len - 1 + 1 = len
      BY <1>1, <2>2
    <3>2. Takes(a, s, 1, len) /\ Takes(b, t, 1, len) /\ a \in Seq(S) /\ b \in Seq(S)
      BY <1>1, <3>1, Part
    <3> HIDE DEF a, b, len
    <3>3. \A i \in 1 .. len : 1 + i - 1 = i
      BY <3>1
    <3> QED BY <3>1, <3>2, <3>3 DEF Takes
  <2> QED BY <2>1, <2>2
<1> HIDE DEF a, b
<1>4. a = b <=> \A i \in 1 .. len : a[i] = b[i]
  <2>1. a \in [1 .. len -> S] /\ b \in [1 .. len -> S]
    <3> HIDE DEF len
    <3> QED BY <1>3, LenProperties
  <2> DEFINE D == 1 .. len
  <2>2. a \in [D -> S] /\ b \in [D -> S]
    BY <2>1
  <2> HIDE DEF D
  <2>3. a = b <=> \A i \in D : a[i] = b[i]
    BY <2>2, SameFunction
  <2> QED BY <2>3 DEF D
<1> QED
  BY <1>3, <1>4 DEF a, b

\* s and t agree for k bytes.
Agree(s, t, k) ==
  k \in Nat /\ k <= Len(s) /\ k <= Len(t) /\ \A i \in 1 .. k : s[i] = t[i]

\* The arithmetic of a difference of bytes.
LEMMA Differ ==
  ASSUME NEW x \in 0 .. 255, NEW y \in 0 .. 255
  PROVE  ~ (x < x) /\ (x - y = 0 <=> x = y) /\ (x - y < 0 <=> x < y)
  OBVIOUS

\* How the byte behind the first k, or the end, orders two sequences that agree so far.
LEMMA Ordered ==
  ASSUME NEW s \in Memory, NEW t \in Memory, NEW k, Agree(s, t, k)
  PROVE  /\ Len(s) = k /\ Len(t) = k => Orders(0, s, t)
         /\ k < Len(s) /\ k < Len(t) /\ s[k + 1] # t[k + 1] => Orders(s[k + 1] - t[k + 1], s, t)
         /\ Len(s) = k /\ k < Len(t) => \A r \in Int : r < 0 => Orders(r, s, t)
         /\ k < Len(s) /\ Len(t) = k => \A r \in Int : r > 0 => Orders(r, s, t)
<1>1. /\ Len(s) \in Nat /\ s \in [1 .. Len(s) -> 0 .. 255] /\ DOMAIN s = 1 .. Len(s)
      /\ Len(t) \in Nat /\ t \in [1 .. Len(t) -> 0 .. 255] /\ DOMAIN t = 1 .. Len(t)
  BY LenProperties, ZenonT(60) DEF Memory
<1>2. k \in Nat /\ k <= Len(s) /\ k <= Len(t) /\ \A i \in 1 .. k : s[i] = t[i]
  BY DEF Agree
<1> DEFINE a == Len(s)
           b == Len(t)
           prefix == a <= b /\ \A i \in 1 .. a : s[i] = t[i]
           less == \E i \in (1 .. a) \cap (1 .. b) : s[i] < t[i] /\ \A j \in 1 .. (i - 1) : s[j] = t[j]
<1>3. Before(s, t) <=> (prefix /\ s # t) \/ less
  BY <1>1, PrefixIs, SMTT(60) DEF Before, IsStrictPrefix, Memory
<1>4. s = t => a = b /\ \A i \in 1 .. a : s[i] = t[i]
  OBVIOUS
<1>5. a = b /\ (\A i \in 1 .. a : s[i] = t[i]) => s = t
  BY <1>1
<1>6. a \in Nat /\ b \in Nat /\ (\A i \in 1 .. a : s[i] \in 0 .. 255) /\ \A i \in 1 .. b : t[i] \in 0 .. 255
  BY <1>1
<1> HIDE DEF a, b, less
<1>7. ASSUME a = k, b = k PROVE Orders(0, s, t)
  <2>1. s = t
    BY <1>2, <1>5, <1>7
  <2>2. ~ less
    BY <1>6, <2>1, Differ, Zenon DEF less
  <2> QED BY <1>3, <2>1, <2>2 DEF Orders
<1>8. ASSUME k < a, k < b, s[k + 1] # t[k + 1] PROVE Orders(s[k + 1] - t[k + 1], s, t)
  <2>1. k + 1 \in 1 .. a /\ k + 1 \in 1 .. b /\ s[k + 1] \in 0 .. 255 /\ t[k + 1] \in 0 .. 255
    BY <1>2, <1>6, <1>8
  <2>2. s # t /\ ~ prefix
    BY <1>8, <2>1
  <2>3. less <=> s[k + 1] < t[k + 1]
    <3>1. ASSUME s[k + 1] < t[k + 1] PROVE less
      <4> DEFINE i == k + 1
      <4>1. i \in (1 .. a) \cap (1 .. b) /\ i - 1 = k
        BY <1>2, <2>1
      <4>2. s[i] < t[i]
        BY <3>1
      <4> HIDE DEF i
      <4>3. \A j \in 1 .. (i - 1) : s[j] = t[j]
        BY <1>2, <4>1, Zenon
      <4> QED BY <4>1, <4>2, <4>3, Zenon DEF less
    <3>2. ASSUME less PROVE s[k + 1] < t[k + 1]
      <4>1. PICK i \in (1 .. a) \cap (1 .. b) : s[i] < t[i] /\ \A j \in 1 .. (i - 1) : s[j] = t[j]
        BY <3>2 DEF less
      <4>2. CASE i <= k
        <5>1. i \in 1 .. k /\ s[i] \in 0 .. 255
          BY <1>2, <1>6, <4>2
        <5> QED BY <1>2, <4>1, <5>1, Differ, Zenon
      <4>3. CASE i > k + 1
        <5>1. k + 1 \in 1 .. (i - 1)
          BY <1>2, <4>3
        <5> QED BY <1>8, <4>1, <5>1
      <4>4. i = k + 1 \/ i <= k \/ i > k + 1
        BY <1>2
      <4> QED BY <4>1, <4>2, <4>3, <4>4
    <3> QED BY <3>1, <3>2
  <2> DEFINE x == s[k + 1]
             y == t[k + 1]
  <2>0. x \in 0 .. 255 /\ y \in 0 .. 255
    BY <2>1
  <2> HIDE DEF x, y, prefix
  <2>4. (x - y = 0 <=> x = y) /\ (x - y < 0 <=> x < y)
    BY <2>0, Differ
  <2>5. Orders(x - y, s, t)
    BY <1>3, <1>8, <2>2, <2>3, <2>4 DEF Orders, x, y
  <2> QED BY <2>5 DEF x, y
<1>9. ASSUME a = k, k < b, NEW r \in Int, r < 0 PROVE Orders(r, s, t)
  <2>1. prefix /\ s # t
    <3>1. a <= b /\ a # b
      BY <1>2, <1>6, <1>9
    <3> QED BY <1>2, <1>4, <1>9, <3>1, Zenon
  <2> HIDE DEF prefix
  <2> QED BY <1>3, <1>9, <2>1 DEF Orders
<1>10. ASSUME k < a, b = k, NEW r \in Int, r > 0 PROVE Orders(r, s, t)
  <2>1. ~ prefix /\ s # t
    BY <1>2, <1>4, <1>6, <1>10
  <2>2. ~ less
    <3> SUFFICES ASSUME less PROVE FALSE
      OBVIOUS
    <3>1. PICK i \in (1 .. a) \cap (1 .. b) : s[i] < t[i]
      BY DEF less
    <3>2. i \in 1 .. k /\ s[i] \in 0 .. 255
      BY <1>6, <1>10
    <3> QED BY <1>2, <3>1, <3>2, Differ, Zenon
  <2>3. r # 0 /\ ~ (r < 0)
    BY <1>10
  <2> HIDE DEF prefix
  <2> QED BY <1>3, <2>1, <2>2, <2>3 DEF Orders
<1> QED
  BY <1>7, <1>8, <1>9, <1>10 DEF a, b

LEMMA PrefixOf ==
  ASSUME NEW s \in Memory, NEW max \in Nat
  PROVE  /\ Prefix(s, max) \in Memory
         /\ Len(Prefix(s, max)) = IF Len(s) < max THEN Len(s) ELSE max
         /\ \A i \in 1 .. Len(Prefix(s, max)) : Prefix(s, max)[i] = s[i]
<1> DEFINE len == IF Len(s) < max THEN Len(s) ELSE max
           p == Prefix(s, max)
<1>1. len \in Nat /\ len <= Len(s) /\ Len(s) \in Nat
  BY MemoryIs
<1>2. p = SubSeq(s, 1, len)
  BY DEF Prefix
<1> HIDE DEF len, p
<1>3. CASE len = 0
  <2>1. p = << >>
    BY <1>1, <1>2, <1>3, SubSeqProperties DEF Memory
  <2>2. p \in Memory /\ Len(p) = 0
    BY <2>1, EmptySeq DEF Memory
  <2> QED BY <1>3, <2>2 DEF len, p
<1>4. CASE len # 0
  <2>1. 1 <= len /\ len - 1 + 1 = len /\ \A i \in 1 .. len : 1 + i - 1 = i
    BY <1>1, <1>4
  <2>2. p \in Memory /\ Takes(p, s, 1, len)
    BY <1>1, <1>2, <2>1, Part, SMTT(60) DEF Memory
  <2> QED BY <2>1, <2>2 DEF Takes, len, p
<1> QED
  BY <1>3, <1>4

\* s is at p in m.
Lies(m, p, s) == \A i \in 1 .. Len(s) : s[i] = m[p + (i - 1)]

LEMMA BytesAre ==
  ASSUME NEW m \in Memory, NEW p \in Nat \ {0}, NEW cnt \in Nat, There(m, p, cnt)
  PROVE  Bytes(m, p, cnt) \in Memory /\ Len(Bytes(m, p, cnt)) = cnt /\ Lies(m, p, Bytes(m, p, cnt))
<1> DEFINE s == Bytes(m, p, cnt)
<1>1. DOMAIN m = 1 .. Len(m) /\ \A k \in 1 .. Len(m) : m[k] \in 0 .. 255
  BY MemoryIs
<1>2. \A i \in 1 .. cnt : p + i - 1 = p + (i - 1) /\ p + i - 1 \in p .. (p + cnt - 1)
  OBVIOUS
<1>3. s = [i \in 1 .. cnt |-> m[p + (i - 1)]]
  BY <1>2 DEF Bytes
<1>4. \A i \in 1 .. cnt : m[p + (i - 1)] \in 0 .. 255
  BY <1>1, <1>2 DEF There
<1> HIDE DEF s
<1>5. s \in [1 .. cnt -> 0 .. 255] /\ \A i \in 1 .. cnt : s[i] = m[p + (i - 1)]
  BY <1>3, <1>4
<1>6. s \in Seq(0 .. 255) /\ Len(s) = cnt
  BY <1>5, IsSeq
<1> QED
  BY <1>5, <1>6 DEF Lies, Memory, s

LEMMA Memcmps ==
  ASSUME NEW m \in Memory, NEW a \in Nat \ {0}, NEW b \in Nat \ {0}, NEW cnt \in Nat,
         There(m, a, cnt), There(m, b, cnt)
  PROVE  Orders(memcmp(m, a, b, cnt), Bytes(m, a, cnt), Bytes(m, b, cnt))
<1> DEFINE T == {i \in 0 .. cnt : i = cnt \/ m[a + i] # m[b + i]}
           k == Min(T)
           s == Bytes(m, a, cnt)
           t == Bytes(m, b, cnt)
           r == memcmp(m, a, b, cnt)
<1>1. k \in T /\ \A i \in T : k <= i
  <2>1. T \subseteq Nat /\ T # {}
    OBVIOUS
  <2> HIDE DEF T
  <2> QED BY <2>1, MinIs
<1>2. r = IF k = cnt THEN 0 ELSE m[a + k] - m[b + k]
  BY DEF memcmp
<1> HIDE DEF k, r
<1>3. k \in 0 .. cnt /\ (k # cnt => m[a + k] # m[b + k])
  BY <1>1
<1>4. \A i \in 0 .. (k - 1) : m[a + i] = m[b + i]
  <2> SUFFICES ASSUME NEW i \in 0 .. (k - 1), m[a + i] # m[b + i] PROVE FALSE
    OBVIOUS
  <2>1. i \in T /\ i < k
    BY <1>3
  <2> HIDE DEF T
  <2> QED BY <1>1, <1>3, <2>1
<1>5. s \in Memory /\ t \in Memory /\ Len(s) = cnt /\ Len(t) = cnt
      /\ \A i \in 1 .. cnt : s[i] = m[a + (i - 1)] /\ t[i] = m[b + (i - 1)]
  BY BytesAre DEF Lies
<1> HIDE DEF s, t, T
<1>6. Agree(s, t, k)
  <2>1. \A i \in 1 .. k : i \in 1 .. cnt /\ i - 1 \in 0 .. (k - 1)
    BY <1>3
  <2>2. \A i \in 1 .. k : s[i] = t[i]
    BY <1>4, <1>5, <2>1
  <2>3. k \in Nat /\ k <= cnt
    BY <1>3
  <2> QED BY <1>5, <2>2, <2>3 DEF Agree
<1>7. CASE k = cnt
  BY <1>2, <1>5, <1>6, <1>7, Ordered DEF r, s, t
<1>8. CASE k # cnt
  <2>1. k + 1 \in 1 .. cnt /\ k + 1 - 1 = k /\ k < cnt
    BY <1>3, <1>8
  <2>2. s[k + 1] = m[a + k] /\ t[k + 1] = m[b + k]
    <3>1. PICK i \in 1 .. cnt : i = k + 1 /\ i - 1 = k
      BY <1>3, <2>1
    <3>2. s[i] = m[a + (i - 1)] /\ t[i] = m[b + (i - 1)]
      BY <1>5
    <3> QED BY <3>1, <3>2, Zenon
  <2>3. Orders(s[k + 1] - t[k + 1], s, t)
    BY <1>3, <1>5, <1>6, <1>8, <2>1, <2>2, Ordered
  <2> QED BY <1>2, <1>8, <2>2, <2>3 DEF r, s, t
<1> QED
  BY <1>7, <1>8

\* Two strings, or their beginnings s and t, compared at the first place where one
\* ends or they differ.
LEMMA Compared ==
  ASSUME NEW m \in Memory, NEW a \in Nat \ {0}, NEW b \in Nat \ {0}, NEW la, NEW lb,
         String(m, a, la), String(m, b, lb),
         NEW s \in Memory, NEW t \in Memory, Lies(m, a, s), Lies(m, b, t), NEW k \in Nat,
         k < Len(s) \/ (k = Len(s) /\ k = la), k < Len(t) \/ (k = Len(t) /\ k = lb),
         Len(s) <= la, Len(t) <= lb,
         \A i \in 0 .. (k - 1) : m[a + i] = m[b + i],
         m[a + k] = 0 \/ m[a + k] # m[b + k]
  PROVE  Orders(m[a + k] - m[b + k], s, t)
<1>1. /\ la \in Nat /\ a + la <= Len(m) /\ m[a + la] = 0 /\ \A i \in 0 .. (la - 1) : m[a + i] # 0
      /\ lb \in Nat /\ b + lb <= Len(m) /\ m[b + lb] = 0 /\ \A i \in 0 .. (lb - 1) : m[b + i] # 0
  BY DEF String
<1>2. /\ Len(m) \in Nat /\ \A i \in 1 .. Len(m) : m[i] \in 0 .. 255
      /\ Len(s) \in Nat /\ Len(t) \in Nat
  BY MemoryIs
<1>3. \A i \in 1 .. Len(s) : s[i] = m[a + (i - 1)]
  BY DEF Lies
<1>4. \A i \in 1 .. Len(t) : t[i] = m[b + (i - 1)]
  BY DEF Lies
<1>5. Agree(s, t, k)
  <2>1. \A i \in 1 .. k : i \in 1 .. Len(s) /\ i \in 1 .. Len(t) /\ i - 1 \in 0 .. (k - 1)
    BY <1>2
  <2>2. \A i \in 1 .. k : s[i] = t[i]
    BY <1>3, <1>4, <2>1
  <2>3. k <= Len(s) /\ k <= Len(t)
    BY <1>2
  <2> QED BY <2>2, <2>3 DEF Agree
<1> DEFINE x == m[a + k]
           y == m[b + k]
<1>6. x \in 0 .. 255 /\ y \in 0 .. 255
  <2>1. a + k \in 1 .. Len(m) /\ b + k \in 1 .. Len(m)
    BY <1>1, <1>2, SMTT(60)
  <2> QED BY <1>2, <2>1
<1>7. /\ k < Len(s) => x # 0 /\ s[k + 1] = x
      /\ k < Len(t) => y # 0 /\ t[k + 1] = y
      /\ k = la => x = 0
      /\ k = lb => y = 0
  <2>1. k + 1 - 1 = k
    OBVIOUS
  <2>2. k < Len(s) => k + 1 \in 1 .. Len(s) /\ k \in 0 .. (la - 1)
    BY <1>1, <1>2
  <2>3. k < Len(t) => k + 1 \in 1 .. Len(t) /\ k \in 0 .. (lb - 1)
    BY <1>1, <1>2
  <2>4. k < Len(s) => s[k + 1] = x
    BY <1>3, <2>1, <2>2
  <2>5. k < Len(t) => t[k + 1] = y
    BY <1>4, <2>1, <2>3
  <2> QED BY <1>1, <2>2, <2>3, <2>4, <2>5
<1>8. x = 0 \/ x # y
  OBVIOUS
<1>9. /\ k < Len(s) \/ (k = Len(s) /\ k = la)
      /\ k < Len(t) \/ (k = Len(t) /\ k = lb)
  OBVIOUS
<1> HIDE DEF x, y
<1>10. CASE k < Len(s) /\ k < Len(t)
  <2>1. s[k + 1] # t[k + 1] /\ s[k + 1] - t[k + 1] = x - y
    BY <1>7, <1>8, <1>10
  <2> QED BY <1>5, <1>10, <2>1, Ordered DEF x, y
<1>11. CASE k < Len(s) /\ k = Len(t) /\ k = lb
  <2>1. x - y \in Int /\ x - y > 0
    BY <1>6, <1>7, <1>11
  <2> QED BY <1>5, <1>11, <2>1, Ordered DEF x, y
<1>12. CASE k = Len(s) /\ k = la /\ k < Len(t)
  <2>1. x - y \in Int /\ x - y < 0
    BY <1>6, <1>7, <1>12
  <2> QED BY <1>5, <1>12, <2>1, Ordered DEF x, y
<1>13. CASE k = Len(s) /\ k = la /\ k = Len(t) /\ k = lb
  <2>1. x - y = 0
    BY <1>7, <1>13
  <2> QED BY <1>5, <1>13, <2>1, Ordered DEF x, y
<1> QED
  BY <1>9, <1>10, <1>11, <1>12, <1>13

LEMMA Strcmps ==
  ASSUME NEW m \in Memory, NEW a \in Nat \ {0}, NEW b \in Nat \ {0},
         Terminated(m, a), Terminated(m, b)
  PROVE  Orders(strcmp(m, a, b), Text(m, a), Text(m, b))
<1> DEFINE T == {i \in Offsets(m, a) \cap Offsets(m, b) : m[a + i] = 0 \/ m[a + i] # m[b + i]}
           k == Min(T)
           la == strlen(m, a)
           lb == strlen(m, b)
           s == Text(m, a)
           t == Text(m, b)
<1>1. /\ String(m, a, la) /\ s \in Memory /\ Len(s) = la /\ Lies(m, a, s)
      /\ String(m, b, lb) /\ t \in Memory /\ Len(t) = lb /\ Lies(m, b, t)
  BY StringIs DEF Memory, Lies
<1>2. strcmp(m, a, b) = m[a + k] - m[b + k]
  BY DEF strcmp
<1>3. /\ Offsets(m, a) = {i \in Nat : a + i <= Len(m)} /\ Offsets(m, b) = {i \in Nat : b + i <= Len(m)}
      /\ Len(m) \in Nat
  BY MemoryIs
<1> HIDE DEF la, lb, s, t
<1>4. /\ la \in Nat /\ a + la <= Len(m) /\ m[a + la] = 0 /\ \A i \in 0 .. (la - 1) : m[a + i] # 0
      /\ lb \in Nat /\ b + lb <= Len(m) /\ m[b + lb] = 0 /\ \A i \in 0 .. (lb - 1) : m[b + i] # 0
  BY <1>1 DEF String
<1>5. /\ \A i \in T : i \in Nat /\ a + i <= Len(m) /\ b + i <= Len(m)
                      /\ (m[a + i] = 0 \/ m[a + i] # m[b + i])
      /\ \A i \in Nat : a + i <= Len(m) /\ b + i <= Len(m) /\ (m[a + i] = 0 \/ m[a + i] # m[b + i])
                        => i \in T
  BY <1>3
<1> HIDE DEF T
<1> DEFINE low == IF la < lb THEN la ELSE lb
<1>6. low \in T
  <2>1. low \in Nat /\ a + low <= Len(m) /\ b + low <= Len(m)
    BY <1>3, <1>4
  <2>2. m[a + low] = 0 \/ m[a + low] # m[b + low]
    BY <1>4
  <2> QED BY <1>5, <2>1, <2>2
<1>7. k \in T /\ \A i \in T : k <= i
  <2>1. T \subseteq Nat /\ T # {}
    BY <1>5, <1>6
  <2> QED BY <2>1, MinIs
<1> HIDE DEF k
<1>8. k \in Nat /\ a + k <= Len(m) /\ b + k <= Len(m) /\ (m[a + k] = 0 \/ m[a + k] # m[b + k])
      /\ k <= la /\ k <= lb
  BY <1>4, <1>5, <1>6, <1>7
<1>9. \A i \in 0 .. (k - 1) : m[a + i] = m[b + i]
  <2> SUFFICES ASSUME NEW i \in 0 .. (k - 1), m[a + i] # m[b + i] PROVE FALSE
    OBVIOUS
  <2>1. i \in Nat /\ a + i <= Len(m) /\ b + i <= Len(m) /\ i < k
    BY <1>3, <1>8
  <2>2. i \in T
    BY <1>5, <2>1
  <2> QED BY <1>7, <1>8, <2>1, <2>2
<1>10. /\ k < Len(s) \/ (k = Len(s) /\ k = la)
       /\ k < Len(t) \/ (k = Len(t) /\ k = lb)
       /\ Len(s) <= la /\ Len(t) <= lb
  BY <1>1, <1>4, <1>8
<1>11. Orders(m[a + k] - m[b + k], s, t)
  BY <1>1, <1>8, <1>9, <1>10, Compared
<1> QED
  BY <1>2, <1>11 DEF k, s, t

LEMMA Strncmps ==
  ASSUME NEW m \in Memory, NEW a \in Nat \ {0}, NEW b \in Nat \ {0}, NEW max \in Nat,
         Terminated(m, a), Terminated(m, b)
  PROVE  Orders(strncmp(m, a, b, max), Prefix(Text(m, a), max), Prefix(Text(m, b), max))
<1> DEFINE T == {i \in 0 .. max : i = max \/ m[a + i] = 0 \/ m[a + i] # m[b + i]}
           k == Min(T)
           la == strlen(m, a)
           lb == strlen(m, b)
           s == Prefix(Text(m, a), max)
           t == Prefix(Text(m, b), max)
           r == strncmp(m, a, b, max)
<1>1. /\ String(m, a, la) /\ s \in Memory /\ Len(s) = (IF la < max THEN la ELSE max) /\ Lies(m, a, s)
      /\ String(m, b, lb) /\ t \in Memory /\ Len(t) = (IF lb < max THEN lb ELSE max) /\ Lies(m, b, t)
  <2>1. \A p \in {a, b} :
          /\ p \in Nat \ {0} /\ Terminated(m, p)
          /\ String(m, p, strlen(m, p)) /\ Text(m, p) \in Memory
          /\ Len(Text(m, p)) = strlen(m, p) /\ strlen(m, p) \in Nat
          /\ \A i \in 1 .. strlen(m, p) : Text(m, p)[i] = m[p + (i - 1)]
    <3> SUFFICES ASSUME NEW p \in {a, b}
                 PROVE  /\ p \in Nat \ {0} /\ Terminated(m, p)
                        /\ String(m, p, strlen(m, p)) /\ Text(m, p) \in Memory
                        /\ Len(Text(m, p)) = strlen(m, p) /\ strlen(m, p) \in Nat
                        /\ \A i \in 1 .. strlen(m, p) : Text(m, p)[i] = m[p + (i - 1)]
      OBVIOUS
    <3>1. p \in Nat \ {0} /\ Terminated(m, p)
      OBVIOUS
    <3> QED BY <3>1, StringIs, StringThere DEF Memory
  <2>2. ASSUME NEW p \in {a, b}
        PROVE  /\ Prefix(Text(m, p), max) \in Memory
               /\ Len(Prefix(Text(m, p), max)) = IF strlen(m, p) < max THEN strlen(m, p) ELSE max
               /\ Lies(m, p, Prefix(Text(m, p), max))
    <3> DEFINE text == Text(m, p)
               len == strlen(m, p)
               pre == Prefix(text, max)
    <3>1. text \in Memory /\ Len(text) = len /\ len \in Nat
          /\ \A i \in 1 .. len : text[i] = m[p + (i - 1)]
      BY <2>1
    <3> HIDE DEF text, len
    <3>2. /\ pre \in Memory /\ Len(pre) = (IF len < max THEN len ELSE max)
          /\ \A i \in 1 .. Len(pre) : pre[i] = text[i]
      BY <3>1, PrefixOf
    <3> HIDE DEF pre
    <3>3. \A i \in 1 .. Len(pre) : i \in 1 .. len
      BY <3>1, <3>2
    <3>4. Lies(m, p, pre)
      BY <3>1, <3>2, <3>3 DEF Lies
    <3> QED BY <3>2, <3>4 DEF pre, text, len
  <2> QED BY <2>1, <2>2
<1>2. r = IF k = max THEN 0 ELSE m[a + k] - m[b + k]
  BY DEF strncmp
<1> HIDE DEF la, lb, s, t, r
<1>3. /\ la \in Nat /\ m[a + la] = 0 /\ \A i \in 0 .. (la - 1) : m[a + i] # 0
      /\ lb \in Nat /\ m[b + lb] = 0 /\ \A i \in 0 .. (lb - 1) : m[b + i] # 0
  BY <1>1 DEF String
<1>4. /\ \A i \in T : i \in 0 .. max /\ (i = max \/ m[a + i] = 0 \/ m[a + i] # m[b + i])
      /\ \A i \in 0 .. max : i = max \/ m[a + i] = 0 \/ m[a + i] # m[b + i] => i \in T
  OBVIOUS
<1> HIDE DEF T
<1>5. k \in T /\ \A i \in T : k <= i
  <2>1. max \in 0 .. max
    OBVIOUS
  <2>2. T \subseteq Nat /\ T # {}
    BY <1>4, <2>1
  <2> QED BY <2>2, MinIs
<1> HIDE DEF k
<1>6. k \in Nat /\ k <= max /\ (k = max \/ m[a + k] = 0 \/ m[a + k] # m[b + k])
  BY <1>4, <1>5
<1>7. \A i \in 0 .. (k - 1) : m[a + i] # 0 /\ m[a + i] = m[b + i]
  <2> SUFFICES ASSUME NEW i \in 0 .. (k - 1), m[a + i] = 0 \/ m[a + i] # m[b + i] PROVE FALSE
    OBVIOUS
  <2>1. i \in 0 .. max /\ i < k
    BY <1>6
  <2>2. i \in T
    BY <1>4, <2>1
  <2> QED BY <1>5, <1>6, <2>1, <2>2
<1>8. k <= la /\ k <= lb
  <2>1. CASE k > la
    <3>1. la \in 0 .. (k - 1)
      BY <1>3, <1>6, <2>1
    <3> QED BY <1>3, <1>7, <3>1
  <2>2. CASE k > lb
    <3>1. lb \in 0 .. (k - 1)
      BY <1>3, <1>6, <2>2
    <3> QED BY <1>3, <1>7, <3>1
  <2> QED BY <1>3, <1>6, <2>1, <2>2
<1>9. CASE k = max
  <2>1. Len(s) = k /\ Len(t) = k
    BY <1>1, <1>3, <1>6, <1>8, <1>9
  <2>2. \A i \in 1 .. k : s[i] = t[i]
    <3>1. \A i \in 1 .. k : i - 1 \in 0 .. (k - 1)
      BY <1>6
    <3> QED BY <1>1, <1>7, <2>1, <3>1 DEF Lies
  <2>3. Agree(s, t, k)
    BY <1>6, <2>1, <2>2 DEF Agree
  <2>4. Orders(0, s, t)
    BY <1>1, <2>1, <2>3, Ordered
  <2> QED BY <1>2, <1>9, <2>4 DEF r, s, t
<1>10. CASE k # max
  <2>1. /\ k < Len(s) \/ (k = Len(s) /\ k = la)
        /\ k < Len(t) \/ (k = Len(t) /\ k = lb)
        /\ Len(s) <= la /\ Len(t) <= lb
    BY <1>1, <1>3, <1>6, <1>8, <1>10
  <2>2. \A i \in 0 .. (k - 1) : m[a + i] = m[b + i]
    BY <1>7
  <2>3. Orders(m[a + k] - m[b + k], s, t)
    BY <1>1, <1>6, <1>10, <2>1, <2>2, Compared
  <2> QED BY <1>2, <1>10, <2>3 DEF r, s, t
<1> QED
  BY <1>9, <1>10

\* The place of the first byte of the string at p that is one of bytes, or its NUL.
LEMMA FirstAmong ==
  ASSUME NEW m \in Memory, NEW p \in Nat \ {0}, Terminated(m, p), NEW bytes
  PROVE  LET k == Min({i \in Offsets(m, p) : m[p + i] = 0 \/ m[p + i] \in bytes})
         IN  /\ k \in Nat /\ k <= strlen(m, p)
             /\ \A i \in 0 .. (k - 1) : m[p + i] # 0 /\ m[p + i] \notin bytes
             /\ k < strlen(m, p) => m[p + k] # 0 /\ m[p + k] \in bytes
             /\ k = strlen(m, p) => m[p + k] = 0
<1> DEFINE T == {i \in Offsets(m, p) : m[p + i] = 0 \/ m[p + i] \in bytes}
           k == Min(T)
           len == strlen(m, p)
<1>1. String(m, p, len)
  BY StringIs
<1>2. Offsets(m, p) = {i \in Nat : p + i <= Len(m)} /\ Len(m) \in Nat
  BY MemoryIs
<1> HIDE DEF len
<1>3. len \in Nat /\ p + len <= Len(m) /\ m[p + len] = 0 /\ \A i \in 0 .. (len - 1) : m[p + i] # 0
  BY <1>1 DEF String
<1>4. /\ \A i \in T : i \in Nat /\ p + i <= Len(m) /\ (m[p + i] = 0 \/ m[p + i] \in bytes)
      /\ \A i \in Nat : p + i <= Len(m) /\ (m[p + i] = 0 \/ m[p + i] \in bytes) => i \in T
  BY <1>2
<1> HIDE DEF T
<1>5. k \in T /\ \A i \in T : k <= i
  <2>1. T \subseteq Nat /\ T # {}
    BY <1>3, <1>4
  <2> QED BY <2>1, MinIs
<1>6. len \in T
  BY <1>3, <1>4
<1> HIDE DEF k
<1>7. k \in Nat /\ k <= len /\ p + k <= Len(m) /\ (m[p + k] = 0 \/ m[p + k] \in bytes)
  BY <1>4, <1>5, <1>6
<1>8. \A i \in 0 .. (k - 1) : m[p + i] # 0 /\ m[p + i] \notin bytes
  <2> SUFFICES ASSUME NEW i \in 0 .. (k - 1), m[p + i] = 0 \/ m[p + i] \in bytes PROVE FALSE
    OBVIOUS
  <2>1. i \in Nat /\ p + i <= Len(m) /\ i < k
    BY <1>2, <1>7
  <2>2. i \in T
    BY <1>4, <2>1
  <2> QED BY <1>5, <1>7, <2>1, <2>2
<1>9. k < len => m[p + k] # 0 /\ m[p + k] \in bytes
  <2>1. k < len => k \in 0 .. (len - 1)
    BY <1>3, <1>7
  <2> QED BY <1>3, <1>7, <2>1
<1>10. k = len => m[p + k] = 0
  BY <1>3
<1> QED
  BY <1>7, <1>8, <1>9, <1>10 DEF k, T, len

LEMMA Strspns ==
  ASSUME NEW m \in Memory, NEW a \in Nat \ {0}, NEW b \in Nat \ {0},
         Terminated(m, a), Terminated(m, b)
  PROVE  LET k == strspn(m, a, b)
             Spans(len) == ToSet(Prefix(Text(m, a), len)) \subseteq ToSet(Text(m, b))
         IN  Spans(k) /\ (k < Len(Text(m, a)) => ~ Spans(k + 1))
<1> DEFINE k == strspn(m, a, b)
           text == Text(m, a)
           accept == ToSet(Text(m, b))
           none == 0 .. 255 \ accept
           len == strlen(m, a)
<1>1. /\ text \in Memory /\ Len(text) = len /\ len \in Nat
      /\ \A i \in 1 .. len : text[i] = m[a + (i - 1)]
  BY StringIs, StringThere DEF Memory
<1>2. k = Min({i \in Offsets(m, a) : m[a + i] = 0 \/ m[a + i] \in none})
  <2>1. \A i \in Offsets(m, a) : m[a + i] \in 0 .. 255
    <3>1. /\ Offsets(m, a) = {i \in Nat : a + i <= Len(m)} /\ Len(m) \in Nat
          /\ \A i \in 1 .. Len(m) : m[i] \in 0 .. 255
      BY MemoryIs
    <3>2. \A i \in Offsets(m, a) : a + i \in 1 .. Len(m)
      BY <3>1
    <3> QED BY <3>1, <3>2
  <2> HIDE DEF accept
  <2>2. {i \in Offsets(m, a) : m[a + i] = 0 \/ m[a + i] \notin accept}
          = {i \in Offsets(m, a) : m[a + i] = 0 \/ m[a + i] \in none}
    BY <2>1
  <2>3. k = Min({i \in Offsets(m, a) : m[a + i] = 0 \/ m[a + i] \notin accept})
    BY DEF strspn, accept
  <2> QED BY <2>2, <2>3
<1> HIDE DEF k, text, accept, none, len
<1>3. /\ k \in Nat /\ k <= len
      /\ \A i \in 0 .. (k - 1) : m[a + i] # 0 /\ m[a + i] \notin none
      /\ k < len => m[a + k] # 0 /\ m[a + k] \in none
  BY <1>2, FirstAmong DEF len
<1>4. \A i \in 1 .. len : text[i] \in 0 .. 255
  BY <1>1, MemoryIs
<1>5. \A j \in Nat : ToSet(Prefix(text, j)) = {text[i] : i \in {x \in 1 .. len : x <= j}}
  <2> SUFFICES ASSUME NEW j \in Nat
               PROVE  ToSet(Prefix(text, j)) = {text[i] : i \in {x \in 1 .. len : x <= j}}
    OBVIOUS
  <2> DEFINE pre == Prefix(text, j)
  <2>1. /\ pre \in Memory /\ Len(pre) = (IF len < j THEN len ELSE j)
        /\ \A i \in 1 .. Len(pre) : pre[i] = text[i]
    BY <1>1, PrefixOf
  <2> HIDE DEF pre
  <2>2. DOMAIN pre = 1 .. Len(pre)
    BY <2>1, MemoryIs
  <2>3. 1 .. Len(pre) = {x \in 1 .. len : x <= j}
    BY <1>1, <2>1
  <2>4. ToSet(pre) = {pre[i] : i \in 1 .. Len(pre)}
    BY <2>2 DEF ToSet
  <2> QED BY <2>1, <2>3, <2>4 DEF pre
<1>6. ToSet(Prefix(text, k)) \subseteq accept
  <2>1. \A i \in 1 .. len : i <= k => text[i] \in accept
    <3> SUFFICES ASSUME NEW i \in 1 .. len, i <= k PROVE text[i] \in accept
      OBVIOUS
    <3>1. i - 1 \in 0 .. (k - 1)
      BY <1>3
    <3>2. text[i] \notin none
      BY <1>1, <1>3, <3>1
    <3> QED BY <1>4, <3>2 DEF none
  <2> QED BY <1>3, <1>5, <2>1
<1>7. k < len => ~ (ToSet(Prefix(text, k + 1)) \subseteq accept)
  <2> SUFFICES ASSUME k < len PROVE \E i \in 1 .. len : i <= k + 1 /\ text[i] \notin accept
    <3>1. k + 1 \in Nat
      BY <1>3
    <3> QED BY <1>5, <3>1
  <2>1. PICK i \in 1 .. len : i = k + 1 /\ i - 1 = k
    BY <1>1, <1>3
  <2>2. text[i] = m[a + k]
    BY <1>1, <2>1
  <2>3. text[i] \notin accept
    BY <1>3, <2>2 DEF none
  <2>4. i <= k + 1
    BY <1>3, <2>1
  <2> QED BY <2>3, <2>4
<1> QED
  BY <1>1, <1>6, <1>7 DEF k, text, accept

LEMMA Strchrs ==
  ASSUME NEW m \in Memory, NEW a \in Nat \ {0}, NEW c \in 0 .. 255, Terminated(m, a)
  PROVE  strchr(m, a, c) = FirstOf({p \in a .. (a + Len(Text(m, a)) - 1) : m[p] = c})
<1> DEFINE T == {i \in Offsets(m, a) : m[a + i] = 0 \/ m[a + i] = c % 256}
           k == Min(T)
           len == strlen(m, a)
           places == {p \in a .. (a + len - 1) : m[p] = c}
           r == strchr(m, a, c)
<1>1. Len(Text(m, a)) = len /\ len \in Nat
  BY StringIs, StringThere
<1>2. r = IF m[a + k] = 0 THEN NULL ELSE a + k
  BY DEF strchr
<1>3. T = {i \in Offsets(m, a) : m[a + i] = 0 \/ m[a + i] \in {c}}
  <2>1. c % 256 = c
    OBVIOUS
  <2> QED BY <2>1
<1> HIDE DEF T, len, r
<1>4. /\ k \in Nat /\ k <= len
      /\ \A i \in 0 .. (k - 1) : m[a + i] # 0 /\ m[a + i] # c
      /\ k < len => m[a + k] # 0 /\ m[a + k] = c
      /\ k = len => m[a + k] = 0
  <2> DEFINE one == {c}
  <2>1. k = Min({i \in Offsets(m, a) : m[a + i] = 0 \/ m[a + i] \in one})
    BY <1>3
  <2> HIDE DEF k, one, places
  <2>2. /\ k \in Nat /\ k <= len
        /\ \A i \in 0 .. (k - 1) : m[a + i] # 0 /\ m[a + i] \notin one
        /\ k < len => m[a + k] # 0 /\ m[a + k] \in one
        /\ k = len => m[a + k] = 0
    <3>1. Terminated(m, a) /\ len = strlen(m, a)
      BY DEF len
    <3> QED BY <2>1, <3>1, FirstAmong, ZenonT(60)
  <2> QED BY <2>2 DEF one
<1> HIDE DEF k
<1>5. \A p \in places : p \in Nat /\ a + k <= p /\ m[p] = c
  <2> SUFFICES ASSUME NEW p \in places PROVE p \in Nat /\ a + k <= p /\ m[p] = c
    OBVIOUS
  <2>1. p \in Nat /\ a <= p /\ m[p] = c
    BY <1>1
  <2>2. CASE p < a + k
    <3>1. PICK i \in 0 .. (k - 1) : a + i = p
      <4>1. p - a \in 0 .. (k - 1) /\ a + (p - a) = p
        BY <1>4, <2>1, <2>2
      <4> QED BY <4>1
    <3> QED BY <1>4, <2>1, <3>1
  <2> QED BY <1>4, <2>1, <2>2
<1>6. CASE k = len
  <2>1. places = {}
    <3>1. \A p \in places : p < a + len /\ p \in Nat
      BY <1>1
    <3> QED BY <1>1, <1>4, <1>5, <1>6, <3>1
  <2> QED BY <1>1, <1>2, <1>4, <1>6, <2>1 DEF FirstOf, r
<1>7. CASE k < len
  <2>1. a + k \in places
    BY <1>1, <1>4, <1>7
  <2>2. Min(places) \in places /\ \A p \in places : Min(places) <= p
    <3>1. places \subseteq Nat /\ places # {}
      BY <1>5, <2>1
    <3> HIDE DEF places
    <3> QED BY <3>1, MinIs
  <2>3. Min(places) = a + k
    <3> DEFINE q == Min(places)
    <3>1. q \in Nat /\ a + k <= q /\ q <= a + k
      <4> HIDE DEF places
      <4> QED BY <1>5, <2>1, <2>2
    <3> HIDE DEF q
    <3>2. q = a + k
      BY <1>4, <3>1
    <3> QED BY <3>2 DEF q
  <2>4. places # {} /\ m[a + k] # 0
    BY <1>4, <1>7, <2>1
  <2> HIDE DEF places
  <2> QED BY <1>1, <1>2, <2>3, <2>4 DEF FirstOf, r, places
<1> QED
  BY <1>1, <1>4, <1>6, <1>7

\* A string that begins within another ends where that one does.
LEMMA EndOf ==
  ASSUME NEW m \in Memory, NEW p \in Nat \ {0}, Terminated(m, p),
         NEW h \in p .. (p + strlen(m, p))
  PROVE  h \in Nat \ {0} /\ Terminated(m, h) /\ strlen(m, h) = p + strlen(m, p) - h
<1> DEFINE len == strlen(m, p)
           lh == strlen(m, h)
<1>1. String(m, p, len) /\ p + len \in DOMAIN m
  BY StringIs, StringThere
<1> HIDE DEF len
<1>2. len \in Nat /\ m[p + len] = 0 /\ \A i \in 0 .. (len - 1) : m[p + i] # 0
  BY <1>1 DEF String
<1>3. h \in Nat \ {0} /\ p <= h /\ h <= p + len
  BY <1>2 DEF len
<1>4. Terminated(m, h)
  BY <1>1, <1>2, <1>3 DEF Terminated
<1>5. String(m, h, lh)
  BY <1>3, <1>4, StringIs
<1> HIDE DEF lh
<1>6. lh \in Nat /\ m[h + lh] = 0 /\ \A i \in 0 .. (lh - 1) : m[h + i] # 0
  BY <1>5 DEF String
<1>7. CASE h + lh < p + len
  <2>1. PICK i \in 0 .. (len - 1) : p + i = h + lh
    <3>1. h + lh - p \in 0 .. (len - 1) /\ p + (h + lh - p) = h + lh
      BY <1>2, <1>3, <1>6, <1>7
    <3> QED BY <3>1
  <2> QED BY <1>2, <1>6, <2>1
<1>8. CASE h + lh > p + len
  <2>1. PICK i \in 0 .. (lh - 1) : h + i = p + len
    <3>1. p + len - h \in 0 .. (lh - 1) /\ h + (p + len - h) = p + len
      BY <1>2, <1>3, <1>6, <1>8
    <3> QED BY <3>1
  <2> QED BY <1>2, <1>6, <2>1
<1>9. lh = p + len - h \/ h + lh < p + len \/ h + lh > p + len
  BY <1>2, <1>3, <1>6
<1> QED
  BY <1>3, <1>4, <1>7, <1>8, <1>9 DEF len, lh

\* The comparison comes to the end of the needle where the needle is a prefix.
LEMMA Matches ==
  ASSUME NEW m \in Memory, NEW a \in Nat \ {0}, NEW b \in Nat \ {0},
         Terminated(m, a), Terminated(m, b)
  PROVE  m[b + Matched(m, a, b)] = 0 <=> IsPrefix(Text(m, b), Text(m, a))
<1> DEFINE T == {i \in Offsets(m, a) \cap Offsets(m, b) :
                   m[a + i] = 0 \/ m[b + i] = 0 \/ m[a + i] # m[b + i]}
           k == Min(T)
           la == strlen(m, a)
           lb == strlen(m, b)
           s == Text(m, a)
           t == Text(m, b)
<1>1. /\ String(m, a, la) /\ s \in Memory /\ Len(s) = la /\ Lies(m, a, s)
      /\ String(m, b, lb) /\ t \in Memory /\ Len(t) = lb /\ Lies(m, b, t)
  BY StringIs DEF Memory, Lies
<1>2. Matched(m, a, b) = k
  BY DEF Matched
<1>3. /\ Offsets(m, a) = {i \in Nat : a + i <= Len(m)} /\ Offsets(m, b) = {i \in Nat : b + i <= Len(m)}
      /\ Len(m) \in Nat
  BY MemoryIs
<1> HIDE DEF la, lb, s, t
<1>4. /\ la \in Nat /\ a + la <= Len(m) /\ m[a + la] = 0 /\ \A i \in 0 .. (la - 1) : m[a + i] # 0
      /\ lb \in Nat /\ b + lb <= Len(m) /\ m[b + lb] = 0 /\ \A i \in 0 .. (lb - 1) : m[b + i] # 0
  BY <1>1 DEF String
<1>5. /\ \A i \in T : i \in Nat /\ a + i <= Len(m) /\ b + i <= Len(m)
                      /\ (m[a + i] = 0 \/ m[b + i] = 0 \/ m[a + i] # m[b + i])
      /\ \A i \in Nat : a + i <= Len(m) /\ b + i <= Len(m)
                        /\ (m[a + i] = 0 \/ m[b + i] = 0 \/ m[a + i] # m[b + i]) => i \in T
  BY <1>3
<1> HIDE DEF T
<1>6. la \in T \/ lb \in T
  <2>1. CASE la <= lb
    <3>1. b + la <= Len(m)
      BY <1>3, <1>4, <2>1
    <3> QED BY <1>4, <1>5, <3>1
  <2>2. CASE lb <= la
    <3>1. a + lb <= Len(m)
      BY <1>3, <1>4, <2>2
    <3> QED BY <1>4, <1>5, <3>1
  <2> QED BY <1>4, <2>1, <2>2
<1>7. k \in T /\ \A i \in T : k <= i
  <2>1. T \subseteq Nat /\ T # {}
    BY <1>5, <1>6
  <2> QED BY <2>1, MinIs
<1> HIDE DEF k
<1>8. k \in Nat /\ a + k <= Len(m) /\ b + k <= Len(m)
      /\ (m[a + k] = 0 \/ m[b + k] = 0 \/ m[a + k] # m[b + k])
  BY <1>5, <1>7
<1>9. \A i \in 0 .. (k - 1) : m[a + i] # 0 /\ m[b + i] # 0 /\ m[a + i] = m[b + i]
  <2> SUFFICES ASSUME NEW i \in 0 .. (k - 1),
                      m[a + i] = 0 \/ m[b + i] = 0 \/ m[a + i] # m[b + i]
               PROVE  FALSE
    OBVIOUS
  <2>1. i \in Nat /\ a + i <= Len(m) /\ b + i <= Len(m) /\ i < k
    BY <1>3, <1>8
  <2>2. i \in T
    BY <1>5, <2>1
  <2> QED BY <1>7, <1>8, <2>1, <2>2
<1>10. k <= la /\ k <= lb
  <2>1. CASE k > la
    <3>1. la \in 0 .. (k - 1)
      BY <1>4, <1>8, <2>1
    <3> QED BY <1>4, <1>9, <3>1
  <2>2. CASE k > lb
    <3>1. lb \in 0 .. (k - 1)
      BY <1>4, <1>8, <2>2
    <3> QED BY <1>4, <1>9, <3>1
  <2> QED BY <1>4, <1>8, <2>1, <2>2
<1>11. IsPrefix(t, s) <=> lb <= la /\ \A i \in 1 .. lb : t[i] = s[i]
  <2>1. IsPrefix(t, s) <=> Len(t) <= Len(s) /\ \A i \in 1 .. Len(t) : t[i] = s[i]
    BY <1>1, PrefixIs, SMTT(60) DEF Memory
  <2> QED BY <1>1, <2>1
<1>12. ASSUME m[b + k] = 0 PROVE IsPrefix(t, s)
  <2>1. k = lb
    <3>1. CASE k < lb
      <4>1. k \in 0 .. (lb - 1)
        BY <1>4, <1>8, <3>1
      <4> QED BY <1>4, <1>12, <4>1
    <3> QED BY <1>4, <1>8, <1>10, <3>1
  <2>2. \A i \in 1 .. lb : t[i] = s[i]
    <3> SUFFICES ASSUME NEW i \in 1 .. lb PROVE t[i] = s[i]
      OBVIOUS
    <3>1. i - 1 \in 0 .. (k - 1) /\ i \in 1 .. la
      BY <1>4, <1>10, <2>1
    <3>2. t[i] = m[b + (i - 1)] /\ s[i] = m[a + (i - 1)]
      BY <1>1, <3>1 DEF Lies
    <3> QED BY <1>9, <3>1, <3>2
  <2> QED BY <1>10, <1>11, <2>1, <2>2
<1>13. ASSUME IsPrefix(t, s) PROVE m[b + k] = 0
  <2>1. lb <= la /\ \A i \in 1 .. lb : t[i] = s[i]
    BY <1>11, <1>13
  <2>2. CASE k < lb
    <3>1. k \in 0 .. (lb - 1) /\ k \in 0 .. (la - 1)
      BY <1>4, <1>8, <2>1, <2>2
    <3>2. PICK i \in 1 .. lb : i - 1 = k /\ i \in 1 .. la
      <4>1. k + 1 \in 1 .. lb /\ k + 1 - 1 = k /\ k + 1 \in 1 .. la
        BY <1>4, <3>1
      <4> QED BY <1>4, <1>8, <4>1
    <3>3. t[i] = m[b + (i - 1)] /\ s[i] = m[a + (i - 1)] /\ t[i] = s[i]
      BY <1>1, <2>1, <3>2 DEF Lies
    <3>4. m[a + k] = m[b + k]
      BY <3>2, <3>3
    <3> QED BY <1>4, <1>8, <3>1, <3>4
  <2> QED BY <1>4, <1>8, <1>10, <2>2
<1> QED
  BY <1>2, <1>12, <1>13 DEF s, t

LEMMA Strstrs ==
  ASSUME NEW m \in Memory, NEW a \in Nat \ {0}, NEW b \in Nat \ {0},
         Terminated(m, a), Terminated(m, b)
  PROVE  strstr(m, a, b) = FirstOf(Occurrences(m, a, b))
<1> DEFINE la == strlen(m, a)
           lb == strlen(m, b)
           needle == Text(m, b)
           found == {h \in a .. (a + la - 1) : m[b + Matched(m, h, b)] = 0}
           places == Occurrences(m, a, b)
           r == strstr(m, a, b)
<1>1. r = IF m[b] = 0 THEN a ELSE IF found = {} THEN NULL ELSE Min(found)
  BY DEF strstr
<1>2. la \in Nat /\ lb \in Nat /\ needle \in Seq(0 .. 255) /\ Len(needle) = lb
  BY StringIs, StringThere
<1>3. /\ m[b] = 0 => lb = 0
      /\ m[b] # 0 => lb # 0
  <2>1. String(m, b, lb)
    BY StringIs
  <2>2. b + 0 = b
    OBVIOUS
  <2>3. m[b + lb] = 0 /\ \A i \in 0 .. (lb - 1) : m[b + i] # 0
    BY <2>1 DEF String
  <2> HIDE DEF lb
  <2>4. ASSUME m[b] = 0, lb # 0 PROVE FALSE
    <3>1. 0 \in 0 .. (lb - 1)
      BY <1>2, <2>4
    <3> QED BY <2>2, <2>3, <2>4, <3>1
  <2> QED BY <1>2, <2>2, <2>3, <2>4
<1>4. ASSUME NEW h \in a .. (a + la)
      PROVE  /\ m[b + Matched(m, h, b)] = 0 <=> IsPrefix(needle, Text(m, h))
             /\ Text(m, h) \in Seq(0 .. 255) /\ Len(Text(m, h)) = a + la - h
  <2>1. h \in Nat \ {0} /\ Terminated(m, h) /\ strlen(m, h) = a + la - h
    BY EndOf
  <2> HIDE DEF la, needle
  <2>2. m[b + Matched(m, h, b)] = 0 <=> IsPrefix(needle, Text(m, h))
    BY <2>1, Matches DEF needle
  <2> QED BY <2>1, <2>2, StringIs
<1>5. places = {h \in a .. (a + la) : IsPrefix(needle, Text(m, h))}
  BY DEF Occurrences
<1> HIDE DEF la, lb, needle, places, r
<1>6. CASE m[b] = 0
  <2>1. \A h \in a .. (a + la) : h \in places
    <3> SUFFICES ASSUME NEW h \in a .. (a + la) PROVE IsPrefix(needle, Text(m, h))
      BY <1>5
    <3>1. lb = 0 /\ Len(Text(m, h)) \in Nat
      BY <1>3, <1>4, <1>6, LenProperties
    <3> QED BY <1>2, <1>4, <3>1, PrefixIs, SMTT(60)
  <2>2. places = a .. (a + la)
    BY <1>5, <2>1
  <2>3. a \in places /\ places \subseteq Nat /\ \A h \in places : a <= h
    BY <1>2, <2>2
  <2>4. Min(places) = a
    <3>1. Min(places) \in places /\ Min(places) <= a /\ Min(places) \in Nat
      BY <2>3, MinIs
    <3> QED BY <2>3, <3>1
  <2>5. places # {}
    BY <2>3
  <2> QED BY <1>1, <1>6, <2>4, <2>5 DEF FirstOf, r, places
<1>7. CASE m[b] # 0
  <2>1. ~ IsPrefix(needle, Text(m, a + la))
    <3>1. a + la \in a .. (a + la) /\ a + la - (a + la) = 0
      BY <1>2
    <3>2. Len(Text(m, a + la)) = 0 /\ Text(m, a + la) \in Seq(0 .. 255)
      BY <1>4, <3>1
    <3>3. lb \in Nat /\ lb # 0
      BY <1>2, <1>3, <1>7
    <3>4. ~ (Len(needle) <= Len(Text(m, a + la)))
      BY <1>2, <3>2, <3>3
    <3> QED BY <1>2, <3>2, <3>4, PrefixIs
  <2>2. \A h : h \in a .. (a + la) <=> h \in a .. (a + la - 1) \/ h = a + la
    BY <1>2
  <2>3. \A h : h \in found <=> h \in places
    BY <1>4, <1>5, <2>1, <2>2
  <2>4. found = places
    BY <2>3
  <2> HIDE DEF found
  <2> QED BY <1>1, <1>7, <2>4 DEF FirstOf, r, places
<1> QED
  BY <1>6, <1>7

-----------------------------------------------------------------------------
(* THE SEARCH FOR PROGRAMS: module Programs *)

\* Tags as the boot loader leaves them.
TagsLeft(tags) ==
  /\ Len(tags) \in Nat /\ DOMAIN tags = 1 .. Len(tags)
  /\ \A k \in 1 .. Len(tags) :
       /\ tags[k].type # END /\ tags[k].size \in Nat \ {0}
       /\ tags[k].type = MODULE_TAG => tags[k].size >= 16
       /\ tags[k].type = FRAMEBUFFER => tags[k].size >= 24

\* at[k] is where the first k tags end.
Standing(at, tags) ==
  /\ at \in [0 .. Len(tags) -> Nat] /\ at[0] = 8
  /\ \A k \in 1 .. Len(tags) : at[k] = NextTag(at[k - 1], tags[k].size)

\* A tag, padded, takes 8 bytes or more.
LEMMA TagEnds ==
  ASSUME NEW p \in Nat, NEW size \in Nat \ {0}
  PROVE  NextTag(p, size) \in Nat /\ p + 8 <= NextTag(p, size)
<1> DEFINE q == (size + 7) \div 8
<1>1. q \in Nat /\ size + 7 = q * 8 + ((size + 7) % 8) /\ ((size + 7) % 8) \in 0 .. 7
  BY Divided
<1>2. q >= 1
  BY <1>1
<1> QED
  BY <1>1, <1>2 DEF NextTag

\* The places go up by 8 or more.
Rise(at, len) ==
  \A k \in 0 .. len :
    at[k] \in Nat /\ 8 * k + 8 <= at[k] /\ \A j \in 0 .. (k - 1) : at[j] + 8 <= at[k]

LEMMA PlacesRise ==
  ASSUME NEW tags, TagsLeft(tags), NEW at, Standing(at, tags)
  PROVE  Rise(at, Len(tags))
<1> DEFINE len == Len(tags)
           S == {k \in 0 .. len : /\ at[k] \in Nat /\ 8 * k + 8 <= at[k]
                                  /\ \A j \in 0 .. (k - 1) : at[j] + 8 <= at[k]}
<1>1. len \in Nat /\ at[0] = 8 /\ \A k \in 0 .. len : at[k] \in Nat
  BY DEF TagsLeft, Standing
<1>2. \A k \in 1 .. len : at[k - 1] + 8 <= at[k]
  <2> SUFFICES ASSUME NEW k \in 1 .. len PROVE at[k - 1] + 8 <= at[k]
    OBVIOUS
  <2>1. /\ at[k] = NextTag(at[k - 1], tags[k].size)
        /\ tags[k].size \in Nat \ {0} /\ at[k - 1] \in Nat
    BY <1>1 DEF TagsLeft, Standing
  <2> QED BY <2>1, TagEnds
<1> HIDE DEF len
<1>3. 0 \in S
  BY <1>1
<1>4. \A k \in 1 .. len : k - 1 \in S => k \in S
  <2> SUFFICES ASSUME NEW k \in 1 .. len, k - 1 \in S PROVE k \in S
    OBVIOUS
  <2>1. at[k] \in Nat /\ at[k - 1] \in Nat /\ at[k - 1] + 8 <= at[k] /\ 8 * (k - 1) + 8 <= at[k - 1]
    BY <1>1, <1>2
  <2>2. \A j \in 0 .. (k - 1) : j = k - 1 \/ (j \in 0 .. ((k - 1) - 1) /\ at[j] \in Nat)
    BY <1>1
  <2> QED BY <2>1, <2>2
<1>5. \A k \in 0 .. len : k \in S
  <2> HIDE DEF S
  <2> QED BY <1>1, <1>3, <1>4, Climbs
<1> QED
  BY <1>5 DEF len, Rise

\* The information has the tags at their places, and the end tag behind them.
LaidOut(info, tags, at) ==
  /\ info.total = at[Len(tags)] + 8 /\ info.at[at[Len(tags)]].type = END
  /\ \A k \in 1 .. Len(tags) : info.at[at[k - 1]] = tags[k]

LEMMA LaidIs ==
  ASSUME NEW tags, TagsLeft(tags)
  PROVE  \E at : Standing(at, tags) /\ LaidOut(Laid(tags), tags, at)
<1> DEFINE len == Len(tags)
           Step(p, k) == p + ((tags[k].size + 7) \div 8) * 8
<1>1. len \in Nat /\ \A k \in 1 .. len : tags[k].size \in Nat \ {0}
  BY DEF TagsLeft
<1>2. \A k \in 1 .. len : \A p \in Nat : Step(p, k) \in Nat /\ Step(p, k) = NextTag(p, tags[k].size)
  BY <1>1, TagEnds DEF NextTag
<1> HIDE DEF len, Step
<1>3. PICK f \in [0 .. len -> Nat] : f = [k \in 0 .. len |-> IF k = 0 THEN 8 ELSE Step(f[k - 1], k)]
  <2> DEFINE F == [k \in 1 .. len |-> [p \in Nat |-> Step(p, k)]]
  <2>1. F \in [1 .. len -> [Nat -> Nat]] /\ 8 \in Nat
    BY <1>2
  <2>2. PICK f \in [0 .. len -> Nat] : Iterates(f, 8, len, F)
    <3> HIDE DEF F
    <3> QED BY <1>1, <2>1, Iterated, Zenon
  <2>3. \A k \in 0 .. len : k # 0 => F[k][f[k - 1]] = Step(f[k - 1], k)
    BY <1>1
  <2> HIDE DEF F
  <2>4. f = [k \in 0 .. len |-> IF k = 0 THEN 8 ELSE Step(f[k - 1], k)]
    BY <2>2, <2>3 DEF Iterates
  <2> QED BY <2>4
<1> DEFINE G(h) == h = [k \in 0 .. len |-> IF k = 0 THEN 8 ELSE Step(h[k - 1], k)]
           at == CHOOSE h : G(h)
           end == at[len]
           At(a) == {k \in 1 .. len : at[k - 1] = a}
<1>4. Laid(tags) =
        [total |-> end + 8,
         at |-> [a \in 8 .. end |->
                   IF a = end THEN [type |-> END, size |-> 8, value |-> NoImage]
                   ELSE IF At(a) # {} THEN tags[Min(At(a))]
                   ELSE [type |-> 255, size |-> 8, value |-> NoImage]]]
  BY DEF Laid, len, Step
<1>5. G(at)
  BY <1>3
<1> HIDE DEF at
<1>6. at[0] = 8 /\ \A k \in 1 .. len : at[k] = Step(at[k - 1], k)
  <2>1. \A k \in 0 .. len : at[k] = IF k = 0 THEN 8 ELSE Step(at[k - 1], k)
    BY <1>5
  <2> QED BY <1>1, <2>1
<1>7. \A k \in 0 .. len : at[k] \in Nat
  <2>1. at[0] \in Nat /\ \A k \in 1 .. len : at[k - 1] \in Nat => at[k] \in Nat
    BY <1>2, <1>6, SMTT(60)
  <2> QED BY <1>1, <2>1, Kept
<1>8. Standing(at, tags)
  <2>1. at \in [0 .. len -> Nat]
    BY <1>5, <1>7
  <2>2. \A k \in 1 .. len : at[k] = NextTag(at[k - 1], tags[k].size)
    <3> SUFFICES ASSUME NEW k \in 1 .. len PROVE at[k] = NextTag(at[k - 1], tags[k].size)
      OBVIOUS
    <3>1. at[k - 1] \in Nat /\ at[k] = Step(at[k - 1], k)
      BY <1>1, <1>6, <1>7
    <3> QED BY <1>2, <3>1
  <2> QED BY <1>6, <2>1, <2>2 DEF Standing, len
<1>9. Rise(at, len)
  BY <1>8, PlacesRise DEF len
<1>10. Laid(tags).total = end + 8
  BY <1>4
<1>11. 8 <= end /\ end \in Nat
  BY <1>1, <1>9 DEF Rise
<1>12. Laid(tags).at[end].type = END
  BY <1>4, <1>11
<1>13. ASSUME NEW k \in 1 .. len PROVE Laid(tags).at[at[k - 1]] = tags[k]
  <2>1. at[k - 1] \in 8 .. end /\ at[k - 1] # end
    <3>1. at[k - 1] \in Nat /\ 8 * (k - 1) + 8 <= at[k - 1] /\ at[k - 1] + 8 <= end
      BY <1>1, <1>9 DEF Rise
    <3> QED BY <1>11, <3>1
  <2>2. At(at[k - 1]) = {k}
    <3>1. ASSUME NEW j \in 1 .. len, at[j - 1] = at[k - 1] PROVE j = k
      <4>1. j < k => at[j - 1] + 8 <= at[k - 1]
        <5>1. j < k => j - 1 \in 0 .. ((k - 1) - 1)
          BY <1>1
        <5> QED BY <1>1, <1>9, <5>1 DEF Rise
      <4>2. k < j => at[k - 1] + 8 <= at[j - 1]
        <5>1. k < j => k - 1 \in 0 .. ((j - 1) - 1)
          BY <1>1
        <5> QED BY <1>1, <1>9, <5>1 DEF Rise
      <4>3. at[j - 1] \in Nat /\ at[k - 1] \in Nat
        BY <1>1, <1>7
      <4> QED BY <1>1, <3>1, <4>1, <4>2, <4>3
    <3> QED BY <3>1
  <2>3. Min({k}) = k
    <3>1. {k} \subseteq Nat /\ {k} # {}
      BY <1>1
    <3>2. Min({k}) \in {k}
      BY <3>1, MinIs
    <3> QED BY <3>2
  <2>4. Laid(tags).at[at[k - 1]] =
          IF at[k - 1] = end THEN [type |-> END, size |-> 8, value |-> NoImage]
          ELSE IF At(at[k - 1]) # {} THEN tags[Min(At(at[k - 1]))]
          ELSE [type |-> 255, size |-> 8, value |-> NoImage]
    <3> HIDE DEF At, end
    <3> QED BY <1>4, <2>1
  <2> HIDE DEF At, end
  <2> QED BY <2>1, <2>2, <2>3, <2>4
<1>14. LaidOut(Laid(tags), tags, at)
  BY <1>10, <1>12, <1>13 DEF LaidOut, len
<1> QED
  BY <1>8, <1>14

\* The walk looks at the tags, each where it starts, and at nothing else.
LEMMA SeenAre ==
  ASSUME NEW tags, TagsLeft(tags), NEW at, Standing(at, tags), NEW info, LaidOut(info, tags, at)
  PROVE  Seen(info) = {at[k - 1] : k \in 1 .. Len(tags)}
<1> DEFINE len == Len(tags)
           turns == info.total \div 8
           end == at[len]
           Step(p) == IF Ends(info, p) THEN p ELSE NextTag(p, info.at[p].size)
           w == [k \in 0 .. turns |-> IF k <= len THEN at[k] ELSE end]
           G(h) == h = [k \in 0 .. turns |-> IF k = 0 THEN 8 ELSE Step(h[k - 1])]
<1>1. len \in Nat /\ at[0] = 8 /\ Rise(at, len)
  BY PlacesRise DEF TagsLeft, Standing
<1>2. end \in Nat /\ 8 * len + 8 <= end /\ info.total = end + 8
  BY <1>1 DEF Rise, LaidOut
<1>3. turns \in Nat /\ len + 1 <= turns
  <2>1. info.total \in Nat /\ turns \in Nat /\ info.total = turns * 8 + (info.total % 8)
        /\ info.total % 8 \in 0 .. 7
    <3> DEFINE total == info.total
    <3>1. total \in Nat
      BY <1>2
    <3> HIDE DEF total
    <3>2. /\ total \div 8 \in Nat /\ total % 8 \in 0 .. 7
          /\ total = (total \div 8) * 8 + (total % 8)
      BY <3>1, Divided
    <3> QED BY <3>1, <3>2 DEF total
  <2> HIDE DEF turns, len, end
  <2> QED BY <1>1, <1>2, <2>1
<1>4. ASSUME NEW k \in 1 .. len PROVE ~ Ends(info, at[k - 1]) /\ Step(at[k - 1]) = at[k]
  <2>1. info.at[at[k - 1]] = tags[k] /\ at[k] = NextTag(at[k - 1], tags[k].size)
        /\ tags[k].type # END
    BY DEF LaidOut, Standing, TagsLeft
  <2>2. at[k - 1] \in Nat /\ at[k - 1] + 8 <= end
    <3>1. k - 1 \in 0 .. (len - 1) /\ k - 1 \in 0 .. len /\ len \in 0 .. len
      BY <1>1
    <3> QED BY <1>1, <3>1 DEF Rise
  <2> HIDE DEF end
  <2> QED BY <1>2, <2>1, <2>2 DEF Ends
<1>5. Ends(info, end)
  BY DEF Ends, LaidOut
<1> HIDE DEF end, turns, len, Step
<1>6. G(w)
  <2> SUFFICES ASSUME NEW k \in 0 .. turns
               PROVE  w[k] = IF k = 0 THEN 8 ELSE Step(w[k - 1])
    OBVIOUS
  <2>1. CASE k = 0
    BY <1>1, <1>3, <2>1
  <2>2. CASE k \in 1 .. len
    <3>1. w[k - 1] = at[k - 1] /\ w[k] = at[k]
      BY <1>1, <1>3, <2>2
    <3> QED BY <1>4, <2>2, <3>1
  <2>3. CASE k > len
    <3>1. w[k] = end /\ w[k - 1] = end
      <4>1. k - 1 \in 0 .. turns /\ (k - 1 <= len => k - 1 = len)
        BY <1>1, <1>3, <2>3
      <4> QED BY <1>1, <2>3, <4>1 DEF end
    <3>2. Step(end) = end
      BY <1>5 DEF Step
    <3> QED BY <1>1, <2>3, <3>1, <3>2
  <2> QED BY <1>1, <1>3, <2>1, <2>2, <2>3
<1> DEFINE h == CHOOSE g : G(g)
<1>7. Walk(info) = h
  BY DEF Walk, turns, Step
<1>8. G(h)
  BY <1>6
<1> HIDE DEF h, w
<1>9. \A k \in 0 .. turns : h[k] = w[k]
  <2> DEFINE S == {k \in 0 .. turns : h[k] = w[k]}
  <2>1. \A k \in 0 .. turns : /\ h[k] = IF k = 0 THEN 8 ELSE Step(h[k - 1])
                              /\ w[k] = IF k = 0 THEN 8 ELSE Step(w[k - 1])
    BY <1>6, <1>8
  <2>2. 0 \in S
    BY <1>3, <2>1
  <2>3. \A k \in 1 .. turns : k - 1 \in S => k \in S
    BY <1>3, <2>1
  <2>4. \A k \in 0 .. turns : k \in S
    <3> HIDE DEF S
    <3> QED BY <1>3, <2>2, <2>3, Climbs
  <2> QED BY <2>4
<1>10. Seen(info) = {p \in {w[k] : k \in 0 .. turns} : ~ Ends(info, p)}
  BY <1>7, <1>9 DEF Seen, turns
<1>11. \A k \in 0 .. turns : w[k] = IF k <= len THEN at[k] ELSE end
  BY DEF w
<1>12. \A p \in Seen(info) : \E k \in 1 .. len : p = at[k - 1]
  <2> SUFFICES ASSUME NEW p \in Seen(info) PROVE \E k \in 1 .. len : p = at[k - 1]
    OBVIOUS
  <2>1. PICK k \in 0 .. turns : p = w[k] /\ ~ Ends(info, p)
    BY <1>10
  <2>2. k <= len /\ k # len /\ p = at[k]
    BY <1>1, <1>5, <1>11, <2>1 DEF end
  <2>3. k + 1 \in 1 .. len /\ (k + 1) - 1 = k
    BY <1>1, <2>2
  <2> QED BY <2>2, <2>3
<1>13. \A k \in 1 .. len : at[k - 1] \in Seen(info)
  <2> SUFFICES ASSUME NEW k \in 1 .. len PROVE at[k - 1] \in Seen(info)
    OBVIOUS
  <2>1. k - 1 \in 0 .. turns /\ w[k - 1] = at[k - 1]
    BY <1>1, <1>3, <1>11
  <2> QED BY <1>4, <1>10, <2>1
<1> QED
  BY <1>12, <1>13 DEF len

\* The first of some tags is the one at the lowest place.
LEMMA FirstTag ==
  ASSUME NEW tags, TagsLeft(tags), NEW at, Standing(at, tags),
         NEW K, K \subseteq 1 .. Len(tags), K # {}
  PROVE  Min({at[k - 1] : k \in K}) = at[Min(K) - 1] /\ Min(K) \in K
<1> DEFINE len == Len(tags)
           T == {at[k - 1] : k \in K}
           a == Min(K)
<1>1. len \in Nat /\ Rise(at, len)
  BY PlacesRise DEF TagsLeft
<1>2. K \subseteq Nat /\ \A k \in K : k - 1 \in 0 .. len /\ at[k - 1] \in Nat
  BY <1>1 DEF Rise
<1>3. a \in K /\ \A k \in K : a <= k
  <2> HIDE DEF a
  <2> QED BY <1>2, MinIs DEF a
<1> HIDE DEF a, len
<1>4. T \subseteq Nat /\ T # {}
  BY <1>2
<1>5. Min(T) \in T /\ \A p \in T : Min(T) <= p
  <2> HIDE DEF T
  <2> QED BY <1>4, MinIs
<1>6. PICK k \in K : Min(T) = at[k - 1]
  BY <1>5
<1>7. Min(T) <= at[a - 1]
  BY <1>3, <1>5
<1>8. a # k => at[a - 1] + 8 <= at[k - 1]
  <2>1. a # k => a - 1 \in 0 .. ((k - 1) - 1)
    BY <1>2, <1>3
  <2> QED BY <1>1, <1>2, <2>1 DEF Rise
<1>9. at[a - 1] \in Nat /\ at[k - 1] \in Nat
  BY <1>2, <1>3
<1>10. Min(T) = at[a - 1]
  BY <1>6, <1>7, <1>8, <1>9
<1> QED
  BY <1>3, <1>10 DEF a

\* The tags of the modules of that name, and those of framebuffers.
Named(tags, name) ==
  {k \in DOMAIN tags : tags[k].type = MODULE_TAG /\ tags[k].value.cmdline = name}
Screens(tags) == {k \in DOMAIN tags : tags[k].type = FRAMEBUFFER}

LEMMA ModulesAre ==
  ASSUME NEW tags, TagsLeft(tags), NEW name
  PROVE  /\ ModulesNamed(Laid(tags), name) = {} <=> Named(tags, name) = {}
         /\ Named(tags, name) # {} =>
              find_module(Laid(tags), name) = tags[Min(Named(tags, name))].value.range
<1> DEFINE info == Laid(tags)
           K == Named(tags, name)
<1>1. PICK at : Standing(at, tags) /\ LaidOut(info, tags, at)
  BY LaidIs
<1> HIDE DEF info
<1>2. Seen(info) = {at[k - 1] : k \in 1 .. Len(tags)}
  BY <1>1, SeenAre
<1>3. \A k \in 1 .. Len(tags) : info.at[at[k - 1]] = tags[k]
                                /\ (tags[k].type = MODULE_TAG => tags[k].size >= 16)
  BY <1>1 DEF LaidOut, TagsLeft
<1>4. DOMAIN tags = 1 .. Len(tags)
  BY DEF TagsLeft
<1>5. ModulesNamed(info, name) = {at[k - 1] : k \in K}
  BY <1>2, <1>3, <1>4 DEF ModulesNamed, Named
<1>6. ASSUME K # {} PROVE find_module(info, name) = tags[Min(K)].value.range
  <2>1. K \subseteq 1 .. Len(tags)
    BY <1>4 DEF Named
  <2> HIDE DEF K
  <2>2. Min(ModulesNamed(info, name)) = at[Min(K) - 1] /\ Min(K) \in K
    BY <1>1, <1>5, <1>6, <2>1, FirstTag
  <2>3. Min(K) \in 1 .. Len(tags)
    BY <2>1, <2>2
  <2>4. info.at[at[Min(K) - 1]] = tags[Min(K)]
    BY <1>3, <2>3, Zenon
  <2> QED BY <2>2, <2>4 DEF find_module
<1>7. ModulesNamed(info, name) = {} <=> K = {}
  BY <1>5
<1> QED
  BY <1>6, <1>7 DEF info

LEMMA ScreenIs ==
  ASSUME NEW tags, TagsLeft(tags)
  PROVE  parse_framebuffer(Laid(tags)) =
           IF Screens(tags) = {} THEN {} ELSE {tags[Min(Screens(tags))].value}
<1> DEFINE info == Laid(tags)
           K == Screens(tags)
           found == {p \in Seen(info) : info.at[p].type = FRAMEBUFFER /\ info.at[p].size >= 24}
<1>1. PICK at : Standing(at, tags) /\ LaidOut(info, tags, at)
  BY LaidIs
<1> HIDE DEF info
<1>2. Seen(info) = {at[k - 1] : k \in 1 .. Len(tags)}
  BY <1>1, SeenAre
<1>3. \A k \in 1 .. Len(tags) : info.at[at[k - 1]] = tags[k]
                                /\ (tags[k].type = FRAMEBUFFER => tags[k].size >= 24)
  BY <1>1 DEF LaidOut, TagsLeft
<1>4. DOMAIN tags = 1 .. Len(tags)
  BY DEF TagsLeft
<1>5. found = {at[k - 1] : k \in K}
  BY <1>2, <1>3, <1>4 DEF Screens
<1>6. ASSUME K # {} PROVE info.at[Min(found)] = tags[Min(K)]
  <2>1. K \subseteq 1 .. Len(tags)
    BY <1>4 DEF Screens
  <2> HIDE DEF K, found
  <2>2. Min(found) = at[Min(K) - 1] /\ Min(K) \in K
    BY <1>1, <1>5, <1>6, <2>1, FirstTag
  <2>3. Min(K) \in 1 .. Len(tags)
    BY <2>1, <2>2
  <2>4. info.at[at[Min(K) - 1]] = tags[Min(K)]
    BY <1>3, <2>3, Zenon
  <2> QED BY <2>2, <2>4
<1>7. found = {} <=> K = {}
  BY <1>5
<1>8. parse_framebuffer(info) = IF found = {} THEN {} ELSE {info.at[Min(found)].value}
  BY DEF parse_framebuffer
<1> HIDE DEF found, K
<1> QED
  BY <1>6, <1>7, <1>8 DEF info, K

\* What the kernel can register: names of modules that are there, as far as there
\* is room in the table.
Present(info, names) == {i \in 1 .. Len(names) : ModulesNamed(info, names[i]) # {}}
WithRoom(info, names) ==
  {i \in Present(info, names) :
     Cardinality({j \in Present(info, names) : j <= i}) <= MAX_MODULES}
Entry(info, names, i) == [name |-> names[i], at |-> find_module(info, names[i])]

\* The table has entries for those, and no other entries.
Table(modules, info, names) ==
  /\ \A j \in DOMAIN modules :
       \E i \in WithRoom(info, names) : modules[j] = Entry(info, names, i)
  /\ \A i \in WithRoom(info, names) :
       \E j \in DOMAIN modules : modules[j] = Entry(info, names, i)

LEMMA RegisteredIs ==
  ASSUME NEW info, NEW names, Len(names) \in Nat
  PROVE  Registered(info, names) \in Seq({Entry(info, names, i) : i \in 1 .. Len(names)})
         /\ Table(Registered(info, names), info, names)
<1> DEFINE len == Len(names)
           is == Present(info, names)
           UpTo(k) == {i \in is : i <= k}
           E(i) == Entry(info, names, i)
           V == {E(i) : i \in 1 .. len}
           Step(t, k) == IF ModulesNamed(info, names[k]) = {} THEN t
                         ELSE program_register(t, names[k], find_module(info, names[k]))
           room == WithRoom(info, names)
           Min2(c) == IF c <= MAX_MODULES THEN c ELSE MAX_MODULES
           Done(t, k) == /\ t \in Seq(V) /\ Len(t) = Min2(Cardinality(UpTo(k)))
                         /\ \A j \in DOMAIN t : \E i \in room : t[j] = E(i)
                         /\ \A i \in room : i <= k => \E j \in DOMAIN t : t[j] = E(i)
<1>1. len \in Nat /\ MAX_MODULES \in Nat
  BY ProgramsAssumption
<1>2. /\ \A i \in is : i \in 1 .. len
      /\ \A k \in 1 .. len : k \in is <=> ModulesNamed(info, names[k]) # {}
      /\ room = {i \in is : Cardinality(UpTo(i)) <= MAX_MODULES}
  BY DEF Present, WithRoom
<1>3. \A t \in Seq(V) : \A k \in 1 .. len :
        Step(t, k) = IF k \notin is \/ Len(t) >= MAX_MODULES THEN t ELSE Append(t, E(k))
  BY <1>2 DEF program_register, Entry
<1> HIDE DEF is, E, Step, room, len
<1>4. \A t \in Seq(V) : \A k \in 1 .. len : Step(t, k) \in Seq(V)
  <2> SUFFICES ASSUME NEW t \in Seq(V), NEW k \in 1 .. len PROVE Step(t, k) \in Seq(V)
    OBVIOUS
  <2>1. E(k) \in V
    OBVIOUS
  <2> HIDE DEF V
  <2>2. Append(t, E(k)) \in Seq(V)
    BY <2>1, AppendProperties
  <2> QED BY <1>3, <2>2
<1>5. /\ Cardinality(UpTo(0)) = 0
      /\ \A k \in 0 .. len : Cardinality(UpTo(k)) \in Nat
      /\ \A k \in 1 .. len : Cardinality(UpTo(k)) =
           IF k \in is THEN Cardinality(UpTo(k - 1)) + 1 ELSE Cardinality(UpTo(k - 1))
  <2>1. UpTo(0) = {}
    BY <1>2
  <2>2. \A k \in 0 .. len : IsFiniteSet(UpTo(k)) /\ Cardinality(UpTo(k)) \in Nat
    <3> SUFFICES ASSUME NEW k \in 0 .. len PROVE IsFiniteSet(UpTo(k)) /\ Cardinality(UpTo(k)) \in Nat
      OBVIOUS
    <3>1. UpTo(k) \in SUBSET (1 .. len)
      BY <1>2
    <3> HIDE DEF UpTo
    <3>2. IsFiniteSet(1 .. len)
      BY <1>1, FS_Interval
    <3> QED BY <3>1, <3>2, FS_Subset, FS_CardinalityType
  <2>3. \A k \in 1 .. len : /\ k \notin is => UpTo(k) = UpTo(k - 1)
                            /\ k \in is => UpTo(k) = UpTo(k - 1) \cup {k}
                            /\ k \notin UpTo(k - 1)
    BY <1>1, <1>2
  <2>4. Cardinality(UpTo(0)) = 0
    BY <2>1, FS_EmptySet
  <2> HIDE DEF UpTo
  <2>5. ASSUME NEW k \in 1 .. len
        PROVE  Cardinality(UpTo(k)) =
                 IF k \in is THEN Cardinality(UpTo(k - 1)) + 1 ELSE Cardinality(UpTo(k - 1))
    <3>1. k - 1 \in 0 .. len
      BY <1>1
    <3>2. IsFiniteSet(UpTo(k - 1))
      BY <2>2, <3>1
    <3>3. Cardinality(UpTo(k - 1) \cup {k}) =
            IF k \in UpTo(k - 1) THEN Cardinality(UpTo(k - 1)) ELSE Cardinality(UpTo(k - 1)) + 1
      BY <3>2, FS_AddElement
    <3> QED BY <2>3, <3>3
  <2> QED BY <2>2, <2>4, <2>5
<1>6. PICK f \in [0 .. len -> Seq(V)] :
        f = [k \in 0 .. len |-> IF k = 0 THEN <<>> ELSE Step(f[k - 1], k)]
  <2> DEFINE F == [k \in 1 .. len |-> [t \in Seq(V) |-> Step(t, k)]]
  <2>1. F \in [1 .. len -> [Seq(V) -> Seq(V)]] /\ <<>> \in Seq(V)
    <3> HIDE DEF V
    <3> QED BY <1>4
  <2>2. PICK f \in [0 .. len -> Seq(V)] : Iterates(f, <<>>, len, F)
    <3> HIDE DEF F, V
    <3> QED BY <1>1, <2>1, Iterated, Zenon
  <2> HIDE DEF V
  <2>3. \A k \in 0 .. len : k # 0 => F[k][f[k - 1]] = Step(f[k - 1], k)
    BY <1>1
  <2> HIDE DEF F
  <2>4. f = [k \in 0 .. len |-> IF k = 0 THEN <<>> ELSE Step(f[k - 1], k)]
    BY <2>2, <2>3 DEF Iterates
  <2> QED BY <2>4
<1> DEFINE G(h) == h = [k \in 0 .. len |-> IF k = 0 THEN <<>> ELSE Step(h[k - 1], k)]
           modules == CHOOSE h : G(h)
<1>7. Registered(info, names) = modules[len]
  <2>1. \A h, k : (IF ModulesNamed(info, names[k]) = {} THEN h[k - 1]
                   ELSE program_register(h[k - 1], names[k], find_module(info, names[k])))
                  = Step(h[k - 1], k)
    BY DEF Step
  <2> QED BY DEF Registered, len, Step
<1>8. G(modules)
  BY <1>6
<1> HIDE DEF modules
<1>9. modules[0] = <<>> /\ \A k \in 1 .. len : modules[k] = Step(modules[k - 1], k)
  <2>1. \A k \in 0 .. len : modules[k] = IF k = 0 THEN <<>> ELSE Step(modules[k - 1], k)
    BY <1>8
  <2> QED BY <1>1, <2>1
<1> HIDE DEF UpTo, V
<1>10. Done(<<>>, 0)
  <2>1. \A i \in room : ~ (i <= 0)
    BY <1>1, <1>2
  <2>2. <<>> \in Seq(V) /\ Len(<<>>) = 0 /\ DOMAIN <<>> = {}
    OBVIOUS
  <2> QED BY <1>1, <1>5, <2>1, <2>2
<1>11. ASSUME NEW k \in 1 .. len, NEW t, Done(t, k - 1) PROVE Done(Step(t, k), k)
  <2> DEFINE c == Cardinality(UpTo(k - 1))
             u == Step(t, k)
  <2>1. c \in Nat /\ k - 1 \in 0 .. len
    BY <1>1, <1>5
  <2>2. Cardinality(UpTo(k)) = IF k \in is THEN c + 1 ELSE c
    BY <1>5
  <2> HIDE DEF c
  <2>3. Len(t) = Min2(c) /\ t \in Seq(V)
    BY <1>11 DEF c
  <2>4. u = IF k \notin is \/ Len(t) >= MAX_MODULES THEN t ELSE Append(t, E(k))
    BY <1>3, <2>3
  <2>5. \A i \in room : i <= k => i <= k - 1 \/ i = k
    BY <1>1, <1>2
  <2> HIDE DEF u
  <2>6. CASE k \notin is
    <3>1. u = t /\ Cardinality(UpTo(k)) = c /\ k \notin room
      BY <1>2, <2>2, <2>4, <2>6
    <3> QED BY <1>11, <2>3, <2>5, <3>1 DEF u
  <2>7. CASE k \in is /\ Len(t) >= MAX_MODULES
    <3>1. u = t /\ Cardinality(UpTo(k)) = c + 1
      BY <2>2, <2>4, <2>7
    <3>2. c >= MAX_MODULES
      BY <1>1, <2>1, <2>3, <2>7
    <3>3. k \notin room
      BY <1>1, <1>2, <2>1, <3>1, <3>2
    <3>4. Len(u) = Min2(c + 1)
      BY <1>1, <2>1, <2>3, <3>1, <3>2
    <3> QED BY <1>11, <2>3, <2>5, <3>1, <3>3, <3>4 DEF u
  <2>8. CASE k \in is /\ ~ (Len(t) >= MAX_MODULES)
    <3>1. u = Append(t, E(k)) /\ Cardinality(UpTo(k)) = c + 1
      BY <2>2, <2>4, <2>8
    <3>2. c < MAX_MODULES /\ Len(t) = c
      BY <1>1, <2>1, <2>3, <2>8
    <3>3. k \in room
      BY <1>1, <1>2, <2>1, <2>8, <3>1, <3>2
    <3>4. E(k) \in V
      BY DEF V
    <3>5. /\ u \in Seq(V) /\ Len(u) = c + 1
          /\ \A j \in 1 .. c : u[j] = t[j]
          /\ u[c + 1] = E(k)
      BY <2>3, <3>1, <3>2, <3>4, AppendProperties
    <3>6. DOMAIN t = 1 .. c /\ DOMAIN u = 1 .. (c + 1)
      BY <2>1, <2>3, <3>2, <3>5, LenProperties
    <3>7. Len(u) = Min2(c + 1)
      BY <1>1, <2>1, <3>2, <3>5
    <3>8. \A j \in DOMAIN u : \E i \in room : u[j] = E(i)
      <4>1. \A j \in DOMAIN u : j \in DOMAIN t \/ j = c + 1
        BY <2>1, <3>6
      <4>2. \A j \in DOMAIN t : \E i \in room : t[j] = E(i)
        BY <1>11
      <4> QED BY <3>3, <3>5, <3>6, <4>1, <4>2
    <3>9. \A i \in room : i <= k => \E j \in DOMAIN u : u[j] = E(i)
      <4>1. \A i \in room : i <= k - 1 => \E j \in DOMAIN t : t[j] = E(i)
        BY <1>11
      <4>2. \A j \in DOMAIN t : j \in DOMAIN u /\ u[j] = t[j]
        BY <2>1, <3>5, <3>6
      <4>3. c + 1 \in DOMAIN u
        BY <2>1, <3>6
      <4> QED BY <2>5, <3>5, <4>1, <4>2, <4>3
    <3> QED BY <3>1, <3>5, <3>7, <3>8, <3>9 DEF u
  <2> QED BY <2>6, <2>7, <2>8
<1>12. \A k \in 0 .. len : Done(modules[k], k)
  <2> DEFINE S == {k \in 0 .. len : Done(modules[k], k)}
  <2> HIDE DEF Done
  <2>1. 0 \in S
    BY <1>1, <1>9, <1>10
  <2>2. \A k \in 1 .. len : k - 1 \in S => k \in S
    BY <1>1, <1>9, <1>11
  <2>3. \A k \in 0 .. len : k \in S
    <3> HIDE DEF S
    <3> QED BY <1>1, <2>1, <2>2, Climbs
  <2> QED BY <2>3
<1>13. Done(modules[len], len)
  BY <1>1, <1>12
<1>14. \A i \in room : i <= len
  BY <1>1, <1>2
<1> QED
  BY <1>7, <1>13, <1>14 DEF Table, V, E, len, room

\* What the shell runs is the entry of that name, where there is one.
LEMMA RunsNamed ==
  ASSUME NEW info, NEW names, Len(names) \in Nat, NEW name
  PROVE  program_run(Registered(info, names), <<name>>) =
           IF \E i \in WithRoom(info, names) : names[i] = name
           THEN find_module(info, name) ELSE NoImage
<1> DEFINE t == Registered(info, names)
           K == {k \in DOMAIN t : <<t[k].name>> = <<name>>}
<1>1. Table(t, info, names) /\ DOMAIN t \subseteq Nat
  <2>1. Table(t, info, names) /\ t \in Seq({Entry(info, names, i) : i \in 1 .. Len(names)})
    BY RegisteredIs
  <2>2. DOMAIN t = 1 .. Len(t) /\ Len(t) \in Nat
    BY <2>1, LenProperties
  <2> QED BY <2>1, <2>2
<1> HIDE DEF t
<1>2. \A i : Entry(info, names, i).name = names[i]
             /\ Entry(info, names, i).at = find_module(info, names[i])
  BY DEF Entry
<1>3. \A k \in DOMAIN t : k \in K <=> t[k].name = name
  BY DEF K
<1>4. \A k \in K : t[k].at = find_module(info, name)
  <2> SUFFICES ASSUME NEW k \in K PROVE t[k].at = find_module(info, name)
    OBVIOUS
  <2>1. PICK i \in WithRoom(info, names) : t[k] = Entry(info, names, i)
    BY <1>1 DEF Table
  <2>2. names[i] = name
    BY <1>2, <1>3, <2>1
  <2> QED BY <1>2, <2>1, <2>2
<1>5. K # {} <=> \E i \in WithRoom(info, names) : names[i] = name
  <2>1. ASSUME K # {} PROVE \E i \in WithRoom(info, names) : names[i] = name
    <3>1. PICK k \in K : TRUE
      BY <2>1
    <3>2. PICK i \in WithRoom(info, names) : t[k] = Entry(info, names, i)
      BY <1>1 DEF Table
    <3> QED BY <1>2, <1>3, <3>2
  <2>2. ASSUME NEW i \in WithRoom(info, names), names[i] = name PROVE K # {}
    <3>1. PICK k \in DOMAIN t : t[k] = Entry(info, names, i)
      BY <1>1 DEF Table
    <3> QED BY <1>2, <1>3, <2>2, <3>1
  <2> QED BY <2>1, <2>2
<1>6. program_run(t, <<name>>) = IF K = {} THEN NoImage ELSE t[Min(K)].at
  BY DEF program_run
<1>7. K # {} => Min(K) \in K
  <2>1. K \subseteq Nat
    BY <1>1
  <2> HIDE DEF K
  <2> QED BY <2>1, MinIs
<1> HIDE DEF K
<1> QED
  BY <1>4, <1>5, <1>6, <1>7 DEF t

\* A command of `run` and a name, with blanks in front.
LEMMA NameIs ==
  ASSUME NEW cmd, NEW name, AsksFor(cmd, name)
  PROVE  IsRun(cmd) /\ NameToRun(cmd) = <<name>>
<1> DEFINE S == {"run", Blank, name}
<1>0. PICK three : three = <<"run", Blank, name>>
  OBVIOUS
<1>1. PICK b \in Nat : cmd = [k \in 1 .. b |-> Blank] \o <<"run", Blank, name>>
  BY SMTT(60) DEF AsksFor
<1> DEFINE front == [k \in 1 .. b |-> Blank]
<1>2. /\ front \in Seq(S) /\ Len(front) = b /\ three \in Seq(S) /\ Len(three) = 3
      /\ \A k \in 1 .. b : front[k] = Blank
      /\ three[1] = "run" /\ three[2] = Blank /\ three[3] = name
  <2>1. front \in [1 .. b -> S]
    OBVIOUS
  <2> HIDE DEF front
  <2>2. front \in Seq(S) /\ Len(front) = b
    BY <2>1, IsSeq
  <2>3. three \in Seq(S) /\ Len(three) = 3
        /\ three[1] = "run" /\ three[2] = Blank /\ three[3] = name
    BY <1>0
  <2> QED BY <2>2, <2>3 DEF front
<1>3. cmd = front \o three
  BY <1>0, <1>1
<1> HIDE DEF front
<1>4. cmd \in Seq(S) /\ Joins(cmd, front, three)
  <2> HIDE DEF S
  <2> QED BY <1>2, <1>3, Joined
<1>5. /\ Len(cmd) = b + 3 /\ DOMAIN cmd = 1 .. (b + 3)
      /\ \A k \in 1 .. b : cmd[k] = Blank
      /\ cmd[b + 1] = "run" /\ cmd[b + 2] = Blank /\ cmd[b + 3] = name
  <2>1. Len(cmd) = b + 3 /\ \A k \in 1 .. (b + 3) : cmd[k] = IF k <= b THEN front[k] ELSE three[k - b]
    BY <1>2, <1>4 DEF Joins
  <2>2. DOMAIN cmd = 1 .. Len(cmd)
    BY <1>4, LenProperties
  <2>3. cmd[b + 1] = three[1] /\ cmd[b + 2] = three[2] /\ cmd[b + 3] = three[3]
    BY <2>1
  <2>4. \A k \in 1 .. b : cmd[k] = front[k]
    BY <2>1
  <2> HIDE DEF S
  <2>5. Len(cmd) = b + 3 /\ DOMAIN cmd = 1 .. (b + 3)
    BY <2>1, <2>2
  <2>6. cmd[b + 1] = "run" /\ cmd[b + 2] = Blank /\ cmd[b + 3] = name
    BY <1>2, <2>3
  <2>7. \A k \in 1 .. b : cmd[k] = Blank
    BY <1>2, <2>4, Zenon
  <2> QED BY <2>5, <2>6, <2>7
<1> DEFINE words == {k \in DOMAIN cmd : cmd[k] # Blank}
<1>6. b + 1 \in words /\ \A k \in words : b + 1 <= k
  <2>1. "run" # Blank
    BY DEF Blank
  <2>2. b + 1 \in words
    BY <1>5, <2>1
  <2>3. \A k \in DOMAIN cmd : k \in 1 .. b \/ b + 1 <= k
    BY <1>5
  <2> HIDE DEF S
  <2> QED BY <1>5, <2>2, <2>3
<1>7. Min(words) = b + 1
  <2>1. words \subseteq Nat /\ words # {}
    BY <1>5, <1>6
  <2> HIDE DEF words
  <2> DEFINE first == Min(words)
  <2>2. first \in words /\ \A k \in words : first <= k
    BY <2>1, MinIs
  <2> HIDE DEF first, S
  <2>3. first \in Nat /\ first <= b + 1 /\ b + 1 <= first
    BY <1>6, <2>1, <2>2
  <2> QED BY <2>3 DEF first
<1> DEFINE c == Stripped(cmd)
<1>8. c = SubSeq(cmd, b + 1, b + 3)
  BY <1>5, <1>6, <1>7 DEF Stripped
<1> HIDE DEF words, c, S
<1>9. c \in Seq(S) /\ Takes(c, cmd, b + 1, b + 3)
  BY <1>4, <1>5, <1>8, Part
<1>10. c \in Seq(S) /\ Len(c) = 3 /\ c[1] = "run" /\ c[2] = Blank /\ c[3] = name
  <2>1. Len(c) = (b + 3) - (b + 1) + 1
        /\ \A k \in 1 .. ((b + 3) - (b + 1) + 1) : c[k] = cmd[(b + 1) + k - 1]
    BY <1>9 DEF Takes
  <2>2. Len(c) = 3 /\ \A k \in 1 .. 3 : c[k] = cmd[b + k]
    BY <2>1
  <2>3. c[1] = cmd[b + 1] /\ c[2] = cmd[b + 2] /\ c[3] = cmd[b + 3]
    BY <2>2
  <2> QED BY <1>5, <1>9, <2>2, <2>3
<1>11. IsPrefix(<<"run", Blank>>, c)
  <2>1. SubSeq(c, 1, 2) \in Seq(S) /\ Takes(SubSeq(c, 1, 2), c, 1, 2)
    BY <1>10, Part
  <2> DEFINE s == SubSeq(c, 1, 2)
  <2>2. Len(s) = 2 /\ s[1] = "run" /\ s[2] = Blank /\ s \in Seq(S)
    BY <1>10, <2>1 DEF Takes
  <2> HIDE DEF s
  <2>3. s = <<"run", Blank>>
    BY <2>2
  <2> DEFINE r == <<"run", Blank>>
  <2>4. r \in Seq({"run", Blank}) /\ Len(r) = 2 /\ r[1] = "run" /\ r[2] = Blank
    OBVIOUS
  <2> HIDE DEF r
  <2>5. SubSeq(r, 1, 2) = r
    BY <2>4
  <2> QED BY <1>10, <2>3, <2>4, <2>5 DEF IsPrefix, r, s
<1>12. SubSeq(c, 3, Len(c)) = <<name>>
  <2>1. SubSeq(c, 3, 3) \in Seq(S) /\ Takes(SubSeq(c, 3, 3), c, 3, 3)
    BY <1>10, Part, SMTT(60)
  <2> DEFINE s == SubSeq(c, 3, 3)
  <2>2. Len(s) = 1 /\ s[1] = name /\ s \in Seq(S)
    BY <1>10, <2>1 DEF Takes
  <2> HIDE DEF s
  <2>3. s = <<name>>
    BY <2>2
  <2> QED BY <1>10, <2>3 DEF s
<1> QED
  BY <1>11, <1>12 DEF IsRun, NameToRun, c

\* What `run` finds and what the kernel draws on, put together.
LEMMA FoundIs ==
  ASSUME NEW tags, TagsLeft(tags), NEW names, DOMAIN names = 1 .. Len(names), Len(names) \in Nat,
         NEW cmd, NEW name, AsksFor(cmd, name)
  PROVE  LET there == {i \in DOMAIN names : Named(tags, names[i]) # {}}
             registered == {i \in there : Cardinality({j \in there : j <= i}) <= MAX_MODULES}
         IN  (IF IsRun(cmd) THEN program_run(Registered(Laid(tags), names), NameToRun(cmd))
                            ELSE NoImage)
               = IF \E i \in registered : names[i] = name
                 THEN tags[Min(Named(tags, name))].value.range ELSE NoImage
<1> DEFINE info == Laid(tags)
           there == {i \in DOMAIN names : Named(tags, names[i]) # {}}
           registered == {i \in there : Cardinality({j \in there : j <= i}) <= MAX_MODULES}
<1>1. \A x : /\ ModulesNamed(info, x) = {} <=> Named(tags, x) = {}
             /\ Named(tags, x) # {} => find_module(info, x) = tags[Min(Named(tags, x))].value.range
  BY ModulesAre
<1> HIDE DEF info
<1>2. there = Present(info, names)
  BY <1>1 DEF Present
<1>3. registered = WithRoom(info, names)
  BY <1>2 DEF WithRoom
<1>4. \A i \in registered : Named(tags, names[i]) # {}
  OBVIOUS
<1> HIDE DEF there, registered
<1>5. IsRun(cmd) /\ NameToRun(cmd) = <<name>>
  BY NameIs
<1>6. program_run(Registered(info, names), <<name>>) =
        IF \E i \in registered : names[i] = name THEN find_module(info, name) ELSE NoImage
  BY <1>3, RunsNamed
<1>7. ASSUME NEW i \in registered, names[i] = name
      PROVE  find_module(info, name) = tags[Min(Named(tags, name))].value.range
  BY <1>1, <1>4, <1>7
<1>8. program_run(Registered(info, names), NameToRun(cmd)) =
        IF \E i \in registered : names[i] = name
        THEN tags[Min(Named(tags, name))].value.range ELSE NoImage
  BY <1>5, <1>6, <1>7
<1> QED
  BY <1>5, <1>8 DEF info, there, registered

-----------------------------------------------------------------------------
(* NUMBERS AND TEXTS: module Printk *)

\* rest[k] is what k divisions leave of u.
Divides(rest, u, base, turns) ==
  /\ rest[0] = u /\ \A k \in 0 .. turns : rest[k] \in Nat
  /\ \A k \in 1 .. turns : rest[k] = rest[k - 1] \div base

LEMMA QuotientsAre ==
  ASSUME NEW u \in Nat, NEW base \in Nat \ {0}, NEW turns \in Nat
  PROVE  Divides(Quotients(u, base, turns), u, base, turns)
<1>1. \A p \in Nat : p \div base \in Nat
  BY Divided
<1>2. PICK f \in [0 .. turns -> Nat] :
        f = [k \in 0 .. turns |-> IF k = 0 THEN u ELSE f[k - 1] \div base]
  <2> DEFINE F == [k \in 1 .. turns |-> [p \in Nat |-> p \div base]]
  <2>1. F \in [1 .. turns -> [Nat -> Nat]]
    BY <1>1
  <2>2. PICK f \in [0 .. turns -> Nat] : Iterates(f, u, turns, F)
    <3> HIDE DEF F
    <3> QED BY <2>1, Iterated, Zenon
  <2>3. \A k \in 0 .. turns : k # 0 => F[k][f[k - 1]] = f[k - 1] \div base
    OBVIOUS
  <2> HIDE DEF F
  <2>4. f = [k \in 0 .. turns |-> IF k = 0 THEN u ELSE f[k - 1] \div base]
    BY <2>2, <2>3 DEF Iterates
  <2> QED BY <2>4
<1> DEFINE G(h) == h = [k \in 0 .. turns |-> IF k = 0 THEN u ELSE h[k - 1] \div base]
           rest == CHOOSE h : G(h)
<1>3. Quotients(u, base, turns) = rest
  BY DEF Quotients
<1>4. G(rest)
  BY <1>2
<1> HIDE DEF rest
<1>5. rest[0] = u /\ \A k \in 1 .. turns : rest[k] = rest[k - 1] \div base
  <2>1. \A k \in 0 .. turns : rest[k] = IF k = 0 THEN u ELSE rest[k - 1] \div base
    BY <1>4
  <2> QED BY <2>1
<1>6. \A k \in 0 .. turns : rest[k] \in Nat
  <2>1. rest[0] \in Nat /\ \A k \in 1 .. turns : rest[k - 1] \in Nat => rest[k] \in Nat
    BY <1>1, <1>5
  <2> QED BY <2>1, Kept
<1> QED
  BY <1>3, <1>5, <1>6 DEF Divides

LEMMA DividedLess ==
  ASSUME NEW q \in Nat \ {0}, NEW base \in Nat, base >= 2
  PROVE  q \div base < q
<1> DEFINE d == q \div base
<1>1. d \in Nat /\ q % base \in 0 .. (base - 1) /\ q = d * base + (q % base)
  <2>1. base \in Nat \ {0} /\ q \in Nat
    OBVIOUS
  <2> QED BY <2>1, Divided
<1> HIDE DEF d
<1>2. d * base >= d * 2
  BY <1>1
<1>3. ASSUME d >= q PROVE FALSE
  BY <1>1, <1>2, <1>3
<1> QED
  BY <1>1, <1>3 DEF d

\* text puts out, from the highest, the digits that rest leaves of u in len places.
Spells(text, u, base, dg, len, rest) ==
  /\ len \in Nat /\ Len(text) = len
  /\ \A i \in 1 .. len : text[i] = dg[(rest[len - i] % base) + 1]
  /\ Divides(rest, u, base, len) /\ rest[len] = 0

\* The digits that are put out are those of the alphabet.
Alphabet(dg) == {dg[i] : i \in 1 .. 16}

Spelt(rest, len, base, dg) == [i \in 1 .. len |-> dg[(rest[len - i] % base) + 1]]

LEMMA SpeltIs ==
  ASSUME NEW u, NEW base \in 2 .. 16, NEW dg, NEW len \in Nat, NEW rest,
         Divides(rest, u, base, len), rest[len] = 0
  PROVE  /\ Spells(Spelt(rest, len, base, dg), u, base, dg, len, rest)
         /\ Spelt(rest, len, base, dg) \in Seq(Alphabet(dg))
<1> DEFINE text == Spelt(rest, len, base, dg)
<1>1. \A i \in 1 .. len : (rest[len - i] % base) + 1 \in 1 .. 16
  <2> SUFFICES ASSUME NEW i \in 1 .. len PROVE (rest[len - i] % base) + 1 \in 1 .. 16
    OBVIOUS
  <2> DEFINE q == rest[len - i]
  <2>1. q \in Nat
    BY DEF Divides
  <2> HIDE DEF q
  <2>2. q % base \in 0 .. (base - 1)
    <3>1. base \in Nat \ {0}
      OBVIOUS
    <3> QED BY <2>1, <3>1, Divided, Zenon
  <2> QED BY <2>2 DEF q
<1>2. text \in [1 .. len -> Alphabet(dg)]
  BY <1>1 DEF Alphabet, Spelt
<1>3. \A i \in 1 .. len : text[i] = dg[(rest[len - i] % base) + 1]
  BY DEF Spelt
<1> HIDE DEF text
<1>4. text \in Seq(Alphabet(dg)) /\ Len(text) = len
  BY <1>2, IsSeq
<1>5. Spells(text, u, base, dg, len, rest)
  BY <1>3, <1>4 DEF Spells
<1> QED
  BY <1>4, <1>5 DEF text

LEMMA NumberIs ==
  ASSUME NEW u \in Nat, NEW base \in 2 .. 16, NEW dg
  PROVE  /\ \E len \in Nat \ {0} : \E rest : Spells(Number(u, base, dg), u, base, dg, len, rest)
         /\ Number(u, base, dg) \in Seq(Alphabet(dg)) /\ Len(Number(u, base, dg)) >= 1
<1> DEFINE rest == Quotients(u, base, u + 1)
           Ended(k) == rest[k] = 0 /\ (k = 1 \/ rest[k - 1] > 0)
           len == CHOOSE k \in 1 .. (u + 1) : Ended(k)
           text == [i \in 1 .. len |-> dg[(rest[len - i] % base) + 1]]
<1>1. Number(u, base, dg) = text
  BY DEF Number
<1>2. Divides(rest, u, base, u + 1)
  BY QuotientsAre
<1> HIDE DEF rest
<1>3. rest[u + 1] = 0
  <2> DEFINE S == {k \in 0 .. (u + 1) : rest[k] + k <= u \/ rest[k] = 0}
  <2>1. 0 \in S
    BY <1>2 DEF Divides
  <2>2. \A k \in 1 .. (u + 1) : k - 1 \in S => k \in S
    <3> SUFFICES ASSUME NEW k \in 1 .. (u + 1), k - 1 \in S PROVE k \in S
      OBVIOUS
    <3>1. /\ rest[k - 1] \in Nat /\ rest[k] \in Nat /\ rest[k] = rest[k - 1] \div base
          /\ rest[k - 1] + (k - 1) <= u \/ rest[k - 1] = 0
      BY <1>2 DEF Divides
    <3>2. CASE rest[k - 1] = 0
      BY <3>1, <3>2
    <3>3. CASE rest[k - 1] # 0
      <4>1. rest[k] < rest[k - 1]
        BY <3>1, <3>3, DividedLess
      <4> QED BY <3>1, <3>3, <4>1
    <3> QED BY <3>2, <3>3
  <2>3. \A k \in 0 .. (u + 1) : k \in S
    <3> HIDE DEF S
    <3> QED BY <2>1, <2>2, Climbs
  <2>4. u + 1 \in S
    BY <2>3
  <2> QED BY <1>2, <2>4 DEF Divides
<1>4. \E k \in 1 .. (u + 1) : Ended(k)
  <2> DEFINE T == {k \in 1 .. (u + 1) : rest[k] = 0}
  <2>1. T \subseteq Nat /\ T # {}
    BY <1>3
  <2>2. PICK k \in T : \A j \in T : k <= j
    <3> HIDE DEF T
    <3> QED BY <2>1, LeastNat
  <2>3. k # 1 => k - 1 \in 1 .. (u + 1) /\ k - 1 \notin T
    BY <2>2
  <2>4. k # 1 => rest[k - 1] \in Nat /\ rest[k - 1] # 0
    BY <1>2, <2>3 DEF Divides
  <2> QED BY <2>4
<1>5. len \in 1 .. (u + 1) /\ Ended(len)
  BY <1>4
<1> HIDE DEF len
<1>6. Divides(rest, u, base, len)
  BY <1>2, <1>5 DEF Divides
<1>7. text = Spelt(rest, len, base, dg)
  BY DEF Spelt
<1> HIDE DEF text
<1>8. text \in Seq(Alphabet(dg)) /\ Spells(text, u, base, dg, len, rest)
  <2>1. len \in Nat /\ rest[len] = 0
    BY <1>5
  <2> QED BY <1>6, <1>7, <2>1, SpeltIs
<1> QED
  BY <1>1, <1>5, <1>8 DEF Spells

\* What the assumption says of the values of a register.
LEMMA RegistersAre ==
  \E p : /\ p[0] = 1 /\ p[Nibbles] = LongMod /\ \A k \in 0 .. Nibbles : p[k] \in Nat \ {0}
         /\ \A k \in 1 .. Nibbles : p[k] = 16 * p[k - 1]
<1> DEFINE T == Nat \ {0}
           G(h) == h = [k \in 0 .. Nibbles |-> IF k = 0 THEN 1 ELSE 16 * h[k - 1]]
           places == CHOOSE h : G(h)
<1>1. Nibbles \in Nat \ {0} /\ LongMod = places[Nibbles]
  BY PrintkAssumption
<1>2. PICK f \in [0 .. Nibbles -> T] : G(f)
  <2> DEFINE F == [k \in 1 .. Nibbles |-> [p \in T |-> 16 * p]]
  <2>1. F \in [1 .. Nibbles -> [T -> T]] /\ 1 \in T
    OBVIOUS
  <2> HIDE DEF T
  <2>2. PICK f \in [0 .. Nibbles -> T] : Iterates(f, 1, Nibbles, F)
    <3> HIDE DEF F
    <3>1. Nibbles \in Nat
      BY <1>1
    <3> QED BY <2>1, <3>1, Iterated, Zenon
  <2>3. \A k \in 0 .. Nibbles : k # 0 => F[k][f[k - 1]] = 16 * f[k - 1]
    BY <1>1
  <2> HIDE DEF F
  <2>4. G(f)
    BY <2>2, <2>3 DEF Iterates
  <2> QED BY <2>4
<1>3. G(places)
  BY <1>2
<1> HIDE DEF places
<1>4. places[0] = 1 /\ \A k \in 1 .. Nibbles : places[k] = 16 * places[k - 1]
  <2>1. \A k \in 0 .. Nibbles : places[k] = IF k = 0 THEN 1 ELSE 16 * places[k - 1]
    BY <1>3
  <2> QED BY <1>1, <2>1
<1>5. \A k \in 0 .. Nibbles : places[k] \in T
  <2>1. places[0] \in T /\ \A k \in 1 .. Nibbles : places[k - 1] \in T => places[k] \in T
    BY <1>4
  <2> HIDE DEF T
  <2>2. Nibbles \in Nat
    BY <1>1
  <2> QED BY <2>1, <2>2, Kept
<1> QED
  BY <1>1, <1>4, <1>5

LEMMA LongModIs == LongMod \in Nat /\ LongMod >= 16
<1>1. PICK p : /\ p[0] = 1 /\ p[Nibbles] = LongMod /\ \A k \in 0 .. Nibbles : p[k] \in Nat \ {0}
               /\ \A k \in 1 .. Nibbles : p[k] = 16 * p[k - 1]
  BY RegistersAre
<1>2. Nibbles \in 1 .. Nibbles /\ Nibbles - 1 \in 0 .. Nibbles /\ Nibbles \in 0 .. Nibbles
  BY PrintkAssumption
<1> QED
  BY <1>1, <1>2

\* Nothing of a register is left behind its nibbles.
LEMMA NibblesAre ==
  ASSUME NEW u \in 0 .. (LongMod - 1)
  PROVE  Divides(Quotients(u, 16, Nibbles), u, 16, Nibbles) /\ Quotients(u, 16, Nibbles)[Nibbles] = 0
<1> DEFINE rest == Quotients(u, 16, Nibbles)
<1>1. Nibbles \in Nat /\ u \in Nat /\ LongMod \in Nat
  BY PrintkAssumption, LongModIs
<1>2. Divides(rest, u, 16, Nibbles)
  BY <1>1, QuotientsAre
<1> HIDE DEF rest
<1>3. PICK p : /\ p[0] = 1 /\ p[Nibbles] = LongMod /\ \A k \in 0 .. Nibbles : p[k] \in Nat \ {0}
               /\ \A k \in 1 .. Nibbles : p[k] = 16 * p[k - 1]
  BY RegistersAre
<1> DEFINE S == {k \in 0 .. Nibbles : rest[k] < p[Nibbles - k]}
<1>4. 0 \in S
  BY <1>1, <1>2, <1>3 DEF Divides
<1>5. \A k \in 1 .. Nibbles : k - 1 \in S => k \in S
  <2> SUFFICES ASSUME NEW k \in 1 .. Nibbles, k - 1 \in S PROVE k \in S
    OBVIOUS
  <2> DEFINE a == rest[k - 1]
             c == p[Nibbles - k]
  <2>1. a \in Nat /\ rest[k] = a \div 16
    BY <1>1, <1>2 DEF Divides
  <2>2. Nibbles - k \in 0 .. Nibbles /\ Nibbles - k + 1 \in 1 .. Nibbles
        /\ (Nibbles - k + 1) - 1 = Nibbles - k /\ Nibbles - (k - 1) = Nibbles - k + 1
    BY <1>1
  <2>3. c \in Nat /\ a < 16 * c
    BY <1>3, <2>2
  <2> HIDE DEF a, c
  <2>4. a \div 16 \in 0 .. (c - 1)
    BY <2>1, <2>3, DividedBelow
  <2>5. rest[k] < c
    BY <2>1, <2>3, <2>4
  <2> QED BY <2>5 DEF c
<1>6. Nibbles \in S
  <2>1. \A k \in 0 .. Nibbles : k \in S
    <3> HIDE DEF S
    <3> QED BY <1>1, <1>4, <1>5, Climbs
  <2> QED BY <1>1, <2>1
<1>7. rest[Nibbles] \in Nat /\ rest[Nibbles] < 1
  BY <1>1, <1>2, <1>3, <1>6 DEF Divides
<1> QED
  BY <1>2, <1>7 DEF rest

\* Sixteen characters, each with a value of its own and none a sign or a space.
Skipped == {" ", "+", "-", "x", "X"}

LEMMA Letters ==
  ASSUME NEW dg \in {Lower, Upper}
  PROVE  \A j \in 0 .. 15 : dg[j + 1] \notin Skipped /\ DigitValue(dg[j + 1]) = j
<1> DEFINE Reads(c, j) ==
             c \notin Skipped /\ j \in 1 .. 16 /\ c \in {Lower[j], Upper[j]}
             /\ \A k \in 1 .. 16 : c \in {Lower[k], Upper[k]} => k = j
<1>1. \A c : \A j \in 1 .. 16 : Reads(c, j) => DigitValue(c) = j - 1
  BY DEF DigitValue
<1>2. Reads("0", 1) /\ Reads("1", 2) /\ Reads("2", 3) /\ Reads("3", 4) /\ Reads("4", 5)
  BY DEF Lower, Upper, Skipped
<1>3. Reads("5", 6) /\ Reads("6", 7) /\ Reads("7", 8) /\ Reads("8", 9) /\ Reads("9", 10)
  BY DEF Lower, Upper, Skipped
<1>4. Reads("a", 11) /\ Reads("b", 12) /\ Reads("c", 13) /\ Reads("d", 14)
      /\ Reads("e", 15) /\ Reads("f", 16)
  BY DEF Lower, Upper, Skipped
<1>5. Reads("A", 11) /\ Reads("B", 12) /\ Reads("C", 13) /\ Reads("D", 14)
      /\ Reads("E", 15) /\ Reads("F", 16)
  BY DEF Lower, Upper, Skipped
<1> HIDE DEF Reads
<1>6. \A k \in 1 .. 16 : Reads(Lower[k], k) /\ Reads(Upper[k], k)
  BY <1>2, <1>3, <1>4, <1>5 DEF Lower, Upper
<1>7. \A k \in 1 .. 16 : Reads(dg[k], k)
  BY <1>6
<1>8. \A c : \A j \in 1 .. 16 : Reads(c, j) => c \notin Skipped
  BY DEF Reads
<1> SUFFICES ASSUME NEW j \in 0 .. 15
             PROVE  dg[j + 1] \notin Skipped /\ DigitValue(dg[j + 1]) = j
  OBVIOUS
<1>9. j + 1 \in 1 .. 16 /\ (j + 1) - 1 = j
  OBVIOUS
<1> QED
  BY <1>1, <1>7, <1>8, <1>9

LEMMA NoneSkipped ==
  ASSUME NEW dg \in {Lower, Upper}
  PROVE  \A c \in Alphabet(dg) : c \notin Skipped
<1> SUFFICES ASSUME NEW i \in 1 .. 16 PROVE dg[i] \notin Skipped
  BY DEF Alphabet
<1>1. i - 1 \in 0 .. 15 /\ (i - 1) + 1 = i
  OBVIOUS
<1> QED
  BY <1>1, Letters

\* text is a number between characters that count for nothing.
Framed(text, digits, a) ==
  /\ a \in Nat /\ Len(text) \in Nat /\ Len(digits) \in Nat /\ a + Len(digits) <= Len(text)
  /\ \A k \in 1 .. a : text[k] \in Skipped \cup {"0"}
  /\ \A i \in 1 .. Len(digits) : text[a + i] = digits[i]
  /\ \A k \in (a + Len(digits) + 1) .. Len(text) : text[k] \in Skipped

LEMMA ReadsBack ==
  ASSUME NEW u \in Nat, NEW base \in 2 .. 16, NEW dg \in {Lower, Upper},
         NEW digits, NEW len, NEW rest, Spells(digits, u, base, dg, len, rest),
         NEW text, NEW a, Framed(text, digits, a)
  PROVE  ReadBack(text, base) = IF Contains(text, "-") THEN -u ELSE u
<1> DEFINE end == Len(text)
           Step(v, k) == IF text[k] \in Skipped THEN v ELSE v * base + DigitValue(text[k])
           w == [k \in 0 .. end |-> IF k <= a THEN 0
                                    ELSE IF k <= a + len THEN rest[len - (k - a)] ELSE u]
           G(h) == h = [k \in 0 .. end |-> IF k = 0 THEN 0 ELSE Step(h[k - 1], k)]
           value == CHOOSE h : G(h)
<1>1. /\ a \in Nat /\ end \in Nat /\ len \in Nat /\ a + len <= end /\ Len(digits) = len
      /\ rest[0] = u /\ rest[len] = 0
  BY DEF Framed, Spells, Divides
<1>2. ASSUME NEW v \in Nat, NEW k \in 1 .. a PROVE v = 0 => Step(v, k) = 0
  <2>1. text[k] \in Skipped \/ text[k] = "0"
    BY DEF Framed
  <2>2. DigitValue("0") = 0
    <3>1. DigitValue(Lower[0 + 1]) = 0
      BY Letters
    <3>2. Lower[0 + 1] = "0"
      BY DEF Lower
    <3> QED BY <3>1, <3>2
  <2> QED BY <2>1, <2>2
<1>3. ASSUME NEW i \in 1 .. len PROVE Step(rest[len - (i - 1)], a + i) = rest[len - i]
  <2> DEFINE q == rest[len - i]
  <2>1. text[a + i] = dg[(q % base) + 1]
    BY <1>1 DEF Framed, Spells
  <2>2. q \in Nat
    BY <1>1 DEF Spells, Divides
  <2>3. rest[len - (i - 1)] = q \div base
    <3>1. len - (i - 1) \in 1 .. len /\ (len - (i - 1)) - 1 = len - i
      BY <1>1
    <3> QED BY <3>1 DEF Spells, Divides
  <2> HIDE DEF q
  <2>4. q \div base \in Nat /\ q % base \in 0 .. (base - 1) /\ q = (q \div base) * base + (q % base)
    <3>1. base \in Nat \ {0}
      OBVIOUS
    <3> QED BY <2>2, <3>1, Divided
  <2>5. q % base \in 0 .. 15
    <3> DEFINE r == q % base
    <3>1. base \in Nat /\ base <= 16 /\ r \in 0 .. (base - 1)
      BY <2>4
    <3> HIDE DEF r
    <3>2. r \in 0 .. 15
      BY <3>1
    <3> QED BY <3>2 DEF r
  <2>6. text[a + i] \notin Skipped /\ DigitValue(text[a + i]) = q % base
    BY <2>1, <2>5, Letters
  <2> QED BY <2>3, <2>4, <2>6 DEF q
<1>4. ASSUME NEW v, NEW k \in (a + len + 1) .. end PROVE Step(v, k) = v
  BY <1>1 DEF Framed
<1>5. ReadBack(text, base) = IF Contains(text, "-") THEN -value[end] ELSE value[end]
  BY DEF ReadBack, Skipped
<1> HIDE DEF Step, end
<1>6. G(w)
  <2> SUFFICES ASSUME NEW k \in 0 .. end
               PROVE  w[k] = IF k = 0 THEN 0 ELSE Step(w[k - 1], k)
    OBVIOUS
  <2>1. CASE k = 0
    BY <1>1, <2>1
  <2>2. CASE k \in 1 .. a
    <3>1. w[k] = 0 /\ w[k - 1] = 0
      BY <1>1, <2>2
    <3> QED BY <1>2, <2>2, <3>1
  <2>3. CASE k \in (a + 1) .. (a + len)
    <3>1. PICK i \in 1 .. len : k = a + i
      BY <1>1, <2>3
    <3>2. w[k] = rest[len - i]
      BY <1>1, <3>1
    <3>3. w[k - 1] = rest[len - (i - 1)]
      <4>1. CASE i = 1
        BY <1>1, <3>1, <4>1
      <4>2. CASE i # 1
        BY <1>1, <3>1, <4>2
      <4> QED BY <4>1, <4>2
    <3>4. k # 0
      BY <1>1, <2>3
    <3> QED BY <1>3, <3>1, <3>2, <3>3, <3>4
  <2>4. CASE k > a + len
    <3>1. w[k] = u
      BY <1>1, <2>4
    <3>2. w[k - 1] = u
      <4>1. CASE k - 1 > a + len
        BY <1>1, <2>4, <4>1
      <4>2. CASE k - 1 = a + len /\ len = 0
        BY <1>1, <2>4, <4>2
      <4>3. CASE k - 1 = a + len /\ len # 0
        BY <1>1, <2>4, <4>3
      <4> QED BY <1>1, <2>4, <4>1, <4>2, <4>3
    <3>3. k \in (a + len + 1) .. end /\ k # 0
      BY <1>1, <2>4
    <3> QED BY <1>4, <3>1, <3>2, <3>3
  <2> QED BY <1>1, <2>1, <2>2, <2>3, <2>4
<1>7. G(value)
  BY <1>6
<1> HIDE DEF value
<1>8. \A k \in 0 .. end : value[k] = w[k]
  <2> DEFINE S == {k \in 0 .. end : value[k] = w[k]}
  <2> HIDE DEF w
  <2>1. \A k \in 0 .. end : /\ value[k] = IF k = 0 THEN 0 ELSE Step(value[k - 1], k)
                            /\ w[k] = IF k = 0 THEN 0 ELSE Step(w[k - 1], k)
    BY <1>6, <1>7
  <2>2. 0 \in S
    BY <1>1, <2>1
  <2>3. \A k \in 1 .. end : k - 1 \in S => k \in S
    BY <1>1, <2>1
  <2>4. \A k \in 0 .. end : k \in S
    <3> HIDE DEF S
    <3> QED BY <1>1, <2>2, <2>3, Climbs
  <2> QED BY <2>4
<1>9. w[end] = u
  <2>1. CASE end > a + len
    BY <1>1, <2>1
  <2>2. CASE end = a + len /\ len = 0
    BY <1>1, <2>2
  <2>3. CASE end = a + len /\ len # 0
    BY <1>1, <2>3
  <2> QED BY <1>1, <2>1, <2>2, <2>3
<1>10. value[end] = u
  BY <1>1, <1>8, <1>9
<1> HIDE DEF w
<1> QED
  BY <1>5, <1>10

\* As many of c as there is room for.
LEMMA TimesIs ==
  ASSUME NEW pad \in Int, NEW S, NEW c \in S
  PROVE  Times(pad, c) \in Seq(S) /\ Len(Times(pad, c)) = IF pad > 0 THEN pad ELSE 0
<1> DEFINE len == IF pad > 0 THEN pad ELSE 0
           g == [k \in 1 .. len |-> c]
<1>1. 1 .. pad = 1 .. len
  OBVIOUS
<1>2. Times(pad, c) = g
  BY <1>1 DEF Times
<1>3. g \in [1 .. len -> S] /\ len \in Nat
  OBVIOUS
<1> HIDE DEF g, len
<1>4. g \in Seq(S) /\ Len(g) = len
  BY <1>3, IsSeq
<1> QED
  BY <1>2, <1>4 DEF len

\* The type of a conversion.
Conversions ==
  [left : BOOLEAN, zero : BOOLEAN, plus : BOOLEAN, space : BOOLEAN, alt : BOOLEAN,
   width : Nat, prec : Int, long : BOOLEAN, spec : STRING]

LEMMA ValueIs ==
  ASSUME NEW d \in Conversions, NEW arg \in Nat
  PROVE  LET value == Fetched(d, arg)
             size == IF value < 0 THEN -value ELSE value
         IN  value \in Int /\ size \in Nat /\ size < LongMod /\ size % LongMod = size
<1> DEFINE mod == IF d.long \/ d.spec = "p" THEN LongMod ELSE IntMod
           v == arg % mod
           value == Fetched(d, arg)
           size == IF value < 0 THEN -value ELSE value
<1>1. LongMod \in Nat /\ LongMod >= 16 /\ IntMod \in 1 .. LongMod
  BY LongModIs, PrintkAssumption
<1>2. mod \in Nat \ {0} /\ mod <= LongMod
  BY <1>1
<1>3. value = IF d.spec \in {"d", "i"} THEN Signed(v, mod) ELSE v
  BY DEF Fetched
<1> HIDE DEF value, mod
<1>4. v \in 0 .. (mod - 1)
  BY <1>2, Divided
<1> HIDE DEF v
<1> DEFINE half == mod \div 2
<1>5. half \in Nat /\ mod % 2 \in 0 .. 1 /\ mod = half * 2 + (mod % 2)
  BY <1>2, Divided
<1>6. Signed(v, mod) = IF v >= half THEN v - mod ELSE v
  BY DEF Signed
<1> HIDE DEF half
<1>7. value \in Int /\ size \in Nat /\ size < LongMod
  BY <1>1, <1>2, <1>3, <1>4, <1>5, <1>6
<1> HIDE DEF size
<1>8. size % LongMod = size
  BY <1>1, <1>7, Divided
<1> QED
  BY <1>7, <1>8 DEF size, value

\* The digits of a conversion, whatever its flags and width.
Digits(d, arg) ==
  LET value == Fetched(d, arg)
  IN  Number((IF value < 0 THEN -value ELSE value) % LongMod, Base(d),
             IF d.spec = "X" THEN Upper ELSE Lower)

LEMMA SignIs ==
  ASSUME NEW d \in Conversions, NEW value \in Int, NEW digits
  PROVE  /\ SignOf(d, value) \in Seq({" ", "+", "-"}) /\ Prefix0(d, digits) \in Seq({"0", "x", "X"})
         /\ value < 0 => SignOf(d, value) = <<"-">>
         /\ value >= 0 => SignOf(d, value) \in Seq({" ", "+"})
         /\ SignRoom(d, value) \in Nat
         /\ ~ d.space => SignRoom(d, value) = Len(SignOf(d, value))
<1>1. /\ <<"-">> \in Seq({" ", "+", "-"}) /\ Len(<<"-">>) = 1
      /\ <<"+">> \in Seq({" ", "+", "-"}) /\ <<"+">> \in Seq({" ", "+"}) /\ Len(<<"+">>) = 1
      /\ <<" ">> \in Seq({" ", "+", "-"}) /\ <<" ">> \in Seq({" ", "+"})
      /\ <<>> \in Seq({" ", "+", "-"}) /\ <<>> \in Seq({" ", "+"}) /\ Len(<<>>) = 0
  OBVIOUS
<1>2. d.plus \in BOOLEAN /\ d.space \in BOOLEAN /\ d.alt \in BOOLEAN
  BY DEF Conversions
<1>3. Prefix0(d, digits) \in Seq({"0", "x", "X"})
  <2>1. <<"0", "x">> \in Seq({"0", "x", "X"}) /\ <<"0", "X">> \in Seq({"0", "x", "X"})
        /\ <<"0">> \in Seq({"0", "x", "X"}) /\ <<>> \in Seq({"0", "x", "X"})
    OBVIOUS
  <2>2. Prefix0(d, digits) \in {<<"0", "x">>, <<"0", "X">>, <<"0">>, <<>>}
    BY DEF Prefix0
  <2> QED BY <2>1, <2>2
<1>4. CASE value < 0
  <2>1. SignOf(d, value) = <<"-">> /\ SignRoom(d, value) = 1
    BY <1>4 DEF SignOf, SignRoom
  <2> QED BY <1>1, <1>4, <2>1, <1>3
<1>5. CASE value >= 0 /\ d.plus
  <2>1. SignOf(d, value) = <<"+">> /\ SignRoom(d, value) = 1
    BY <1>5 DEF SignOf, SignRoom
  <2> QED BY <1>1, <1>5, <2>1, <1>3
<1>6. CASE value >= 0 /\ ~ d.plus /\ d.space
  <2>1. SignOf(d, value) = <<" ">> /\ SignRoom(d, value) = 2
    <3>1. ~ (value < 0) /\ ~ d.plus /\ d.space
      BY <1>6
    <3>2. SignOf(d, value) = IF d.space THEN <<" ">> ELSE <<>>
      BY <3>1 DEF SignOf
    <3>3. SignRoom(d, value) = IF d.space THEN 2 ELSE 0
      BY <3>1 DEF SignRoom
    <3> QED BY <3>1, <3>2, <3>3, Zenon
  <2>2. ~ (value < 0) /\ d.space
    BY <1>6
  <2>3. ~ d.space => SignRoom(d, value) = Len(SignOf(d, value))
    BY <2>2, Zenon
  <2>4. /\ SignOf(d, value) \in Seq({" ", "+", "-"}) /\ SignOf(d, value) \in Seq({" ", "+"})
        /\ SignRoom(d, value) \in Nat
    <3>1. 2 \in Nat
      OBVIOUS
    <3> QED BY <1>1, <2>1, <3>1, Zenon
  <2> QED BY <1>3, <2>2, <2>3, <2>4, Zenon
<1>7. CASE value >= 0 /\ ~ d.plus /\ ~ d.space
  <2>1. SignOf(d, value) = <<>> /\ SignRoom(d, value) = 0
    BY <1>7 DEF SignOf, SignRoom
  <2> QED BY <1>1, <1>7, <2>1, <1>3
<1>8. value < 0 \/ value >= 0
  OBVIOUS
<1> QED
  BY <1>4, <1>5, <1>6, <1>7, <1>8, Zenon

\* Sequences of fewer kinds are sequences of more, and t is such a sequence.
LEMMA KindsGrow ==
  ASSUME NEW S, NEW T, S \subseteq T, NEW s \in Seq(S)
  PROVE  s \in Seq(T) /\ Len(s) \in Nat /\ \A k \in 1 .. Len(s) : s[k] \in S
<1>1. Len(s) \in Nat /\ s \in [1 .. Len(s) -> S]
  BY LenProperties
<1>2. s \in [1 .. Len(s) -> T]
  BY <1>1
<1> DEFINE len == Len(s)
<1> HIDE DEF len
<1>3. s \in Seq(T)
  <2>1. len \in Nat /\ s \in [1 .. len -> T]
    BY <1>1, <1>2 DEF len
  <2> QED BY <2>1, IsSeq
<1> QED
  BY <1>1, <1>3

HasMinus(s) == \E k \in 1 .. Len(s) : s[k] = "-"

LEMMA Differs == "-" \notin {"0", " "} /\ "-" \notin {"0", "x", "X"} /\ "-" \notin {" "}
                 /\ "-" \notin {" ", "+"}
  OBVIOUS

LEMMA HasJoined ==
  ASSUME NEW S, NEW s \in Seq(S), NEW t \in Seq(S)
  PROVE  s \o t \in Seq(S) /\ (HasMinus(s \o t) <=> HasMinus(s) \/ HasMinus(t))
<1> DEFINE u == s \o t
           a == Len(s)
           b == Len(t)
<1>1. u \in Seq(S) /\ Joins(u, s, t) /\ a \in Nat /\ b \in Nat
  BY Joined, LenProperties
<1> HIDE DEF u
<1>2. Len(u) = a + b /\ \A k \in 1 .. (a + b) : u[k] = IF k <= a THEN s[k] ELSE t[k - a]
  BY <1>1 DEF Joins
<1> HIDE DEF a, b
<1>3. ASSUME NEW k \in 1 .. a PROVE k \in 1 .. (a + b) /\ u[k] = s[k]
  BY <1>1, <1>2
<1>4. ASSUME NEW k \in 1 .. b PROVE a + k \in 1 .. (a + b) /\ u[a + k] = t[k]
  <2>1. a + k \in 1 .. (a + b) /\ ~ (a + k <= a) /\ (a + k) - a = k
    BY <1>1
  <2> QED BY <1>2, <2>1
<1>5. ASSUME NEW k \in 1 .. (a + b)
      PROVE  (k \in 1 .. a /\ u[k] = s[k]) \/ (k - a \in 1 .. b /\ u[k] = t[k - a])
  BY <1>1, <1>2
<1>6. HasMinus(u) <=> \E k \in 1 .. (a + b) : u[k] = "-"
  BY <1>2 DEF HasMinus
<1>7. HasMinus(s) <=> \E k \in 1 .. a : s[k] = "-"
  BY DEF HasMinus, a
<1>8. HasMinus(t) <=> \E k \in 1 .. b : t[k] = "-"
  BY DEF HasMinus, b
<1>9. HasMinus(u) <=> HasMinus(s) \/ HasMinus(t)
  BY <1>3, <1>4, <1>5, <1>6, <1>7, <1>8, Zenon
<1> QED
  BY <1>1, <1>9 DEF u

\* Where a position lies in three parts, one after the other.
LEMMA PartsAre ==
  ASSUME NEW a \in Nat, NEW l \in Nat, NEW b \in Nat
  PROVE  /\ \A k \in 1 .. a : k \in 1 .. (a + l + b) /\ k \in 1 .. (a + l) /\ k <= a + l /\ k <= a
         /\ \A i \in 1 .. l : /\ a + i \in 1 .. (a + l + b) /\ a + i \in 1 .. (a + l)
                            /\ a + i <= a + l /\ ~ (a + i <= a) /\ (a + i) - a = i
         /\ \A k \in (a + l + 1) .. (a + l + b) :
              k \in 1 .. (a + l + b) /\ ~ (k <= a + l) /\ k - (a + l) \in 1 .. b
  OBVIOUS

\* Text is front, digits and back, one after the other.
Encloses(text, front, digits, back, S, before) ==
  /\ text \in Seq(S) /\ Len(text) = Len(front) + Len(digits) + Len(back)
  /\ \A k \in 1 .. Len(front) : text[k] = front[k] /\ text[k] \in before
  /\ \A i \in 1 .. Len(digits) : text[Len(front) + i] = digits[i]
  /\ \A k \in (Len(front) + Len(digits) + 1) .. Len(text) : text[k] = " "

LEMMA Enclosed ==
  ASSUME NEW S, NEW front \in Seq(S), NEW digits \in Seq(S), NEW back \in Seq({" "}),
         " " \in S, NEW before, front \in Seq(before)
  PROVE  Encloses(front \o digits \o back, front, digits, back, S, before)
<1> DEFINE a == Len(front)
           l == Len(digits)
           b == Len(back)
           head == front \o digits
           text == head \o back
<1>1. back \in Seq(S) /\ b \in Nat /\ \A k \in 1 .. b : back[k] = " "
  <2>1. {" "} \subseteq S
    OBVIOUS
  <2>2. back \in Seq(S) /\ b \in Nat /\ \A k \in 1 .. b : back[k] \in {" "}
    BY <2>1, KindsGrow
  <2> QED BY <2>2
<1>2. a \in Nat /\ l \in Nat /\ \A k \in 1 .. a : front[k] \in before
  <2>1. a \in Nat /\ l \in Nat
    BY LenProperties
  <2>2. before \subseteq before
    OBVIOUS
  <2>3. \A k \in 1 .. a : front[k] \in before
    BY <2>2, KindsGrow
  <2> QED BY <2>1, <2>3
<1>3. head \in Seq(S) /\ Joins(head, front, digits)
  BY Joined
<1> HIDE DEF head
<1>4. text \in Seq(S) /\ Joins(text, head, back)
  BY <1>1, <1>3, Joined
<1> HIDE DEF text
<1>5. Len(head) = a + l /\ \A k \in 1 .. (a + l) : head[k] = IF k <= a THEN front[k] ELSE digits[k - a]
  BY <1>3 DEF Joins
<1>6. /\ Len(text) = a + l + b
      /\ \A k \in 1 .. (a + l + b) : text[k] = IF k <= a + l THEN head[k] ELSE back[k - (a + l)]
  BY <1>4, <1>5 DEF Joins
<1> HIDE DEF a, l, b
<1>7. a \in Nat /\ l \in Nat /\ b \in Nat
  BY <1>1, <1>2
<1>8. \A k \in 1 .. a : text[k] = front[k]
  <2> SUFFICES ASSUME NEW k \in 1 .. a PROVE text[k] = front[k]
    OBVIOUS
  <2>1. k \in 1 .. (a + l + b) /\ k \in 1 .. (a + l) /\ k <= a + l /\ k <= a
    BY <1>7, PartsAre, Zenon
  <2>2. text[k] = head[k]
    BY <1>6, <2>1, Zenon
  <2>3. head[k] = front[k]
    BY <1>5, <2>1, Zenon
  <2> QED BY <2>2, <2>3
<1>9. \A i \in 1 .. l : text[a + i] = digits[i]
  <2> SUFFICES ASSUME NEW i \in 1 .. l PROVE text[a + i] = digits[i]
    OBVIOUS
  <2>1. a + i \in 1 .. (a + l + b) /\ a + i \in 1 .. (a + l) /\ a + i <= a + l
        /\ ~ (a + i <= a) /\ (a + i) - a = i
    BY <1>7, PartsAre, Zenon
  <2>2. text[a + i] = head[a + i]
    BY <1>6, <2>1, Zenon
  <2>3. head[a + i] = digits[(a + i) - a]
    BY <1>5, <2>1, Zenon
  <2> QED BY <2>1, <2>2, <2>3
<1>10. \A k \in (a + l + 1) .. (a + l + b) : text[k] = " "
  <2> SUFFICES ASSUME NEW k \in (a + l + 1) .. (a + l + b) PROVE text[k] = " "
    OBVIOUS
  <2>1. k \in 1 .. (a + l + b) /\ ~ (k <= a + l) /\ k - (a + l) \in 1 .. b
    BY <1>7, PartsAre, Zenon
  <2>2. text[k] = back[k - (a + l)]
    BY <1>6, <2>1, Zenon
  <2>3. back[k - (a + l)] = " "
    BY <1>1, <2>1, Zenon
  <2> QED BY <2>2, <2>3
<1>11. \A k \in 1 .. a : text[k] \in before
  BY <1>2, <1>8
<1>12. Len(text) = a + l + b
  BY <1>6
<1> QED
  BY <1>4, <1>8, <1>9, <1>10, <1>11, <1>12 DEF Encloses, text, head, a, l, b

LEMMA DigitsAre ==
  ASSUME NEW d \in Conversions, d.spec \in Numeric, NEW arg \in Nat
  PROVE  Len(Digits(d, arg)) \in Nat
<1> DEFINE value == Fetched(d, arg)
           size == IF value < 0 THEN -value ELSE value
           dg == IF d.spec = "X" THEN Upper ELSE Lower
<1>1. size \in Nat /\ size % LongMod = size
  BY ValueIs
<1>2. Base(d) \in 2 .. 16
  BY DEF Base, Numeric
<1>3. Digits(d, arg) = Number(size, Base(d), dg)
  BY <1>1 DEF Digits
<1> HIDE DEF size, dg
<1>4. Digits(d, arg) \in Seq(Alphabet(dg))
  BY <1>1, <1>2, <1>3, NumberIs
<1> QED
  BY <1>4, LenProperties

\* A number put out with sign, prefix and padding reads back, and is as long as
\* its parts and the padding.
\* What is put out but for the padding, and how many characters that leaves.
Core(d, arg) ==
  Len(SignOf(d, Fetched(d, arg))) + Len(Prefix0(d, Digits(d, arg))) + Len(Digits(d, arg))

Padding(d, arg) ==
  (IF d.spec = "p" /\ d.width = 0 THEN 16 ELSE d.width)
    - SignRoom(d, Fetched(d, arg)) - Len(Prefix0(d, Digits(d, arg))) - Len(Digits(d, arg))

LEMMA NumericIs ==
  ASSUME NEW d \in Conversions, d.spec \in Numeric, NEW arg \in Nat
  PROVE  /\ ReadBack(numeric(d, arg), Base(d)) = Fetched(d, arg)
         /\ Core(d, arg) \in Nat /\ Core(d, arg) >= 1 /\ Padding(d, arg) \in Int
         /\ Len(numeric(d, arg)) = Core(d, arg) + IF Padding(d, arg) > 0 THEN Padding(d, arg) ELSE 0
<1> DEFINE value == Fetched(d, arg)
           size == IF value < 0 THEN -value ELSE value
           dg == IF d.spec = "X" THEN Upper ELSE Lower
           digits == Digits(d, arg)
           sign == SignOf(d, value)
           prefix == Prefix0(d, digits)
           zero == d.zero \/ d.spec = "p"
           width == IF d.spec = "p" /\ d.width = 0 THEN 16 ELSE d.width
           pad == width - SignRoom(d, value) - Len(prefix) - Len(digits)
           left == IF d.left THEN <<>> ELSE Times(pad, IF zero THEN "0" ELSE " ")
           right == IF d.left THEN Times(pad, " ") ELSE <<>>
           front == left \o sign \o prefix
           text == front \o digits \o right
<1>1. numeric(d, arg) = text
  BY DEF numeric, Digits
<1>2. value \in Int /\ size \in Nat /\ size % LongMod = size
  BY ValueIs
<1>3. Base(d) \in 2 .. 16 /\ dg \in {Lower, Upper}
  BY DEF Base, Numeric
<1>4. digits = Number(size, Base(d), dg)
  BY <1>2 DEF Digits
<1>5. /\ sign \in Seq({" ", "+", "-"}) /\ prefix \in Seq({"0", "x", "X"})
      /\ value < 0 => sign = <<"-">>
      /\ value >= 0 => sign \in Seq({" ", "+"})
      /\ SignRoom(d, value) \in Nat
  BY <1>2, SignIs
<1> HIDE DEF value, size, dg, digits, sign, prefix
<1>6. PICK len \in Nat \ {0} : \E rest : Spells(digits, size, Base(d), dg, len, rest)
  BY <1>2, <1>3, <1>4, NumberIs
<1>7. PICK rest : Spells(digits, size, Base(d), dg, len, rest)
  BY <1>6
<1>8. digits \in Seq(Alphabet(dg)) /\ Len(digits) >= 1
  BY <1>2, <1>3, <1>4, NumberIs
<1>9. \A c \in Alphabet(dg) : c \notin Skipped
  BY <1>3, NoneSkipped
<1> DEFINE before == Skipped \cup {"0"}
           S == before \cup Alphabet(dg)
<1>10. /\ Len(digits) \in Nat /\ digits \in Seq(S)
       /\ \A k \in 1 .. Len(digits) : digits[k] \in Alphabet(dg)
  <2>1. Alphabet(dg) \subseteq S
    OBVIOUS
  <2> HIDE DEF S
  <2> QED BY <1>8, <2>1, KindsGrow
<1>11. Len(prefix) \in Nat /\ prefix \in Seq(before)
       /\ \A k \in 1 .. Len(prefix) : prefix[k] \in {"0", "x", "X"}
  <2>1. {"0", "x", "X"} \subseteq before
    BY DEF Skipped
  <2> HIDE DEF before
  <2> QED BY <1>5, <2>1, KindsGrow
<1>12. Len(sign) \in Nat /\ sign \in Seq(before)
  <2>1. {" ", "+", "-"} \subseteq before
    BY DEF Skipped
  <2> HIDE DEF before
  <2> QED BY <1>5, <2>1, KindsGrow
<1>13. pad \in Int
  <2>1. width \in Nat
    BY DEF Conversions
  <2> HIDE DEF width, before, S
  <2>2. SignRoom(d, value) \in Nat /\ Len(prefix) \in Nat /\ Len(digits) \in Nat
    BY <1>5, <1>10, <1>11
  <2> HIDE DEF left, right, front, text
  <2> QED BY <2>1, <2>2
<1> HIDE DEF pad
<1>14. /\ left \in Seq({"0", " "}) /\ right \in Seq({" "}) /\ Len(left) \in Nat /\ Len(right) \in Nat
       /\ Len(left) + Len(right) = IF pad > 0 THEN pad ELSE 0
  <2>1. /\ Times(pad, "0") \in Seq({"0", " "}) /\ Times(pad, " ") \in Seq({"0", " "})
        /\ Times(pad, " ") \in Seq({" "})
        /\ Len(Times(pad, "0")) = (IF pad > 0 THEN pad ELSE 0)
        /\ Len(Times(pad, " ")) = (IF pad > 0 THEN pad ELSE 0)
    BY <1>13, TimesIs
  <2>2. <<>> \in Seq({"0", " "}) /\ <<>> \in Seq({" "}) /\ Len(<<>>) = 0
    OBVIOUS
  <2> DEFINE padding == Times(pad, IF zero THEN "0" ELSE " ")
  <2>3. padding \in Seq({"0", " "}) /\ Len(padding) = IF pad > 0 THEN pad ELSE 0
    <3>1. CASE zero
      <4>1. padding = Times(pad, "0")
        BY <3>1
      <4> QED BY <2>1, <4>1
    <3>2. CASE ~ zero
      <4>1. padding = Times(pad, " ")
        BY <3>2
      <4> QED BY <2>1, <4>1
    <3> QED BY <3>1, <3>2
  <2> HIDE DEF padding
  <2>4. (left = <<>> /\ right = Times(pad, " ")) \/ (left = padding /\ right = <<>>)
    BY DEF padding
  <2> HIDE DEF left, right, front, text, before, S
  <2> DEFINE room == IF pad > 0 THEN pad ELSE 0
  <2>5. room \in Nat
    BY <1>13
  <2>6. /\ Len(Times(pad, " ")) = room /\ Len(padding) = room
        /\ Times(pad, " ") \in Seq({" "}) /\ padding \in Seq({"0", " "})
    BY <2>1, <2>3
  <2> HIDE DEF room
  <2>7. CASE left = <<>> /\ right = Times(pad, " ")
    <3>1. Len(left) = 0 /\ Len(right) = room
      BY <2>2, <2>7, <2>6, Zenon
    <3>2. Len(left) \in Nat /\ Len(right) \in Nat /\ Len(left) + Len(right) = room
      BY <2>5, <3>1
    <3>3. left \in Seq({"0", " "}) /\ right \in Seq({" "})
      BY <2>2, <2>7, <2>6, Zenon
    <3> QED BY <3>2, <3>3, Zenon DEF room
  <2>8. CASE left = padding /\ right = <<>>
    <3>1. Len(left) = room /\ Len(right) = 0
      BY <2>2, <2>8, <2>6, Zenon
    <3>2. Len(left) \in Nat /\ Len(right) \in Nat /\ Len(left) + Len(right) = room
      BY <2>5, <3>1
    <3>3. left \in Seq({"0", " "}) /\ right \in Seq({" "})
      BY <2>2, <2>8, <2>6, Zenon
    <3> QED BY <3>2, <3>3, Zenon DEF room
  <2> QED BY <2>4, <2>7, <2>8
<1>15. left \in Seq(before) /\ \A k \in 1 .. Len(left) : left[k] \in {"0", " "}
  <2>1. {"0", " "} \subseteq before
    BY DEF Skipped
  <2> HIDE DEF before, left
  <2> QED BY <1>14, <2>1, KindsGrow
<1> HIDE DEF left, right
<1> DEFINE start == left \o sign
<1>16. start \in Seq(before) /\ Joins(start, left, sign)
  <2> HIDE DEF before
  <2> QED BY <1>12, <1>15, Joined
<1> HIDE DEF start
<1>17. front \in Seq(before) /\ Joins(front, start, prefix)
  <2>1. front = start \o prefix
    BY DEF start
  <2> HIDE DEF before, front
  <2> QED BY <1>11, <1>16, <2>1, Joined
<1> HIDE DEF front
<1>18. Len(start) = Len(left) + Len(sign) /\ Len(front) = Len(left) + Len(sign) + Len(prefix)
  BY <1>12, <1>14, <1>16, <1>17 DEF Joins
<1>19. front \in Seq(S) /\ " " \in S
  <2>1. before \subseteq S /\ " " \in S
    BY DEF Skipped
  <2> HIDE DEF before, S
  <2> QED BY <1>17, <2>1, KindsGrow
<1>20. Encloses(text, front, digits, right, S, before)
  <2> HIDE DEF before, S
  <2> QED BY <1>10, <1>14, <1>17, <1>19, Enclosed
<1> HIDE DEF text, before, S
<1>21. /\ Len(left) \in Nat /\ Len(sign) \in Nat /\ Len(prefix) \in Nat /\ Len(digits) \in Nat
      /\ Len(right) \in Nat /\ Len(digits) >= 1
      /\ Len(start) = Len(left) + Len(sign) /\ Len(front) = Len(left) + Len(sign) + Len(prefix)
      /\ Len(text) = Len(left) + Len(sign) + Len(prefix) + Len(digits) + Len(right)
  <2>1. Len(left) \in Nat /\ Len(right) \in Nat
    BY <1>14
  <2>2. Len(sign) \in Nat /\ Len(prefix) \in Nat /\ Len(digits) \in Nat
    BY <1>10, <1>11, <1>12
  <2>3. Len(text) = Len(front) + Len(digits) + Len(right)
    BY <1>20 DEF Encloses
  <2> QED BY <1>8, <1>18, <2>1, <2>2, <2>3
<1>22. Framed(text, digits, Len(front))
  <2>1. Len(front) \in Nat /\ Len(text) \in Nat /\ Len(front) + Len(digits) <= Len(text)
    BY <1>21
  <2>2. \A k \in (Len(front) + Len(digits) + 1) .. Len(text) : text[k] \in Skipped
    BY <1>20 DEF Skipped, Encloses
  <2> QED BY <1>21, <1>20, <2>1, <2>2 DEF Framed, Encloses, before
<1>23. ReadBack(text, Base(d)) = IF Contains(text, "-") THEN -size ELSE size
  <2>1. size \in Nat /\ Base(d) \in 2 .. 16 /\ dg \in {Lower, Upper}
    BY <1>2, <1>3
  <2> QED BY <2>1, <1>7, <1>22, ReadsBack, Zenon
<1>24. Contains(text, "-") <=> value < 0
  <2>1. Contains(text, "-") <=> HasMinus(text)
    BY DEF Contains, HasMinus
  <2>2. ~ HasMinus(left)
    BY <1>15, Differs DEF HasMinus
  <2>3. ~ HasMinus(prefix)
    BY <1>11, Differs DEF HasMinus
  <2>4. ~ HasMinus(right)
    <3>1. right \in Seq({" "}) /\ {" "} \subseteq {" "}
      BY <1>14
    <3>2. \A k \in 1 .. Len(right) : right[k] \in {" "}
      BY <3>1, KindsGrow
    <3> QED BY <3>2, Differs DEF HasMinus
  <2>5. ~ HasMinus(digits)
    BY <1>9, <1>10 DEF HasMinus, Skipped
  <2>6. HasMinus(sign) <=> value < 0
    <3>1. ASSUME value < 0 PROVE HasMinus(sign)
      <4>1. sign = <<"-">>
        BY <1>5, <3>1
      <4>2. Len(sign) = 1 /\ sign[1] = "-"
        BY <4>1
      <4> QED BY <4>2 DEF HasMinus
    <3>2. ASSUME ~ (value < 0) PROVE ~ HasMinus(sign)
      <4>1. value >= 0
        <5>1. value \in Int
          BY <1>2
        <5> QED BY <3>2, <5>1
      <4>2. sign \in Seq({" ", "+"}) /\ {" ", "+"} \subseteq {" ", "+"}
        BY <1>5, <4>1
      <4>3. \A k \in 1 .. Len(sign) : sign[k] \in {" ", "+"}
        BY <4>2, KindsGrow
      <4> QED BY <4>3, Differs DEF HasMinus
    <3> QED BY <3>1, <3>2
  <2>7. HasMinus(start) <=> HasMinus(left) \/ HasMinus(sign)
    BY <1>12, <1>15, HasJoined DEF start
  <2>8. HasMinus(front) <=> HasMinus(start) \/ HasMinus(prefix)
    <3>1. front = start \o prefix
      BY DEF front, start
    <3> QED BY <1>11, <1>16, <3>1, HasJoined
  <2>9. HasMinus(text) <=> HasMinus(front \o digits) \/ HasMinus(right)
    <3>1. front \o digits \in Seq(S)
      BY <1>10, <1>19, HasJoined
    <3>2. right \in Seq(S)
      <4>1. {" "} \subseteq S
        BY <1>19
      <4> QED BY <1>14, <4>1, KindsGrow
    <3> QED BY <3>1, <3>2, HasJoined DEF text
  <2>10. HasMinus(front \o digits) <=> HasMinus(front) \/ HasMinus(digits)
    BY <1>10, <1>19, HasJoined
  <2> QED BY <2>1, <2>2, <2>3, <2>4, <2>5, <2>6, <2>7, <2>8, <2>9, <2>10
<1>25. ReadBack(text, Base(d)) = value
  BY <1>2, <1>23, <1>24 DEF size
<1> DEFINE core == Len(sign) + Len(prefix) + Len(digits)
<1>26. core \in Nat /\ core >= 1 /\ Len(text) = core + (IF pad > 0 THEN pad ELSE 0)
  <2>1. Len(text) = core + (Len(left) + Len(right))
    BY <1>21
  <2>2. core \in Nat /\ core >= 1
    BY <1>21
  <2>3. Len(left) + Len(right) = IF pad > 0 THEN pad ELSE 0
    BY <1>14
  <2> QED BY <2>1, <2>2, <2>3, Zenon
<1>27. core = Core(d, arg) /\ pad = Padding(d, arg)
  BY DEF Core, Padding, value, digits, sign, prefix, pad, width
<1> HIDE DEF core
<1> QED
  BY <1>1, <1>13, <1>25, <1>26, <1>27 DEF value

\* Numbers on the serial line: the digits of the decimal stand alone, those of the
\* hexadecimal one follow 0x.
LEMMA SerialReads ==
  ASSUME NEW u \in 0 .. (LongMod - 1)
  PROVE  ReadBack(serial_hex(u), 16) = u /\ ReadBack(serial_dec(u), 10) = u
<1>1. u \in Nat
  BY LongModIs
<1>2. Lower \in {Lower, Upper} /\ \A c \in Alphabet(Lower) : c \notin Skipped
  BY NoneSkipped
<1>3. ReadBack(serial_dec(u), 10) = u
  <2> DEFINE text == Number(u, 10, Lower)
  <2>1. text \in Seq(Alphabet(Lower)) /\ \E l \in Nat \ {0} : \E rest : Spells(text, u, 10, Lower, l, rest)
    <3>1. 10 \in 2 .. 16
      OBVIOUS
    <3> QED BY <1>1, <3>1, NumberIs, Zenon
  <2> HIDE DEF text
  <2>2. PICK l, rest : Spells(text, u, 10, Lower, l, rest)
    BY <2>1
  <2>3. Len(text) \in Nat /\ \A k \in 1 .. Len(text) : text[k] \in Alphabet(Lower)
    <3>1. Alphabet(Lower) \subseteq Alphabet(Lower)
      OBVIOUS
    <3> QED BY <2>1, <3>1, KindsGrow
  <2>4. Framed(text, text, 0)
    BY <2>3 DEF Framed
  <2>5. ~ Contains(text, "-")
    BY <1>2, <2>3 DEF Contains, Skipped
  <2>6. ReadBack(text, 10) = IF Contains(text, "-") THEN -u ELSE u
    <3>1. 10 \in 2 .. 16
      OBVIOUS
    <3> QED BY <1>1, <1>2, <2>2, <2>4, <3>1, ReadsBack, Zenon
  <2> QED BY <2>5, <2>6 DEF serial_dec, text
<1>4. ReadBack(serial_hex(u), 16) = u
  <2> DEFINE rest == Quotients(u, 16, Nibbles)
             digits == Spelt(rest, Nibbles, 16, Lower)
             zerox == <<"0", "x">>
             text == zerox \o digits
  <2>1. serial_hex(u) = text
    BY DEF serial_hex, Spelt
  <2>2. Divides(rest, u, 16, Nibbles) /\ rest[Nibbles] = 0
    BY NibblesAre
  <2> HIDE DEF rest
  <2>3. digits \in Seq(Alphabet(Lower)) /\ Spells(digits, u, 16, Lower, Nibbles, rest)
    <3>1. 16 \in 2 .. 16 /\ Nibbles \in Nat
      BY PrintkAssumption
    <3> QED BY <2>2, <3>1, SpeltIs, Zenon
  <2> DEFINE S == {"0", "x"} \cup Alphabet(Lower)
  <2>4. Len(digits) = Nibbles /\ Nibbles \in Nat
    BY <2>3 DEF Spells
  <2> HIDE DEF digits
  <2>5. digits \in Seq(S) /\ \A k \in 1 .. Len(digits) : digits[k] \in Alphabet(Lower)
    <3>1. Alphabet(Lower) \subseteq S
      OBVIOUS
    <3> HIDE DEF S
    <3> QED BY <2>3, <3>1, KindsGrow
  <2>6. zerox \in Seq(S) /\ Len(zerox) = 2 /\ zerox[1] = "0" /\ zerox[2] = "x"
    <3>1. "0" \in S /\ "x" \in S
      OBVIOUS
    <3> HIDE DEF S
    <3> QED BY <3>1
  <2> HIDE DEF zerox, S
  <2>7. Joins(text, zerox, digits)
    BY <2>5, <2>6, Joined
  <2> HIDE DEF text
  <2>8. Len(text) = 2 + Nibbles
        /\ \A k \in 1 .. (2 + Nibbles) : text[k] = IF k <= 2 THEN zerox[k] ELSE digits[k - 2]
    BY <2>4, <2>6, <2>7 DEF Joins
  <2>9. text[1] = "0" /\ text[2] = "x"
    BY <2>4, <2>6, <2>8
  <2>10. \A i \in 1 .. Nibbles : text[2 + i] = digits[i]
    <3> SUFFICES ASSUME NEW i \in 1 .. Nibbles PROVE text[2 + i] = digits[i]
      OBVIOUS
    <3>1. 2 + i \in 1 .. (2 + Nibbles) /\ ~ (2 + i <= 2) /\ (2 + i) - 2 = i
      BY <2>4
    <3> QED BY <2>8, <3>1
  <2>11. Framed(text, digits, 2)
    <3>1. \A k \in 1 .. 2 : text[k] \in Skipped \cup {"0"}
      <4>1. text[1] \in Skipped \cup {"0"} /\ text[2] \in Skipped \cup {"0"}
        BY <2>9 DEF Skipped
      <4>2. \A k \in 1 .. 2 : k = 1 \/ k = 2
        OBVIOUS
      <4> QED BY <4>1, <4>2
    <3> QED BY <2>4, <2>8, <2>10, <3>1 DEF Framed
  <2>12. ~ Contains(text, "-")
    <3> SUFFICES ASSUME NEW k \in 1 .. (2 + Nibbles) PROVE text[k] # "-"
      BY <2>8 DEF Contains
    <3>1. CASE k \in 1 .. 2
      BY <2>9, <3>1
    <3>2. CASE k \notin 1 .. 2
      <4>1. k - 2 \in 1 .. Nibbles /\ 2 + (k - 2) = k
        BY <2>4, <3>2
      <4>2. text[k] = digits[k - 2] /\ digits[k - 2] \in Alphabet(Lower)
        BY <2>4, <2>5, <2>10, <4>1
      <4> QED BY <1>2, <4>2 DEF Skipped
    <3> QED BY <3>1, <3>2
  <2>13. ReadBack(text, 16) = IF Contains(text, "-") THEN -u ELSE u
    <3>1. 16 \in 2 .. 16
      OBVIOUS
    <3> QED BY <1>1, <1>2, <2>3, <2>11, <3>1, ReadsBack, Zenon
  <2> QED BY <2>1, <2>12, <2>13
<1> QED
  BY <1>3, <1>4

\* What one character makes of the buffer.
LEMMA PutOut ==
  ASSUME NEW old, NEW size, NEW len, NEW r, r = [buf |-> old, size |-> size, len |-> len], NEW c
  PROVE  buf_out(r, c) =
           [buf |-> IF len + 1 < size THEN [old EXCEPT ![len] = c] ELSE old,
            size |-> size, len |-> len + 1]
<1> DEFINE put == IF len + 1 < size THEN [old EXCEPT ![len] = c] ELSE old
           put0 == IF r.len + 1 < r.size THEN [r.buf EXCEPT ![r.len] = c] ELSE r.buf
           s == [r EXCEPT !.buf = put0]
<1>1. r.buf = old /\ r.size = size /\ r.len = len
  OBVIOUS
<1>2. put0 = put
  BY <1>1
<1>3. buf_out(r, c) = [s EXCEPT !.len = r.len + 1]
  BY DEF buf_out
<1> HIDE DEF put0
<1>4. s = [buf |-> put0, size |-> size, len |-> len]
  OBVIOUS
<1> HIDE DEF s
<1>5. buf_out(r, c) = [s EXCEPT !.len = len + 1]
  BY <1>1, <1>3
<1> DEFINE y == len + 1
<1> HIDE DEF y
<1>6. [s EXCEPT !.len = y] = [buf |-> put0, size |-> size, len |-> y]
  BY <1>4
<1>7. buf_out(r, c) = [buf |-> put, size |-> size, len |-> y]
  <2> HIDE DEF put
  <2>1. buf_out(r, c) = [s EXCEPT !.len = y]
    BY <1>5 DEF y
  <2> QED BY <1>2, <1>6, <2>1, Zenon
<1> QED
  BY <1>7, Zenon DEF put, y

\* The buffer holds as much of the text as is put out and leaves room for the NUL.
LEMMA SprintfIs ==
  ASSUME NEW T, NEW text \in Seq(T), NEW size \in Nat
  PROVE  /\ ksprintf(Untouched, size, text).returned = Len(text)
         /\ \A k \in DOMAIN Untouched :
              ksprintf(Untouched, size, text).buf[k] =
                IF k >= size \/ k > Len(text) THEN "old"
                ELSE IF k = Len(text) \/ k = size - 1 THEN "NUL" ELSE text[k + 1]
<1> DEFINE len == Len(text)
           Memory0(k) == [j \in 0 .. 9 |-> IF j < k /\ j + 1 < size THEN text[j + 1] ELSE "old"]
           State(k) == [buf |-> Memory0(k), size |-> size, len |-> k]
           w == [k \in 0 .. len |-> State(k)]
           start == [buf |-> Untouched, size |-> size, len |-> 0]
           G(h) == h = [k \in 0 .. len |-> IF k = 0 THEN start ELSE buf_out(h[k - 1], text[k])]
           sink == CHOOSE h : G(h)
           s == sink[len]
           end == IF s.len < size THEN s.len ELSE size - 1
           buf == IF size > 0 THEN [s.buf EXCEPT ![end] = "NUL"] ELSE s.buf
<1>1. ksprintf(Untouched, size, text) = [buf |-> buf, returned |-> s.len]
  BY DEF ksprintf
<1>2. len \in Nat
  BY LenProperties
<1> HIDE DEF len
<1>3. State(0) = start
  <2>1. Memory0(0) = Untouched
    BY DEF Untouched
  <2> QED BY <2>1
<1>4. ASSUME NEW k \in 1 .. len PROVE buf_out(State(k - 1), text[k]) = State(k)
  <2> DEFINE old == Memory0(k - 1)
             new == IF (k - 1) + 1 < size THEN [old EXCEPT ![k - 1] = text[k]] ELSE old
  <2>1. buf_out(State(k - 1), text[k]) = [buf |-> new, size |-> size, len |-> (k - 1) + 1]
    <3> HIDE DEF old
    <3>1. State(k - 1) = [buf |-> old, size |-> size, len |-> k - 1]
      BY DEF old
    <3> HIDE DEF State
    <3> QED BY <3>1, PutOut
  <2>2. k \in Nat /\ k - 1 \in Nat /\ (k - 1) + 1 = k
    BY <1>2
  <2>3. \A j \in 0 .. 9 : new[j] = IF j < k /\ j + 1 < size THEN text[j + 1] ELSE "old"
    <3> SUFFICES ASSUME NEW j \in 0 .. 9
                 PROVE  new[j] = IF j < k /\ j + 1 < size THEN text[j + 1] ELSE "old"
      OBVIOUS
    <3>1. old[j] = IF j < k - 1 /\ j + 1 < size THEN text[j + 1] ELSE "old"
      OBVIOUS
    <3>2. new[j] = IF k < size /\ j = k - 1 THEN text[k] ELSE old[j]
      <4>1. DOMAIN old = 0 .. 9
        OBVIOUS
      <4> HIDE DEF old
      <4> QED BY <2>2, <4>1
    <3> HIDE DEF new, old
    <3>3. CASE j = k - 1
      BY <2>2, <3>1, <3>2, <3>3
    <3>4. CASE j # k - 1
      BY <2>2, <3>1, <3>2, <3>4
    <3> QED BY <3>3, <3>4
  <2>4. new = Memory0(k)
    <3>1. new = [j \in 0 .. 9 |-> new[j]]
      OBVIOUS
    <3> HIDE DEF new
    <3> QED BY <2>3, <3>1
  <2> HIDE DEF new
  <2> QED BY <2>1, <2>2, <2>4
<1> HIDE DEF State, start
<1>5. G(w)
  <2>1. \A k \in 0 .. len : w[k] = IF k = 0 THEN start ELSE buf_out(w[k - 1], text[k])
    <3> SUFFICES ASSUME NEW k \in 0 .. len
                 PROVE  w[k] = IF k = 0 THEN start ELSE buf_out(w[k - 1], text[k])
      OBVIOUS
    <3>1. CASE k = 0
      BY <1>2, <1>3, <3>1
    <3>2. CASE k # 0
      <4>1. k \in 1 .. len /\ k - 1 \in 0 .. len
        BY <1>2, <3>2
      <4>2. w[k] = State(k) /\ w[k - 1] = State(k - 1)
        BY <4>1
      <4> HIDE DEF w
      <4> QED BY <1>4, <3>2, <4>1, <4>2
    <3> QED BY <3>1, <3>2
  <2> QED BY <2>1
<1>6. G(sink)
  BY <1>5
<1> HIDE DEF sink
<1>7. sink[len] = State(len)
  <2> DEFINE S == {k \in 0 .. len : sink[k] = w[k]}
  <2>1. w[len] = State(len)
    BY <1>2
  <2> HIDE DEF w
  <2>2. \A k \in 0 .. len : /\ sink[k] = IF k = 0 THEN start ELSE buf_out(sink[k - 1], text[k])
                            /\ w[k] = IF k = 0 THEN start ELSE buf_out(w[k - 1], text[k])
    BY <1>5, <1>6
  <2>3. 0 \in S
    BY <1>2, <2>2
  <2>4. \A k \in 1 .. len : k - 1 \in S => k \in S
    BY <1>2, <2>2
  <2>5. \A k \in 0 .. len : k \in S
    <3> HIDE DEF S
    <3> QED BY <1>2, <2>3, <2>4, Climbs
  <2>6. len \in S
    BY <1>2, <2>5
  <2> QED BY <2>1, <2>6
<1>8. s.len = len /\ s.buf = Memory0(len)
  BY <1>7 DEF State
<1> HIDE DEF s
<1>9. DOMAIN Untouched = 0 .. 9
  BY DEF Untouched
<1>10. ASSUME NEW k \in 0 .. 9
       PROVE  buf[k] = IF k >= size \/ k > len THEN "old"
                       ELSE IF k = len \/ k = size - 1 THEN "NUL" ELSE text[k + 1]
  <2> DEFINE filled == Memory0(len)
  <2>1. filled[k] = (IF k < len /\ k + 1 < size THEN text[k + 1] ELSE "old") /\ DOMAIN filled = 0 .. 9
    OBVIOUS
  <2>2. end = IF len < size THEN len ELSE size - 1
    BY <1>8
  <2>3. buf = IF size > 0 THEN [filled EXCEPT ![end] = "NUL"] ELSE filled
    BY <1>8
  <2> HIDE DEF filled, end, buf
  <2>4. buf[k] = IF size > 0 /\ k = end THEN "NUL" ELSE filled[k]
    BY <2>1, <2>3
  <2>5. CASE size > 0 /\ k = end
    BY <1>2, <2>2, <2>4, <2>5
  <2>6. CASE ~ (size > 0 /\ k = end)
    BY <1>2, <2>1, <2>2, <2>4, <2>6
  <2> QED BY <2>5, <2>6
<1> HIDE DEF buf
<1> DEFINE r == ksprintf(Untouched, size, text)
<1>11. r.returned = len /\ r.buf = buf
  BY <1>1, <1>8
<1> HIDE DEF r
<1>12. \A k \in DOMAIN Untouched :
         r.buf[k] = IF k >= size \/ k > len THEN "old"
                    ELSE IF k = len \/ k = size - 1 THEN "NUL" ELSE text[k + 1]
  BY <1>9, <1>10, <1>11
<1> QED
  BY <1>11, <1>12, Zenon DEF len, r

-----------------------------------------------------------------------------
(* THE CALLS *)

\* What a drawing call leaves of a framebuffer that was black.
Drawn ==
  LET x == call.x  y == call.y  w == call.w  h == call.h
  IN  CASE call.f = "fb_fill_rect" -> fb_fill_rect(Black, Pitch, x, y, w, h, 1)
        [] call.f = "fb_draw_text" -> fb_draw_text(Black, Pitch, x, y, <<Dot, Dot>>, 1, 1)
        [] call.f = "fb_draw_text_transparent" ->
             fb_draw_text_transparent(Black, Pitch, x, y, <<Dot, Dot>>, 1)
        [] call.f = "fb_blit" -> fb_blit(Black, Pitch, x, y, [k \in 1 .. (w * h) |-> 1], w, h)

\* What a call of a function of lib.c returns, or leaves of the memory.
Served ==
  LET m == call.m  a == call.a  b == call.b  max == call.n
  IN  CASE call.f = "memset"  -> memset(m, a, b, max)
        [] call.f = "memcpy"  -> memcpy(m, a, b, max)
        [] call.f = "memmove" -> memmove(m, a, b, max)
        [] call.f = "memcmp"  -> memcmp(m, a, b, max)
        [] call.f = "strlen"  -> strlen(m, a)
        [] call.f = "strcmp"  -> strcmp(m, a, b)
        [] call.f = "strncmp" -> strncmp(m, a, b, max)
        [] call.f = "strcpy"  -> strcpy(m, a, b)
        [] call.f = "strncpy" -> strncpy(m, a, b, max)
        [] call.f = "strcat"  -> strcat(m, a, b)
        [] call.f = "strspn"  -> strspn(m, a, b)
        [] call.f = "strchr"  -> strchr(m, a, max)
        [] call.f = "strstr"  -> strstr(m, a, b)

\* A call of a family is one of those it may be, and what has returned is what
\* the function computes from it.
Computed ==
  /\ returned \in BOOLEAN
  /\ of = "trap" =>
       /\ call \in TrapCalls
       /\ returned => result = [frame |-> Frame(Interrupted, call.n, call.code),
                                cpu |-> Resumed(Interrupted, call.n, call.code)]
  /\ of = "stack" =>
       /\ call \in StackCalls
       /\ returned => result = elf_setup_stack(call.top, call.nlen)
  /\ of = "table" =>
       /\ call \in TableCalls
       /\ returned => result = [gdt |-> gdt_init(call.tss),
                                gate |-> idt_init(call.n, call.handler)]
  /\ of = "lib" => call \in LibCalls /\ (returned => result = Served)
  /\ of = "draw" => call \in DrawCalls /\ (returned => result = Drawn)
  /\ of = "load" =>
       call \in LoadCalls /\ (returned => result = elf_load(call.ph, call.frames))
  /\ of = "format" =>
       call \in FormatCalls /\ (returned => result = kformat(call.d, call.arg, call.s))
  /\ of = "serial" =>
       /\ call \in SerialCalls
       /\ returned => result = [hex |-> serial_hex(call), dec |-> serial_dec(call)]
  /\ of = "buffer" =>
       call \in BufferCalls /\ (returned => result = ksprintf(Untouched, call.size, call.text))
  /\ of = "run" =>
       /\ call \in RunCalls
       /\ returned => result = [image |-> Runs(call, call.cmd),
                                screen |-> parse_framebuffer(Laid(call.tags))]

LEMMA Returned == Spec => []Computed
<1>1. Init => Computed
  BY DEF Init, Computed
<1>2. Computed /\ [Next]_vars => Computed'
  <2> SUFFICES ASSUME Computed, [Next]_vars PROVE Computed'
    OBVIOUS
  <2>1. CASE trap
    BY <2>1 DEF Computed, trap, Returns
  <2>2. CASE stack
    BY <2>2 DEF Computed, stack, Returns
  <2>3. CASE table
    BY <2>3 DEF Computed, table, Returns
  <2>4. CASE lib
    <3>1. /\ of = "lib" /\ of' = of /\ call' = call /\ returned' = TRUE
          /\ result' = Served
      BY <2>4 DEF lib, Returns, Served
    <3>2. Served' = Served
      BY <3>1 DEF Served
    <3> QED BY <3>1, <3>2 DEF Computed
  <2>5. CASE format
    BY <2>5 DEF Computed, format, Returns
  <2>6. CASE serial
    BY <2>6 DEF Computed, serial, Returns
  <2>7. CASE buffer
    BY <2>7 DEF Computed, buffer, Returns
  <2>8. CASE load
    BY <2>8 DEF Computed, load, Returns
  <2>9. CASE run
    BY <2>9 DEF Computed, run, Returns
  <2>10. CASE draw
    <3>1. /\ of = "draw" /\ of' = of /\ call' = call /\ returned' = TRUE
          /\ result' = Drawn
      BY <2>10 DEF draw, Returns, Drawn
    <3>2. Drawn' = Drawn
      BY <3>1 DEF Drawn
    <3> QED BY <3>1, <3>2 DEF Computed
  <2>11. CASE UNCHANGED vars
    <3>1. UNCHANGED <<of, call, returned, result>>
      BY <2>11 DEF vars
    <3>2. Drawn' = Drawn
      BY <3>1 DEF Drawn
    <3>3. Served' = Served
      BY <3>1 DEF Served
    <3> QED BY <3>1, <3>2, <3>3 DEF Computed
  <2> QED
    BY <2>1, <2>2, <2>3, <2>4, <2>5, <2>6, <2>7, <2>8, <2>9, <2>10, <2>11 DEF Next
<1> QED
  BY <1>1, <1>2, PTL DEF Spec

\* Theorem: whatever the vector and the code, the interrupted code goes on where
\* it was with every register as it was, and isr_handler is told the vector, the
\* code and where the interrupt came from (InterruptedResumes).
THEOREM TrapsResume == Spec => []InterruptedResumes
<1>1. ASSUME Computed PROVE InterruptedResumes
  <2> SUFFICES ASSUME Of("trap") PROVE InterruptedResumes
    BY DEF InterruptedResumes
  <2> DEFINE s == Frame(Interrupted, call.n, call.code)
             cpu == Resumed(Interrupted, call.n, call.code)
  <2>1. result = [frame |-> s, cpu |-> cpu]
    BY <1>1 DEF Computed, Of
  <2>2. cpu = [regs |-> [r \in Regs |-> Interrupted.regs[r]], rip |-> Interrupted.rip,
               cs |-> Interrupted.cs, rflags |-> Interrupted.rflags,
               rsp |-> Interrupted.rsp, ss |-> Interrupted.ss]
    BY Resumes
  <2>3. cpu = Interrupted
    <3>1. [r \in Regs |-> Interrupted.regs[r]] = Interrupted.regs
      BY DEF Interrupted
    <3> HIDE DEF cpu
    <3> QED BY <2>2, <3>1 DEF Interrupted
  <2>4. /\ Len(s) = 22 /\ s[1] = "ss" /\ s[2] = "rsp" /\ s[3] = "rflags" /\ s[4] = "cs"
        /\ s[5] = "rip" /\ s[6] = (IF call.n \in WithCode THEN call.code ELSE "0")
        /\ s[7] = call.n
    <3>1. /\ Len(s) = 22
          /\ s[1] = Interrupted.ss /\ s[2] = Interrupted.rsp /\ s[3] = Interrupted.rflags
          /\ s[4] = Interrupted.cs /\ s[5] = Interrupted.rip
          /\ s[6] = (IF call.n \in WithCode THEN call.code ELSE "0") /\ s[7] = call.n
      <4> HIDE DEF s
      <4>1. \A cpu1, v, code :
              LET f == Frame(cpu1, v, code)
              IN  /\ Len(f) = 22
                  /\ f[1] = cpu1.ss /\ f[2] = cpu1.rsp /\ f[3] = cpu1.rflags /\ f[4] = cpu1.cs
                  /\ f[5] = cpu1.rip
                  /\ f[6] = (IF v \in WithCode THEN code ELSE "0") /\ f[7] = v
        BY FrameIs
      <4> QED BY <4>1 DEF s
    <3> HIDE DEF s
    <3> QED BY <3>1 DEF Interrupted
  <2> HIDE DEF s, cpu
  <2>5. /\ Field(s, "int_no") = s[7] /\ Field(s, "err_code") = s[6]
        /\ Field(s, "rip") = s[5] /\ Field(s, "cs") = s[4] /\ Field(s, "rflags") = s[3]
        /\ Field(s, "rsp") = s[2] /\ Field(s, "ss") = s[1]
    BY <2>4, FieldsLie
  <2>6. result.frame = s /\ result.cpu = cpu
    BY <2>1
  <2> QED
    BY <2>3, <2>4, <2>5, <2>6 DEF InterruptedResumes
<1> QED
  BY <1>1, Returned, PTL

\* Theorem: for every top and every length of the name, a program is entered at 8
\* modulo 16, below its arguments, with the count, the name's address and the two
\* ends behind one another and the name whole behind them (StackChained).
THEOREM StackHolds == Spec => []StackChained
<1>1. ASSUME Computed PROVE StackChained
  <2> SUFFICES ASSUME Of("stack") PROVE StackChained
    BY DEF StackChained
  <2> DEFINE top == call.top
             nlen == call.nlen
             r == elf_setup_stack(top, nlen)
             w == r.words
             str == r.str
             argc == CHOOSE p \in DOMAIN w : w[p] = 1
  <2>1. result = r /\ top \in Int /\ nlen \in Nat
    BY <1>1, CallsAssumption DEF Computed, Of
  <2> HIDE DEF top, nlen
  <2>2. /\ str \in Int /\ str % 16 = 0 /\ str + nlen <= top - 8
        /\ r.sp = str - 40
        /\ DOMAIN w = {top - 8, str - 8, str - 16, str - 24, str - 32}
        /\ w[top - 8] = 0 /\ w[str - 8] = 0 /\ w[str - 16] = 0
        /\ w[str - 24] = str /\ w[str - 32] = 1
    BY <2>1, StackIs
  <2> HIDE DEF r
  <2>3. argc = str - 32
    <3>1. str # 1
      BY <2>2
    <3>2. \A p \in DOMAIN w : w[p] = 1 <=> p = str - 32
      BY <2>1, <2>2, <3>1
    <3>3. argc \in DOMAIN w /\ w[argc] = 1
      BY <2>2, <3>2
    <3> QED BY <3>2, <3>3
  <2> HIDE DEF argc
  <2>4. r.sp % 16 = 8 /\ r.sp <= argc
    BY <2>1, <2>2, <2>3
  <2>5. \A p \in DOMAIN w : p >= argc /\ p + 8 <= top
    BY <2>1, <2>2, <2>3
  <2>6. w[argc + 8] = str /\ w[argc + 16] = 0 /\ w[argc + 24] = 0
    <3>1. argc + 8 = str - 24 /\ argc + 16 = str - 16 /\ argc + 24 = str - 8
      BY <2>2, <2>3
    <3> QED BY <2>2, <3>1
  <2>7. \A p \in DOMAIN w : p + 8 <= str \/ str + nlen <= p
    BY <2>1, <2>2, SMTT(60)
  <2> QED
    BY <2>1, <2>4, <2>5, <2>6, <2>7 DEF StackChained, argc, top, nlen
<1> QED
  BY <1>1, Returned, PTL

\* Theorem: for every address of the task state segment and of a handler, and every
\* vector, the processor reads in the tables what the kernel means (TablesRead).
THEOREM TablesHold == Spec => []TablesRead
<1>1. ASSUME Computed PROVE TablesRead
  <2> SUFFICES ASSUME Of("table") PROVE TablesRead
    BY SMTT(60) DEF TablesRead
  <2> DEFINE tss == call.tss
             h == call.handler
             v == call.n
             g == gdt_init(tss)
             pair == SlotPair(g, 40)
  <2>1. /\ result.gdt = g /\ result.gate = idt_init(v, h)
        /\ tss \in [1 .. 8 -> 0 .. 255] /\ h \in [1 .. 8 -> 0 .. 255]
    BY <1>1, CallsAssumption DEF Computed, Of
  <2> HIDE DEF tss, h, v
  <2>2. /\ IsCode(Slot(g, 8), 0) /\ IsData(Slot(g, 16), 0)
        /\ IsCode(Slot(g, 24), 3) /\ IsData(Slot(g, 32), 3)
        /\ ~Segment(Slot(g, 0)).access.present
    BY <2>1, SlotsRead
  <2>3. /\ SystemBase(pair) = tss /\ Segment(pair).limit = <<103, 0, 0>>
        /\ ~Segment(pair).pages /\ Segment(pair).access = Access(137)
    BY <2>1, TssReads, SMTT(60)
  <2>4. LET gate == Gate(idt_init(v, h))
        IN  /\ gate.offset = h /\ gate.selector = 8 /\ gate.ist = 0
            /\ gate.access.present /\ gate.access.system /\ gate.access.type = 14
            /\ gate.access.ring = IF v = 128 THEN 3 ELSE 0
    BY <2>1, GateReads
  <2> HIDE DEF g
  <2> QED
    BY <2>1, <2>2, <2>3, <2>4 DEF TablesRead, tss, h, v
<1> QED
  BY <1>1, Returned, PTL

\* Theorem: for every size of the framebuffer and every drawing call, what changes is
\* on the screen and of the rectangle, and a rectangle within range is painted whole
\* (DrawsInside).
THEOREM DrawsStay == Spec => []DrawsInside
<1>1. ASSUME Computed PROVE DrawsInside
  <2> SUFFICES ASSUME Of("draw") PROVE DrawsInside
    BY DEF DrawsInside
  <2> DEFINE f == call.f
             x == call.x
             y == call.y
             w == call.w
             h == call.h
  <2>1. /\ result = Drawn
        /\ f \in {"fb_fill_rect", "fb_draw_text", "fb_draw_text_transparent", "fb_blit"}
        /\ x \in 0 .. (U32 - 1) /\ y \in 0 .. (U32 - 1) /\ w \in Nat /\ h \in Nat
        /\ f \in {"fb_draw_text", "fb_draw_text_transparent"} => w = 2 * GlyphW /\ h = GlyphH
    BY <1>1, CallsAssumption DEF Computed, Of
  <2> HIDE DEF f, x, y, w, h
  <2>2. x \in Nat /\ y \in Nat
    BY <2>1, FramebufferAssumption
  <2>3. Drawn = CASE f = "fb_fill_rect" -> fb_fill_rect(Black, Pitch, x, y, w, h, 1)
                  [] f = "fb_draw_text" -> fb_draw_text(Black, Pitch, x, y, <<Dot, Dot>>, 1, 1)
                  [] f = "fb_draw_text_transparent" ->
                       fb_draw_text_transparent(Black, Pitch, x, y, <<Dot, Dot>>, 1)
                  [] f = "fb_blit" ->
                       fb_blit(Black, Pitch, x, y, [k \in 1 .. (w * h) |-> 1], w, h)
    BY DEF Drawn, f, x, y, w, h
  <2>4. CASE f = "fb_fill_rect"
    <3>1. result = fb_fill_rect(Black, Pitch, x, y, w, h, 1)
      BY <2>1, <2>3, <2>4
    <3>2. /\ result \in Drawings(x, y, w, h)
          /\ x + w < U32 /\ y + h < U32 => \A p : Inside(x, y, w, h, p) => result[p] = 1
      BY <2>1, <3>1, Fills
    <3> QED BY <3>2, DrawingsInside DEF f, x, y, w, h
  <2>5. CASE f \in {"fb_draw_text", "fb_draw_text_transparent"}
    <3> DEFINE glyphs == <<Dot, Dot>>
    <3>1. Len(glyphs) = 2
      OBVIOUS
    <3> HIDE DEF glyphs
    <3>2. /\ fb_draw_text(Black, Pitch, x, y, glyphs, 1, 1)
               = TextDrawn(Black, x, y, glyphs, TRUE)
          /\ fb_draw_text_transparent(Black, Pitch, x, y, glyphs, 1)
               = TextDrawn(Black, x, y, glyphs, FALSE)
      BY DEF fb_draw_text, fb_draw_text_transparent, fb_draw_char, TextDrawn
    <3>3. result \in {TextDrawn(Black, x, y, glyphs, TRUE), TextDrawn(Black, x, y, glyphs, FALSE)}
      BY <2>1, <2>3, <2>5, <3>2 DEF glyphs
    <3>4. result \in Drawings(x, y, w, h)
      BY <2>1, <2>2, <2>5, <3>1, <3>3, TextInside
    <3> QED BY <2>5, <3>4, DrawingsInside DEF f, x, y, w, h
  <2>6. CASE f = "fb_blit"
    <3> DEFINE pixels == [k \in 1 .. (w * h) |-> 1]
    <3>1. \A k \in 1 .. (w * h) : pixels[k] \in {0, 1}
      OBVIOUS
    <3>2. result = fb_blit(Black, Pitch, x, y, pixels, w, h)
      BY <2>1, <2>3, <2>6
    <3> HIDE DEF pixels
    <3>3. result \in Drawings(x, y, w, h)
      BY <2>1, <2>2, <3>1, <3>2, BlitInside
    <3> QED BY <2>6, <3>3, DrawingsInside DEF f, x, y, w, h
  <2> QED
    BY <2>1, <2>4, <2>5, <2>6
<1> QED
  BY <1>1, Returned, PTL

\* Theorem: for every memory and every call of lib.c whose strings end and whose
\* ranges are there, what is written is what is meant and nothing else, comparisons
\* order unsigned bytes, and searches find the first place (StringsAgree).
THEOREM StringsHold == Spec => []StringsAgree
<1>1. ASSUME Computed PROVE StringsAgree
  <2> SUFFICES ASSUME Of("lib") PROVE StringsAgree
    BY DEF StringsAgree
  <2> DEFINE m == call.m
             a == call.a
             b == call.b
             max == call.n
             f == call.f
  <2>1. /\ call \in LibCalls /\ result = Served
        /\ m \in Memory /\ a \in Nat \ {0} /\ b \in Nat /\ max \in Nat /\ Called(call)
    BY <1>1, CallsAssumption DEF Computed, Of, Memory, NULL
  <2>2. /\ f = "memset" \/ b \in Nat \ {0}
        /\ f \in {"memcpy", "memmove", "memcmp"} => There(m, a, max) /\ There(m, b, max)
        /\ f \in {"strlen", "strcmp", "strncmp", "strcat", "strspn", "strchr", "strstr"} =>
             Terminated(m, a)
        /\ f \in {"strcmp", "strncmp", "strcpy", "strncpy", "strcat", "strspn", "strstr"} =>
             Terminated(m, b)
        /\ f = "strchr" => max < 256
        /\ f \in {"strcpy", "strncpy"} => Apart(a, b, Size(m, b))
        /\ f = "strcat" => Apart(a + strlen(m, a), b, Size(m, b))
    BY <2>1 DEF Called, NULL
  <2>3. /\ f = "memset" => result = memset(m, a, b, max)
        /\ f = "memcpy" => result = memcpy(m, a, b, max)
        /\ f = "memmove" => result = memmove(m, a, b, max)
        /\ f = "memcmp" => result = memcmp(m, a, b, max)
        /\ f = "strlen" => result = strlen(m, a)
        /\ f = "strcmp" => result = strcmp(m, a, b)
        /\ f = "strncmp" => result = strncmp(m, a, b, max)
        /\ f = "strcpy" => result = strcpy(m, a, b)
        /\ f = "strncpy" => result = strncpy(m, a, b, max)
        /\ f = "strcat" => result = strcat(m, a, b)
        /\ f = "strspn" => result = strspn(m, a, b)
        /\ f = "strchr" => result = strchr(m, a, max)
        /\ f = "strstr" => result = strstr(m, a, b)
    BY <2>1 DEF Served
  <2> HIDE DEF m, a, b, max, f
  <2>4. f = "memset" => Changed(m, result, a, [k \in 1 .. max |-> b % 256])
    BY <2>1, <2>3, Memsets
  <2>5. f = "memmove" => Changed(m, result, a, Bytes(m, b, max))
    BY <2>1, <2>2, <2>3, Memmoves
  <2>6. f = "memcpy" /\ (a + max <= b \/ b + max <= a) => Changed(m, result, a, Bytes(m, b, max))
    BY <2>1, <2>2, <2>3, Memcopies DEF Apart
  <2>7. f = "memcmp" => Orders(result, Bytes(m, a, max), Bytes(m, b, max))
    BY <2>1, <2>2, <2>3, Memcmps
  <2>8. f = "strlen" => result = Len(Text(m, a))
    BY <2>1, <2>2, <2>3, StringIs
  <2>9. f = "strcmp" => Orders(result, Text(m, a), Text(m, b))
    BY <2>1, <2>2, <2>3, Strcmps
  <2>10. f = "strncmp" => Orders(result, Prefix(Text(m, a), max), Prefix(Text(m, b), max))
    BY <2>1, <2>2, <2>3, Strncmps
  <2>11. f = "strcpy" => Changed(m, result, a, Append(Text(m, b), 0))
    BY <2>1, <2>2, <2>3, Strcpies
  <2>12. f = "strncpy" /\ Len(Text(m, b)) < max =>
           Changed(m, result, a, Text(m, b) \o [k \in 1 .. (max - Len(Text(m, b))) |-> 0])
    BY <2>1, <2>2, <2>3, Strncpies
  <2>13. f = "strcat" => Changed(m, result, a, Text(m, a) \o Append(Text(m, b), 0))
    BY <2>1, <2>2, <2>3, Strcats
  <2>14. f = "strspn" =>
           LET Spans(k) == ToSet(Prefix(Text(m, a), k)) \subseteq ToSet(Text(m, b))
           IN  Spans(result) /\ (result < Len(Text(m, a)) => ~ Spans(result + 1))
    BY <2>1, <2>2, <2>3, Strspns, SMTT(60)
  <2>15. f = "strchr" => result = FirstOf({p \in a .. (a + Len(Text(m, a)) - 1) : m[p] = max})
    <3>1. f = "strchr" => max \in 0 .. 255
      BY <2>1, <2>2
    <3> QED BY <2>1, <2>2, <2>3, <3>1, Strchrs
  <2>16. f = "strstr" => result = FirstOf(Occurrences(m, a, b))
    BY <2>1, <2>2, <2>3, Strstrs
  <2> QED
    BY <2>4, <2>5, <2>6, <2>7, <2>8, <2>9, <2>10, <2>11, <2>12, <2>13, <2>14, <2>15, <2>16
    DEF StringsAgree, m, a, b, max, f
<1> QED
  BY <1>1, Returned, PTL

\* Theorem: whatever modules and framebuffers the boot loader has left, in whatever
\* order and padding, `run` and a name, behind any blanks, loads the first module of
\* that name if the table has room for it, and nothing otherwise; the kernel draws
\* on the first framebuffer (RunFindsModule).
THEOREM RunsFound == Spec => []RunFindsModule
<1>1. ASSUME Computed PROVE RunFindsModule
  <2> SUFFICES ASSUME Of("run") PROVE RunFindsModule
    BY DEF RunFindsModule
  <2> DEFINE tags == call.tags
             names == call.names
             cmd == call.cmd
             there == {i \in DOMAIN names : Named(tags, names[i]) # {}}
             registered == {i \in there : Cardinality({j \in there : j <= i}) <= MAX_MODULES}
  <2>1. /\ call \in RunCalls
        /\ result = [image |-> Runs(call, call.cmd), screen |-> parse_framebuffer(Laid(call.tags))]
    BY <1>1 DEF Computed, Of
  <2>2. TagsLeft(tags) /\ DOMAIN names = 1 .. Len(names) /\ Len(names) \in Nat
    <3>1. /\ names \in Seq(ToSet(names)) /\ tags \in Seq(ToSet(tags))
          /\ \A tag \in ToSet(tags) :
               /\ tag.type # END /\ tag.size \in Nat \ {0}
               /\ tag.type = MODULE_TAG => tag.size >= 16
               /\ tag.type = FRAMEBUFFER => tag.size >= 24
      BY <2>1, CallsAssumption
    <3> HIDE DEF tags, names
    <3>2. DOMAIN names = 1 .. Len(names) /\ Len(names) \in Nat
      BY <3>1, LenProperties
    <3>3. DOMAIN tags = 1 .. Len(tags) /\ Len(tags) \in Nat
      BY <3>1, LenProperties
    <3>4. \A k \in DOMAIN tags : tags[k] \in ToSet(tags)
      BY DEF ToSet
    <3> QED BY <3>1, <3>2, <3>3, <3>4 DEF TagsLeft
  <2>3. result.screen = IF Screens(tags) = {} THEN {} ELSE {tags[Min(Screens(tags))].value}
    <3>1. result.screen = parse_framebuffer(Laid(tags))
      BY <2>1
    <3> HIDE DEF tags
    <3> QED BY <2>2, <3>1, ScreenIs
  <2>4. ASSUME NEW name, AsksFor(cmd, name)
        PROVE  result.image = IF \E i \in registered : names[i] = name
                              THEN tags[Min(Named(tags, name))].value.range ELSE NoImage
    <3>1. result.image =
            IF IsRun(cmd) THEN program_run(Registered(Laid(tags), names), NameToRun(cmd))
                          ELSE NoImage
      BY <2>1 DEF Runs
    <3> HIDE DEF tags, names, cmd
    <3> QED BY <2>2, <2>4, <3>1, FoundIs
  <2> HIDE DEF there, registered
  <2> QED
    BY <2>3, <2>4 DEF RunFindsModule, Named, Screens, there, registered
<1> QED
  BY <1>1, Returned, PTL

\* Theorem: for every conversion, flag and width, and every value of a register, a
\* number reads back from what is put out for it, which is as wide as was asked for
\* and no wider than needed; and a text stays in its buffer (Formatted).
THEOREM NumbersHold == Spec => []Formatted
<1>1. ASSUME Computed PROVE NumbersReadBack
  <2>1. ASSUME Of("serial") PROVE ReadBack(result.hex, 16) = call /\ ReadBack(result.dec, 10) = call
    <3>1. call \in 0 .. (LongMod - 1) /\ result = [hex |-> serial_hex(call), dec |-> serial_dec(call)]
      BY <1>1, <2>1, CallsAssumption DEF Computed, Of
    <3> QED BY <3>1, SerialReads
  <2> DEFINE d == call.d
             one == [d EXCEPT !.width = 1]
             arg == call.arg
             alone == numeric(one, arg)
  <2>2. ASSUME Of("format"), d.spec \in Numeric
        PROVE  /\ ReadBack(result, Base(d)) = Fetched(d, arg)
               /\ ~ d.space /\ d.width > 0 =>
                    Len(result) = IF Len(alone) > d.width THEN Len(alone) ELSE d.width
    <3>1. d \in Conversions /\ arg \in Nat /\ result = kformat(d, arg, call.s)
      BY <1>1, <2>2, CallsAssumption DEF Computed, Of, Conversions
    <3>2. d.spec \in Numeric
      BY <2>2
    <3> HIDE DEF d, arg
    <3>3. result = numeric(d, arg)
      <4>1. d.spec \notin {"s", "c", "%"}
        BY <3>2 DEF Numeric
      <4>2. kformat(d, arg, call.s) = numeric(d, arg)
        BY <3>2, <4>1 DEF kformat
      <4> QED BY <3>1, <4>2
    <3>4. one \in Conversions /\ one.width = 1 /\ one.spec = d.spec /\ one.long = d.long
          /\ one.plus = d.plus /\ one.space = d.space /\ one.alt = d.alt
      BY <3>1 DEF Conversions
    <3> HIDE DEF one
    <3>5. ReadBack(result, Base(d)) = Fetched(d, arg)
      BY <3>1, <3>2, <3>3, NumericIs
    <3>6. /\ Core(d, arg) \in Nat /\ Core(d, arg) >= 1 /\ Padding(d, arg) \in Int
          /\ Len(result) = Core(d, arg) + IF Padding(d, arg) > 0 THEN Padding(d, arg) ELSE 0
      BY <3>1, <3>2, <3>3, NumericIs
    <3>7. /\ Padding(one, arg) \in Int
          /\ Len(alone) = Core(one, arg) + IF Padding(one, arg) > 0 THEN Padding(one, arg) ELSE 0
      BY <3>1, <3>2, <3>4, NumericIs
    <3>8. Fetched(one, arg) = Fetched(d, arg)
      BY <3>4 DEF Fetched
    <3>9. Base(one) = Base(d)
      BY <3>4 DEF Base
    <3>10. Digits(one, arg) = Digits(d, arg)
      BY <3>4, <3>8, <3>9 DEF Digits
    <3> DEFINE value == Fetched(d, arg)
               digits == Digits(d, arg)
    <3>11. /\ SignOf(one, value) = SignOf(d, value) /\ SignRoom(one, value) = SignRoom(d, value)
           /\ Prefix0(one, digits) = Prefix0(d, digits)
      <4> HIDE DEF value, digits
      <4>1. SignOf(one, value) = SignOf(d, value) /\ SignRoom(one, value) = SignRoom(d, value)
        BY <3>4 DEF SignOf, SignRoom
      <4>2. Prefix0(one, digits) = Prefix0(d, digits)
        BY <3>4, <3>9 DEF Prefix0
      <4> QED BY <4>1, <4>2
    <3>12. Core(one, arg) = Core(d, arg)
      BY <3>8, <3>10, <3>11 DEF Core
    <3>13. ASSUME ~ d.space, d.width > 0
           PROVE  Len(result) = IF Len(alone) > d.width THEN Len(alone) ELSE d.width
      <4>1. value \in Int
        BY <3>1, ValueIs
      <4> HIDE DEF value, digits
      <4>2. SignRoom(d, value) = Len(SignOf(d, value)) /\ SignRoom(d, value) \in Nat
        BY <3>1, <3>13, <4>1, SignIs
      <4>3. d.width \in Nat /\ d.width # 0
        BY <3>1, <3>13 DEF Conversions
      <4> DEFINE sign == Len(SignOf(d, value))
                 prefix == Len(Prefix0(d, digits))
                 l == Len(digits)
      <4>4. Core(d, arg) = sign + prefix + l
        BY DEF Core, value, digits
      <4>5. Padding(d, arg) = d.width - sign - prefix - l
        BY <4>2, <4>3 DEF Padding, value, digits
      <4>6. Padding(one, arg) = 1 - sign - prefix - l
        BY <3>4, <3>8, <3>10, <3>11, <4>2 DEF Padding, value, digits
      <4>7. sign \in Nat /\ prefix \in Nat /\ l \in Nat
        <5>1. Prefix0(d, digits) \in Seq({"0", "x", "X"})
          BY <3>1, <4>1, SignIs
        <5>2. prefix \in Nat
          BY <5>1, LenProperties
        <5>3. l \in Nat
          BY <3>1, <3>2, DigitsAre DEF digits
        <5> QED BY <4>2, <5>2, <5>3
      <4> HIDE DEF sign, prefix, l
      <4>8. Padding(d, arg) = d.width - Core(d, arg) /\ Padding(one, arg) = 1 - Core(d, arg)
        BY <4>3, <4>4, <4>5, <4>6, <4>7
      <4> DEFINE c == Core(d, arg)
                 wd == d.width
      <4>9. c \in Nat /\ c >= 1 /\ wd \in Nat
            /\ Len(result) = c + (IF wd - c > 0 THEN wd - c ELSE 0)
            /\ Len(alone) = c + (IF 1 - c > 0 THEN 1 - c ELSE 0)
        BY <3>6, <3>7, <3>12, <4>3, <4>8
      <4> HIDE DEF c, wd, alone
      <4>10. Len(alone) = c
        BY <4>9
      <4>11. Len(result) = IF c > wd THEN c ELSE wd
        BY <4>9
      <4> QED BY <4>10, <4>11 DEF wd
    <3> QED BY <3>5, <3>13
  <2> QED
    BY <2>1, <2>2 DEF NumbersReadBack
<1>2. ASSUME Computed PROVE SprintfFits
  <2> SUFFICES ASSUME Of("buffer") PROVE SprintfFits
    BY DEF SprintfFits
  <2> DEFINE text == call.text
             size == call.size
  <2>1. call \in BufferCalls /\ result = ksprintf(Untouched, size, text)
    BY <1>2 DEF Computed, Of
  <2>2. size \in Nat /\ text \in Seq(ToSet(text))
    BY <2>1, CallsAssumption
  <2> HIDE DEF text, size
  <2>3. /\ result.returned = Len(text)
        /\ \A k \in DOMAIN Untouched :
             result.buf[k] =
               IF k >= size \/ k > Len(text) THEN "old"
               ELSE IF k = Len(text) \/ k = size - 1 THEN "NUL" ELSE text[k + 1]
    BY <2>1, <2>2, SprintfIs
  <2> QED BY <2>3 DEF SprintfFits, text, size
<1>3. Computed => Formatted
  BY <1>1, <1>2 DEF Formatted
<1> QED
  BY <1>3, Returned, PTL

\* Theorem: for every table of headers, whatever fails on the way, what is loaded is
\* the image of the file where segments begin a page and share none, and the break
\* lies on a page boundary above all of it (ImageLoaded).
THEOREM ImagesLoad == Spec => []ImageLoaded
<1>1. ASSUME Computed PROVE ImageLoaded
  <2> DEFINE ph == call.ph
  <2> SUFFICES ASSUME Of("load"), result.loaded
               PROVE  /\ \A s \in Segments(ph) : ph[s].vaddr % PageSize = 0 /\ Alone(ph, s) =>
                           AsLinked(ph, s, result.page)
                      /\ result.brk % PageSize = 0
                      /\ \A s \in Segments(ph) : PagesOf(ph[s]) \subseteq DOMAIN result.page
                      /\ \A p \in DOMAIN result.page : p + PageSize <= result.brk
    BY DEF ImageLoaded, AlignedAsLinked, BreakAboveImage
  <2>1. ph \in Seq(Headers) /\ call.frames \in Nat /\ result = elf_load(ph, call.frames)
    BY <1>1, CallsAssumption DEF Computed, Of, Headers
  <2> HIDE DEF ph
  <2>2. PICK st \in Loadings :
          /\ SegmentsUpTo(st, ph, Len(ph))
          /\ result = [page |-> st.page, loaded |-> ~st.failed, brk |-> RoundUp(st.max_end)]
    BY <2>1, SegmentsLoad
  <2>3. result.page = st.page /\ result.brk = RoundUp(st.max_end) /\ ~st.failed
    <3>1. result.loaded = ~st.failed
      BY <2>2
    <3>2. st.failed \in BOOLEAN
      BY DEF Loadings
    <3> QED BY <2>2, <3>1, <3>2
  <2>4. \A s \in Segments(ph) :
          /\ PagesOf(ph[s]) \subseteq DOMAIN st.page
          /\ ph[s].vaddr % PageSize = 0 /\ Alone(ph, s) => AsLinked(ph, s, st.page)
          /\ \A p \in PagesOf(ph[s]) : p + PageSize <= RoundUp(st.max_end)
    BY <2>1, <2>2, <2>3, ImageIs
  <2>5. RoundUp(st.max_end) % PageSize = 0
    <3>1. st.max_end \in Nat
      BY DEF Loadings
    <3>2. PICK j \in Nat : RoundUp(st.max_end) = j * PageSize
      BY <3>1, AboveIt
    <3>3. PageSize \in Nat \ {0} /\ 0 \in 0 .. (PageSize - 1) /\ j * PageSize + 0 = j * PageSize
      BY ElfLoadAssumption
    <3>4. (j * PageSize + 0) % PageSize = 0
      BY <3>3, DividedOnce
    <3> QED BY <3>2, <3>3, <3>4
  <2>6. \A p \in DOMAIN st.page : p + PageSize <= RoundUp(st.max_end)
    <3>1. \A p \in DOMAIN st.page : \E s \in Segments(ph) : p \in PagesOf(ph[s])
      BY <2>2, <2>3 DEF SegmentsUpTo
    <3> QED BY <2>4, <3>1
  <2> QED
    BY <2>3, <2>4, <2>5, <2>6
<1> QED
  BY <1>1, Returned, PTL

-----------------------------------------------------------------------------
(* CAT *)

AllFiles == {BootFiles[i] : i \in DOMAIN BootFiles}

FilesTypes ==
  /\ booted \in Nat
  /\ files \in Seq(AllFiles)
  /\ fds \in [Fd -> [file : Nat, pos : Int]]
  /\ pc = "boot" => \A d \in Fd : fds[d] = Free

\* A descriptor that has been read to the end.
AtEnd(d) == fds[d] = Free \/ Remaining(d) = 0

\* The whole of file i has been printed, once.
Whole(i) ==
  printed = IF files[i].size = 0 THEN <<>>
            ELSE <<[file |-> i, from |-> 0, len |-> files[i].size]>>

\* The first read finds the file that was opened, at its beginning ...
FirstRead ==
  /\ pc = "read" /\ printed = <<>>
  /\ fd \in Fd /\ fds[fd].file # 0 /\ fds[fd].pos = 0 /\ NamesFile(Path, fds[fd].file)
  /\ \A d \in Fd \ {fd} : AtEnd(d)

\* ... and after it no descriptor, whosever it is, has anything left.
ReadOnce ==
  /\ \A d \in Fd : AtEnd(d)
  /\ pc \in {"read", "write", "close", "exit 0"} =>
       \E i \in DOMAIN files : NamesFile(Path, i) /\ Whole(i)

FilesInv ==
  /\ FilesTypes
  /\ WithinFiles
  /\ FirstRead \/ ReadOnce
  /\ pc = "open" => printed = <<>>

\* Sizes of files, which cat's buffer holds.
LEMMA FileSizes ==
  ASSUME FilesTypes, NEW i \in DOMAIN files
  PROVE  files[i].size \in Nat /\ files[i].size <= BufSize /\ i \in Nat \ {0}
<1>1. files[i] \in AllFiles
  BY ElementOfSeq, LenProperties DEF FilesTypes
<1>2. i \in Nat \ {0}
  BY LenProperties DEF FilesTypes
<1>3. \A f \in AllFiles : f.size \in 0 .. BufSize
  BY RamfsAssumption DEF AllFiles
<1> QED
  BY <1>1, <1>2, <1>3

\* Files are registered before any descriptor is in use.
LEMMA Registers ==
  ASSUME FilesInv, register
  PROVE  FilesInv'
<1>1. /\ pc = "boot" /\ pc' = pc /\ booted < Len(BootFiles) /\ booted' = booted + 1
      /\ UNCHANGED <<fds, pc, fd, n, printed>>
  BY DEF register
<1>2. BootFiles[booted + 1] \in AllFiles
  <2>1. booted + 1 \in DOMAIN BootFiles
    BY <1>1, RamfsAssumption DEF FilesInv, FilesTypes
  <2> QED
    BY <2>1 DEF AllFiles
<1>3. files' \in Seq(AllFiles)
  BY <1>2, AppendProperties DEF register, fs_register_file, FilesInv, FilesTypes
<1>4. FilesTypes'
  BY <1>1, <1>3 DEF FilesInv, FilesTypes
<1>5. \A d \in Fd : fds'[d] = Free
  BY <1>1 DEF FilesInv, FilesTypes
<1> QED
  BY <1>1, <1>4, <1>5 DEF FilesInv, WithinFiles, ReadOnce, AtEnd

\* open gives cat a descriptor of its file, or nothing.
LEMMA Opens ==
  ASSUME FilesInv, cat_open
  PROVE  FilesInv'
<1>1. PICK ret \in Fd \cup {-1} :
        /\ fs_open(Path, ret) /\ fd' = ret
        /\ pc = "open" /\ pc' = IF ret < 0 THEN "exit 1" ELSE "read"
  BY DEF cat_open, Goto
<1>2. UNCHANGED <<booted, files, n, printed>> /\ printed = <<>>
  BY <1>1 DEF cat_open, Goto, FilesInv
<1>3. \A d \in Fd : AtEnd(d)
  BY <1>1 DEF FilesInv, FirstRead, ReadOnce
<1>4. CASE UNCHANGED fds /\ ret = -1
  <2>1. pc' = "exit 1" /\ UNCHANGED <<booted, files, fds>>
    <3>1. -1 < 0
      OBVIOUS
    <3>2. ret < 0
      BY <1>4, <3>1
    <3> QED
      BY <1>1, <1>2, <1>4, <3>2
  <2>2. \A d \in Fd : AtEnd(d)'
    BY <1>3, <2>1 DEF AtEnd, Remaining
  <2> QED
    BY <2>1, <2>2 DEF FilesInv, FilesTypes, WithinFiles, Remaining, ReadOnce
<1>5. ASSUME NEW i \in DOMAIN files, NEW d \in Fd,
             NamesFile(Path, i), FirstFree(d),
             fds' = [fds EXCEPT ![d] = [file |-> i, pos |-> 0]], ret = d
      PROVE  FilesInv'
  <2>1. files[i].size \in Nat /\ i \in Nat \ {0}
    BY FileSizes DEF FilesInv
  <2>2. /\ fds' \in [Fd -> [file : Nat, pos : Int]]
        /\ fds'[d].file = i /\ fds'[d].pos = 0
        /\ \A e \in Fd \ {d} : fds'[e] = fds[e]
    BY <1>5, <2>1 DEF FilesInv, FilesTypes
  <2>3. pc' = "read" /\ fd' = d
    <3>1. d \in Nat
      BY RamfsAssumption DEF Fd
    <3>2. ~(d < 0)
      BY <3>1
    <3> QED
      BY <1>1, <1>5, <3>2
  <2>4. FilesTypes'
    BY <1>2, <2>2, <2>3 DEF FilesInv, FilesTypes
  <2>5. WithinFiles'
    <3> SUFFICES ASSUME NEW e \in Fd
                 PROVE  \/ fds'[e] = Free
                        \/ /\ fds'[e].file \in DOMAIN files
                           /\ files[fds'[e].file].size - fds'[e].pos
                                \in 0 .. files[fds'[e].file].size
      BY <1>2 DEF WithinFiles, Remaining
    <3>1. CASE e = d
      BY <2>1, <2>2, <3>1
    <3>2. CASE e # d
      BY <2>2, <3>2 DEF FilesInv, WithinFiles, Remaining
    <3> QED
      BY <3>1, <3>2
  <2>6. FirstRead'
    <3>1. \A e \in Fd \ {d} : AtEnd(e)'
      BY <1>2, <1>3, <2>2 DEF AtEnd, Remaining
    <3>2. NamesFile(Path, i)'
      BY <1>2, <1>5 DEF NamesFile
    <3> QED
      BY <1>2, <2>1, <2>2, <2>3, <3>1, <3>2 DEF FirstRead, NamesFile
  <2> QED
    BY <2>3, <2>4, <2>5, <2>6 DEF FilesInv
<1> QED
  BY <1>1, <1>4, <1>5 DEF fs_open

\* The first read takes the whole file; any later one finds nothing, whatever
\* descriptor it is made on.
LEMMA Reads ==
  ASSUME FilesInv, cat_read
  PROVE  FilesInv'
<1>1. PICK ret \in -1 .. BufSize :
        /\ fs_read(fd, BufSize, ret)
        /\ pc = "read" /\ UNCHANGED <<booted, files>>
        /\ IF ret > 0
           THEN /\ pc' = "write"
                /\ printed' = Append(printed, [file |-> fds[fd].file,
                                               from |-> fds[fd].pos, len |-> ret])
           ELSE pc' = "close" /\ UNCHANGED printed
  BY DEF cat_read, Goto
<1>2. CASE ~Open(fd)
  <2>1. ret = -1 /\ UNCHANGED fds
    BY <1>1, <1>2 DEF fs_read
  <2>2. ReadOnce
    BY <1>2 DEF FilesInv, FirstRead, Open
  <2>3. UNCHANGED <<printed, files>> /\ pc' = "close"
    BY <1>1, <2>1
  <2>4. ReadOnce'
    BY <1>1, <2>1, <2>2, <2>3 DEF ReadOnce, AtEnd, Remaining, NamesFile, Whole
  <2> QED
    BY <1>1, <2>1, <2>3, <2>4 DEF FilesInv, FilesTypes, WithinFiles, Remaining
<1>3. CASE Open(fd)
  <2>0. PICK i \in Nat, r \in Int : i = fds[fd].file /\ r = files[i].size - fds[fd].pos
    <3>1. fds[fd].file \in DOMAIN files /\ fds[fd].file \in Nat /\ fds[fd].pos \in Int
      BY <1>3 DEF Open, FilesInv, FilesTypes, WithinFiles, Free
    <3>2. files[fds[fd].file].size \in Nat
      BY <3>1, FileSizes DEF FilesInv
    <3> QED
      BY <3>1, <3>2
  <2>1. /\ fd \in Fd /\ i # 0 /\ i \in DOMAIN files /\ fds[fd].pos \in Int
        /\ r \in 0 .. files[i].size
    BY <1>3, <2>0 DEF Open, FilesInv, FilesTypes, WithinFiles, Remaining, Free
  <2>2. files[i].size \in Nat /\ files[i].size <= BufSize /\ BufSize \in Int
    BY <2>1, FileSizes, RamfsAssumption DEF FilesInv
  <2>3. Chunk(fd, BufSize) = r
    BY <2>0, <2>1, <2>2 DEF Chunk, Remaining
  <2>4. ret = r /\ fds' = [fds EXCEPT ![fd].pos = @ + r]
    BY <1>1, <1>3, <2>3 DEF fs_read
  <2>5. /\ fds' \in [Fd -> [file : Nat, pos : Int]]
        /\ fds'[fd].file = i /\ fds'[fd].pos = files[i].size
        /\ \A d \in Fd \ {fd} : fds'[d] = fds[d]
    BY <2>0, <2>1, <2>2, <2>4, SMTT(60) DEF FilesInv, FilesTypes
  <2>6. FilesTypes'
    BY <1>1, <2>5 DEF FilesInv, FilesTypes
  <2>7. WithinFiles'
    <3> SUFFICES ASSUME NEW e \in Fd
                 PROVE  \/ fds'[e] = Free
                        \/ /\ fds'[e].file \in DOMAIN files
                           /\ files[fds'[e].file].size - fds'[e].pos
                                \in 0 .. files[fds'[e].file].size
      BY <1>1 DEF WithinFiles, Remaining
    <3>1. CASE e = fd
      BY <2>1, <2>2, <2>5, <3>1
    <3>2. CASE e # fd
      BY <2>5, <3>2 DEF FilesInv, WithinFiles, Remaining
    <3> QED
      BY <3>1, <3>2
  <2>8. \A d \in Fd : AtEnd(d)'
    <3> SUFFICES ASSUME NEW d \in Fd
                 PROVE  fds'[d] = Free \/ files[fds'[d].file].size - fds'[d].pos = 0
      BY <1>1 DEF AtEnd, Remaining
    <3>1. CASE d = fd
      BY <2>2, <2>5, <3>1
    <3>2. CASE d # fd
      <4>1. AtEnd(d)
        BY <2>1, <3>2 DEF FilesInv, FirstRead, ReadOnce
      <4> QED
        BY <2>5, <3>2, <4>1 DEF AtEnd, Remaining
    <3> QED
      BY <3>1, <3>2
  <2>9. \E k \in DOMAIN files : NamesFile(Path, k) /\ Whole(k)'
    <3>1. CASE FirstRead
      <4>1. r = files[i].size /\ printed = <<>> /\ NamesFile(Path, i)
        BY <2>0, <2>1, <2>2, <3>1 DEF FirstRead
      <4>2. Whole(i)'
        BY <1>1, <2>0, <2>1, <2>2, <2>4, <3>1, <4>1 DEF Whole, FirstRead
      <4> QED
        BY <2>1, <4>1, <4>2
    <3>2. CASE ReadOnce
      <4>1. r = 0
        <5>1. AtEnd(fd) /\ fds[fd].file # 0
          BY <2>0, <2>1, <3>2 DEF ReadOnce
        <5>2. fds[fd] # Free
          BY <5>1 DEF Free
        <5> QED
          BY <2>0, <5>1, <5>2 DEF AtEnd, Remaining
      <4> QED
        BY <1>1, <2>4, <3>2, <4>1 DEF ReadOnce, Whole
    <3> QED
      BY <3>1, <3>2 DEF FilesInv
  <2>10. ReadOnce'
    BY <1>1, <2>8, <2>9 DEF ReadOnce, NamesFile, Whole
  <2> QED
    BY <1>1, <2>6, <2>7, <2>10 DEF FilesInv
<1> QED
  BY <1>2, <1>3

\* A descriptor that is closed, be it another than cat's, has nothing left either.
LEMMA Closes ==
  ASSUME FilesInv, cat_close
  PROVE  FilesInv'
<1>1. /\ pc = "close" /\ pc' = "exit 0" /\ UNCHANGED <<booted, files, n, printed>>
      /\ fds' = IF fd \in Fd THEN [fds EXCEPT ![fd] = Free] ELSE fds
  BY DEF cat_close, Goto, fs_close
<1>2. /\ fds' \in [Fd -> [file : Nat, pos : Int]]
      /\ \A d \in Fd : fds'[d] = fds[d] \/ fds'[d] = Free
  <2>1. Free \in [file : Nat, pos : Int]
    BY DEF Free
  <2> QED
    BY <1>1, <2>1 DEF FilesInv, FilesTypes
<1>3. ReadOnce
  BY <1>1 DEF FilesInv, FirstRead
<1>4. FilesTypes' /\ WithinFiles'
  BY <1>1, <1>2 DEF FilesInv, FilesTypes, WithinFiles, Remaining
<1>5. ReadOnce'
  BY <1>1, <1>2, <1>3 DEF ReadOnce, AtEnd, Remaining, Whole, NamesFile
<1> QED
  BY <1>1, <1>4, <1>5 DEF FilesInv

LEMMA FilesStep ==
  ASSUME FilesInv, [FsNext]_fsVars
  PROVE  FilesInv'
<1> USE DEF FilesInv
<1>1. CASE boot_complete
  BY <1>1 DEF boot_complete, FilesTypes, WithinFiles, Remaining, FirstRead, ReadOnce, AtEnd
<1>2. CASE run_cat
  BY <1>2 DEF run_cat, Goto, FilesTypes, WithinFiles, Remaining, FirstRead, ReadOnce, AtEnd
<1>3. CASE cat_write
  BY <1>3 DEF cat_write, Goto, FilesTypes, WithinFiles, Remaining, FirstRead, ReadOnce, AtEnd,
              Whole, NamesFile
<1>4. CASE cat_exit
  BY <1>4 DEF cat_exit, Goto, FilesTypes, WithinFiles, Remaining, FirstRead, ReadOnce, AtEnd
<1>5. CASE UNCHANGED fsVars
  BY <1>5 DEF fsVars, FilesTypes, WithinFiles, Remaining, FirstRead, ReadOnce, AtEnd,
              Whole, NamesFile
<1> QED
  BY <1>1, <1>2, <1>3, <1>4, <1>5, Registers, Opens, Reads, Closes DEF FsNext, Cat

\* A cat that ends well has printed its file, whole and once.
THEOREM CatPrints == FsSpec => []CatPrintsFile
<1>1. FsInit => FilesInv
  BY RamfsAssumption
  DEF FsInit, FilesInv, FilesTypes, WithinFiles, ReadOnce, AtEnd, Free, AllFiles
<1>2. FilesInv /\ [FsNext]_fsVars => FilesInv'
  BY FilesStep
<1>3. FilesInv => CatPrintsFile
  BY DEF FilesInv, CatPrintsFile, FirstRead, ReadOnce, Whole
<1> QED
  BY <1>1, <1>2, <1>3, PTL DEF FsSpec
=============================================================================
