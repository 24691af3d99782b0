--------------------------------- MODULE Lib --------------------------------
(***************************************************************************)
(* The string and memory functions of src/src/lib.c.  A memory m is a      *)
(* function from addresses to bytes, 0 .. 255; addresses are positive, and *)
(* NULL is 0.  A loop that counts up until a test fails is the least k for *)
(* which it fails.                                                         *)
(***************************************************************************)
EXTENDS Integers, SequencesExt, FiniteSetsExt

NULL == 0

\* The offsets k from which address s + k is in memory.
Offsets(m, s) == {k \in 0 .. Cardinality(DOMAIN m) : s + k \in DOMAIN m}

-----------------------------------------------------------------------------
(* Copies *)

\* *(d + k) = *(s + k) for each k of the sequence ks in turn.
CopyEach(m, d, s, ks) ==
  LET copied[i \in 0 .. Len(ks)] ==
        IF i = 0 THEN m
        ELSE [copied[i - 1] EXCEPT ![d + ks[i]] = copied[i - 1][s + ks[i]]]
  IN  copied[Len(ks)]

Upwards(n) == [k \in 1 .. n |-> k - 1]
Downwards(n) == [k \in 1 .. n |-> n - k]

memset(m, d, c, n) == [a \in DOMAIN m |-> IF a \in d .. (d + n - 1) THEN c % 256 ELSE m[a]]

memcpy(m, d, s, n) == CopyEach(m, d, s, Upwards(n))

\* Mutant of memmove.
memmove_Swapped(m, d, s, n) ==
  CopyEach(m, d, s, IF d > s THEN Upwards(n) ELSE Downwards(n))

memmove(m, d, s, n) ==
  CopyEach(m, d, s, IF d < s THEN Upwards(n) ELSE Downwards(n))

strlen(m, s) == Min({k \in Offsets(m, s) : m[s + k] = 0})

strcpy(m, d, s) == memcpy(m, d, s, strlen(m, s) + 1)

\* A source that is as long as n leaves the count at its largest value, and the
\* padding goes on through all that follows.
strncpy(m, d, s, n) ==
  IF strlen(m, s) < n
  THEN memset(strcpy(m, d, s), d + strlen(m, s) + 1, 0, n - strlen(m, s) - 1)
  ELSE [a \in DOMAIN m |-> IF a >= d + n THEN 0 ELSE memcpy(m, d, s, n)[a]]

strcat(m, d, s) == strcpy(m, d + strlen(m, d), s)

-----------------------------------------------------------------------------
(* Comparisons and searches *)

memcmp(m, a, b, n) ==
  LET k == Min({i \in 0 .. n : i = n \/ m[a + i] # m[b + i]})
  IN  IF k = n THEN 0 ELSE m[a + k] - m[b + k]

strcmp(m, a, b) ==
  LET k == Min({i \in Offsets(m, a) \cap Offsets(m, b) : m[a + i] = 0 \/ m[a + i] # m[b + i]})
  IN  m[a + k] - m[b + k]

strncmp(m, a, b, n) ==
  LET k == Min({i \in 0 .. n : i = n \/ m[a + i] = 0 \/ m[a + i] # m[b + i]})
  IN  IF k = n THEN 0 ELSE m[a + k] - m[b + k]

\* The bytes of the string at s.
Text(m, s) == [k \in 1 .. strlen(m, s) |-> m[s + k - 1]]

strspn(m, s, accept) ==
  Min({k \in Offsets(m, s) : m[s + k] = 0 \/ m[s + k] \notin ToSet(Text(m, accept))})

strchr(m, s, c) ==
  LET k == Min({i \in Offsets(m, s) : m[s + i] = 0 \/ m[s + i] = c % 256})
  IN  IF m[s + k] = 0 THEN NULL ELSE s + k

\* The place in the needle at which a match from h on ends.
Matched(m, h, needle) ==
  Min({i \in Offsets(m, h) \cap Offsets(m, needle) :
         m[h + i] = 0 \/ m[needle + i] = 0 \/ m[h + i] # m[needle + i]})

strstr(m, hay, needle) ==
  LET found == {h \in hay .. (hay + strlen(m, hay) - 1) :
                  m[needle + Matched(m, h, needle)] = 0}
  IN  IF m[needle] = 0 THEN hay ELSE IF found = {} THEN NULL ELSE Min(found)

-----------------------------------------------------------------------------
(* What a caller owes *)

Terminated(m, p) == \E k \in DOMAIN m : p <= k /\ m[k] = 0

\* n bytes are in memory from p on, and, for Apart, none of them from q on too.
There(m, p, n) == p .. (p + n - 1) \subseteq DOMAIN m
Apart(p, q, n) == p + n <= q \/ q + n <= p

\* The length of a string and its NUL.
Size(m, s) == strlen(m, s) + 1

\* A call c, [f, m, a, b, n], with strings that end, room for what is written, and
\* a character that is one.
Called(c) ==
  LET m == c.m  a == c.a  b == c.b  n == c.n  f == c.f
  IN  /\ f = "memset" \/ b # NULL
      /\ f \in {"memcpy", "memmove", "memcmp"} => There(m, a, n) /\ There(m, b, n)
      /\ f \in {"strlen", "strcmp", "strncmp", "strcat", "strspn", "strchr", "strstr"} =>
           Terminated(m, a)
      /\ f \in {"strcmp", "strncmp", "strcpy", "strncpy", "strcat", "strspn", "strstr"} =>
           Terminated(m, b)
      /\ f = "strchr" => n < 256
      /\ f = "strcpy" => There(m, a, Size(m, b)) /\ Apart(a, b, Size(m, b))
      /\ f = "strncpy" => There(m, a, n) /\ Apart(a, b, Size(m, b))
      /\ f = "strcat" => LET end == a + strlen(m, a)
                         IN  There(m, end, Size(m, b)) /\ Apart(end, b, Size(m, b))

-----------------------------------------------------------------------------
(* What each is to return, in terms of sequences of bytes *)

\* s comes before t in the order of unsigned bytes, a prefix first.
Before(s, t) ==
  \/ IsStrictPrefix(s, t)
  \/ \E k \in DOMAIN s \cap DOMAIN t : s[k] < t[k] /\ \A i \in 1 .. (k - 1) : s[i] = t[i]

\* r orders s and t.
Orders(r, s, t) == (r = 0 <=> s = t) /\ (r < 0 <=> Before(s, t))

Bytes(m, a, n) == [k \in 1 .. n |-> m[a + k - 1]]
Prefix(s, n) == SubSeq(s, 1, IF Len(s) < n THEN Len(s) ELSE n)

\* new is m but for the bytes at d, which are those of s.
Changed(m, new, d, s) ==
  /\ DOMAIN new = DOMAIN m
  /\ \A a \in DOMAIN m : new[a] = IF a - d + 1 \in DOMAIN s THEN s[a - d + 1] ELSE m[a]

\* Where the needle occurs in the string at hay.
Occurrences(m, hay, needle) ==
  {h \in hay .. (hay + strlen(m, hay)) :
     IsPrefix(Text(m, needle), Text(m, h))}

FirstOf(places) == IF places = {} THEN NULL ELSE Min(places)
=============================================================================
