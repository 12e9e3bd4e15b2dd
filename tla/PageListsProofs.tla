-------------------------- MODULE PageListsProofs --------------------------
(***************************************************************************)
(* What the operators on lists of pages come to, for pages in order that   *)
(* share no address: bisection finds the page of an address, the walks     *)
(* find whether a range is mapped and allowed, and a list that a call      *)
(* leaves is such a list again.                                            *)
(*                                                                         *)
(* A list is compared with what it shows: at which address which cell.     *)
(* Bisection and the joining of lists are recursive functions; what is     *)
(* proved of them goes by the least number for which it could be wrong.    *)
(***************************************************************************)
EXTENDS PageLists, WellFoundedInduction, TLAPS

Below(p, q) == End(p) <= q.addr
Apart(s) == \A i, j \in DOMAIN s : i < j => Below(s[i], s[j])

-----------------------------------------------------------------------------
(* Numbers.                                                                *)

LEMMA LeastIs ==
  ASSUME NEW S, S \subseteq Nat, S # {}
  PROVE  \E m \in S : \A n \in S : m <= n
<1>1. PICK m \in S : \A n \in S : ~ (<<n, m>> \in OpToRel(<, Nat))
  BY NatLessThanWellFounded, WFMin, Zenon
<1>2. \A n \in S : ~ (n < m)
  BY <1>1, Zenon DEF OpToRel
<1> QED
  BY <1>2

LEMMA GreatestIs ==
  ASSUME NEW S, S \subseteq Nat, S # {}, NEW b \in Nat, \A n \in S : n <= b
  PROVE  \E m \in S : \A n \in S : n <= m
<1> DEFINE T == {b - n : n \in S}
<1>1. T \subseteq Nat /\ T # {}
  <2>1. \A n \in S : b - n \in Nat
    OBVIOUS
  <2> QED
    BY <2>1
<1>2. PICK d \in T : \A e \in T : d <= e
  BY <1>1, LeastIs
<1>3. PICK m \in S : d = b - m
  BY <1>2
<1>4. ASSUME NEW n \in S
      PROVE  n <= m
  <2>1. d <= b - n
    BY <1>2
  <2> QED
    BY <2>1, <1>3
<1> QED
  BY <1>4

-----------------------------------------------------------------------------
(* Pages.                                                                  *)

LEMMA PageHas ==
  ASSUME NEW p \in Page
  PROVE  /\ p.addr \in Nat /\ p.size \in Nat /\ p.size > 0 /\ End(p) \in Nat /\ p.addr < End(p)
         /\ End(p) = p.addr + p.size /\ p.prot \in Prots
         /\ p.data \in Seq(Byte) /\ Len(p.data) = p.size
  BY DEF Page, End

\* A page has a byte for each of its addresses.
LEMMA PageByte ==
  ASSUME NEW p \in Page, NEW x \in Nat, Holds(p, x)
  PROVE  x - p.addr + 1 \in 1..Len(p.data) /\ p.data[x - p.addr + 1] \in Byte
  BY PageHas DEF Holds

LEMMA OneHolds ==
  ASSUME NEW s \in Seq(Page), Apart(s), NEW x \in Nat,
         NEW i \in DOMAIN s, NEW j \in DOMAIN s, Holds(s[i], x), Holds(s[j], x)
  PROVE  i = j
<1>1. s[i] \in Page /\ s[j] \in Page /\ i \in Nat /\ j \in Nat
  OBVIOUS
<1>2. ~ (i < j) /\ ~ (j < i)
  BY <1>1, PageHas DEF Apart, Below, Holds
<1> QED
  BY <1>1, <1>2

-----------------------------------------------------------------------------
(* Bisection.                                                              *)

\* What a step of the search makes of a function that is right for smaller windows.
HalvingOf(s, x, f, l, r) ==
  IF l > r THEN 0
  ELSE IF x < s[(l + r) \div 2].addr THEN f[<<l, (l + r) \div 2 - 1>>]
  ELSE IF x < End(s[(l + r) \div 2]) THEN (l + r) \div 2
  ELSE f[<<(l + r) \div 2 + 1, r>>]
Windows(s) == (1..(Len(s) + 1)) \X (0..Len(s))
Halving(s, x, f) == [w \in Windows(s) |-> HalvingOf(s, x, f, w[1], w[2])]
IsSearch(s, x, f) == f = Halving(s, x, f)

Holder(s, x) == CHOOSE k \in DOMAIN s : Holds(s[k], x)
Between(s, x, l, r) == IF \E k \in l..r : Holds(s[k], x) THEN Holder(s, x) ELSE 0

LEMMA MidIsWithin ==
  ASSUME NEW n \in Nat, NEW l \in 1..(n + 1), NEW r \in 0..n, l <= r
  PROVE  /\ (l + r) \div 2 \in 1..n /\ l <= (l + r) \div 2 /\ (l + r) \div 2 <= r
         /\ (l + r) \div 2 - 1 \in 0..n /\ (l + r) \div 2 + 1 \in 1..(n + 1)
  OBVIOUS

\* The page in the middle says in which half the page that holds the address is.
LEMMA HalfHolds ==
  ASSUME NEW s \in Seq(Page), Apart(s), NEW x \in Nat,
         NEW l \in 1..(Len(s) + 1), NEW r \in 0..Len(s), l <= r,
         NEW mid \in 1..Len(s), l <= mid, mid <= r
  PROVE  Between(s, x, l, r) =
           IF x < s[mid].addr THEN Between(s, x, l, mid - 1)
           ELSE IF x < End(s[mid]) THEN mid
           ELSE Between(s, x, mid + 1, r)
<1>1. DOMAIN s = 1..Len(s) /\ Len(s) \in Nat /\ s[mid] \in Page
  OBVIOUS
<1>2. ASSUME NEW k \in l..r, Holds(s[k], x)
      PROVE  IF x < s[mid].addr THEN k <= mid - 1 ELSE IF x < End(s[mid]) THEN k = mid ELSE mid + 1 <= k
  <2>1. k \in DOMAIN s /\ s[k] \in Page /\ mid \in DOMAIN s
    BY <1>1
  <2>2. k < mid => End(s[k]) <= s[mid].addr
    BY <2>1 DEF Apart, Below
  <2>3. mid < k => End(s[mid]) <= s[k].addr
    BY <2>1 DEF Apart, Below
  <2>4. /\ s[k].addr \in Nat /\ s[mid].addr \in Nat /\ End(s[k]) \in Nat /\ End(s[mid]) \in Nat
        /\ s[k].addr < End(s[k]) /\ s[mid].addr < End(s[mid])
    BY <1>1, <2>1, PageHas
  <2>5. s[k].addr <= x /\ x < End(s[k])
    BY <1>2 DEF Holds
  <2>6. k \in Int /\ mid \in Int
    OBVIOUS
  <2> QED
    BY ONLY <2>2, <2>3, <2>4, <2>5, <2>6, x \in Nat
<1>3. CASE x < s[mid].addr
  <2>1. (\E k \in l..r : Holds(s[k], x)) <=> (\E k \in l..(mid - 1) : Holds(s[k], x))
    BY <1>2, <1>3
  <2> QED
    BY <1>3, <2>1 DEF Between
<1>4. CASE ~(x < s[mid].addr) /\ x < End(s[mid])
  <2>1. Holds(s[mid], x) /\ mid \in l..r /\ mid \in DOMAIN s
    BY <1>1, <1>4, PageHas DEF Holds
  <2>2. Holder(s, x) \in DOMAIN s /\ Holds(s[Holder(s, x)], x)
    BY <2>1 DEF Holder
  <2>3. Holder(s, x) = mid
    BY <2>1, <2>2, OneHolds
  <2> QED
    BY <1>4, <2>1, <2>3 DEF Between
<1>5. CASE ~(x < s[mid].addr) /\ ~(x < End(s[mid]))
  <2>1. (\E k \in l..r : Holds(s[k], x)) <=> (\E k \in (mid + 1)..r : Holds(s[k], x))
    BY <1>2, <1>5
  <2> QED
    BY <1>5, <2>1 DEF Between
<1> QED
  BY <1>3, <1>4, <1>5

LEMMA BetweenHalves ==
  ASSUME NEW s \in Seq(Page), Apart(s), NEW x \in Nat
  PROVE  \E f : IsSearch(s, x, f)
<1> DEFINE f == [w \in Windows(s) |-> Between(s, x, w[1], w[2])]
           step(w) == HalvingOf(s, x, f, w[1], w[2])
<1>1. ASSUME NEW w \in Windows(s)
      PROVE  f[w] = step(w)
  <2> DEFINE mid == (w[1] + w[2]) \div 2
  <2>1. w[1] \in 1..(Len(s) + 1) /\ w[2] \in 0..Len(s) /\ Len(s) \in Nat
    BY DEF Windows
  <2>2. CASE w[1] > w[2]
    BY <2>1, <2>2 DEF Between, HalvingOf
  <2>3. CASE w[1] <= w[2]
    <3>1. /\ mid \in 1..Len(s) /\ w[1] <= mid /\ mid <= w[2]
          /\ mid - 1 \in 0..Len(s) /\ mid + 1 \in 1..(Len(s) + 1)
      BY <2>1, <2>3, MidIsWithin
    <3>2. Between(s, x, w[1], w[2]) =
            IF x < s[mid].addr THEN Between(s, x, w[1], mid - 1)
            ELSE IF x < End(s[mid]) THEN mid ELSE Between(s, x, mid + 1, w[2])
      BY <2>1, <2>3, <3>1, HalfHolds
    <3>3. <<w[1], mid - 1>> \in Windows(s) /\ <<mid + 1, w[2]>> \in Windows(s)
      BY <2>1, <3>1 DEF Windows
    <3>4. /\ f[<<w[1], mid - 1>>] = Between(s, x, w[1], mid - 1)
          /\ f[<<mid + 1, w[2]>>] = Between(s, x, mid + 1, w[2])
      BY <3>3
    <3>5. f[w] = Between(s, x, w[1], w[2])
      OBVIOUS
    <3>6. ~(w[1] > w[2])
      BY <2>1, <2>3
    <3> HIDE DEF f, mid
    <3> QED
      BY <3>2, <3>4, <3>5, <3>6 DEF mid, HalvingOf
  <2> QED
    BY <2>1, <2>2, <2>3
<1>2. f = [w \in Windows(s) |-> f[w]]
  OBVIOUS
<1>3. [w \in Windows(s) |-> f[w]] = [w \in Windows(s) |-> step(w)]
  <2> HIDE DEF f, step
  <2> QED
    BY <1>1
<1>4. Halving(s, x, f) = [w \in Windows(s) |-> step(w)]
  BY Zenon DEF Halving
<1> QED
  BY <1>2, <1>3, <1>4, Zenon DEF IsSearch

LEMMA HalvingAt ==
  ASSUME NEW s, Len(s) \in Nat, NEW x, NEW f, IsSearch(s, x, f)
  PROVE  \A a \in 1..(Len(s) + 1), b \in 0..Len(s) :
           f[<<a, b>>] = HalvingOf(s, x, f, a, b)
  BY DEF Halving, IsSearch, Windows

LEMMA OneHalving ==
  ASSUME NEW s \in Seq(Page), Apart(s), NEW x \in Nat, NEW f, IsSearch(s, x, f),
         NEW l \in 1..(Len(s) + 1), NEW r \in 0..Len(s)
  PROVE  f[<<l, r>>] = Between(s, x, l, r)
<1> DEFINE Wrong == {n \in Nat : \E a \in 1..(Len(s) + 1), b \in 0..Len(s) :
                       a <= b /\ n = b - a /\ f[<<a, b>>] # Between(s, x, a, b)}
<1>1. \A a \in 1..(Len(s) + 1), b \in 0..Len(s) :
        f[<<a, b>>] = HalvingOf(s, x, f, a, b)
  <2>1. Len(s) \in Nat
    OBVIOUS
  <2> QED
    BY <2>1, HalvingAt
<1>2. ASSUME NEW a \in 1..(Len(s) + 1), NEW b \in 0..Len(s), a > b
      PROVE  f[<<a, b>>] = Between(s, x, a, b)
  <2>1. f[<<a, b>>] = 0
    BY <1>1, <1>2 DEF HalvingOf
  <2>2. a \in Int /\ b \in Int
    OBVIOUS
  <2>3. a..b = {}
    BY <1>2, <2>2
  <2> QED
    BY <2>1, <2>3 DEF Between
<1>3. ASSUME Wrong # {}
      PROVE  FALSE
  <2>1. PICK n \in Wrong : \A m \in Wrong : n <= m
    BY <1>3, LeastIs
  <2>2. PICK a \in 1..(Len(s) + 1), b \in 0..Len(s) :
               a <= b /\ n = b - a /\ f[<<a, b>>] # Between(s, x, a, b)
    BY <2>1
  <2> DEFINE mid == (a + b) \div 2
  <2>3. /\ mid \in 1..Len(s) /\ a <= mid /\ mid <= b
        /\ mid - 1 \in 0..Len(s) /\ mid + 1 \in 1..(Len(s) + 1)
    BY <2>2, MidIsWithin
  <2>4. ASSUME NEW c \in 1..(Len(s) + 1), NEW d \in 0..Len(s), d - c < n
        PROVE  f[<<c, d>>] = Between(s, x, c, d)
    <3>1. CASE c > d
      BY <1>2, <3>1
    <3>2. CASE c <= d
      <4>1. d - c \in Nat /\ n \in Nat
        BY <3>2, <2>1
      <4>2. d - c \notin Wrong
        <5> HIDE DEF Wrong
        <5> QED
          BY <4>1, <2>1, <2>4
      <4>3. c <= d /\ d - c = d - c /\ f[<<c, d>>] # Between(s, x, c, d) => d - c \in Wrong
        BY <4>1
      <4> QED
        BY <4>2, <4>3, <3>2
    <3> QED
      BY <3>1, <3>2
  <2>5. f[<<a, mid - 1>>] = Between(s, x, a, mid - 1) /\ f[<<mid + 1, b>>] = Between(s, x, mid + 1, b)
    BY <2>2, <2>3, <2>4
  <2>6. Between(s, x, a, b) =
          IF x < s[mid].addr THEN Between(s, x, a, mid - 1)
          ELSE IF x < End(s[mid]) THEN mid ELSE Between(s, x, mid + 1, b)
    BY <2>2, <2>3, HalfHolds
  <2>7. ~(a > b)
    BY <2>2
  <2> QED
    BY <1>1, <2>2, <2>5, <2>6, <2>7 DEF HalvingOf
<1> QED
  <2>1. CASE l > r
    BY <1>2, <2>1
  <2>2. CASE l <= r
    <3>1. r - l \in Nat
      BY <2>2
    <3>2. f[<<l, r>>] # Between(s, x, l, r) => r - l \in Wrong
      BY <2>2, <3>1
    <3> QED
      BY <1>3, <3>2
  <2> QED
    BY <2>1, <2>2

\* Bisection finds the page that holds the address, if there is one.
LEMMA BisectionFinds ==
  ASSUME NEW s \in Seq(Page), Apart(s), NEW x \in Nat
  PROVE  /\ BSearch(s, x) \in 0..Len(s)
         /\ BSearch(s, x) # 0 => Holds(s[BSearch(s, x)], x)
         /\ BSearch(s, x) = 0 => \A k \in DOMAIN s : ~Holds(s[k], x)
<1> DEFINE g == CHOOSE f : f = Halving(s, x, f)
<1>1. \E f : f = Halving(s, x, f)
  BY BetweenHalves, Zenon DEF IsSearch
<1>2. g = Halving(s, x, g)
  BY <1>1, Zenon
<1>3. BSearch(s, x) = g[<<1, Len(s)>>]
  BY Zenon DEF BSearch, Halving, HalvingOf, Windows
<1> HIDE DEF g
<1>4. Len(s) \in Nat /\ DOMAIN s = 1..Len(s)
  OBVIOUS
<1>5. 1 \in 1..(Len(s) + 1) /\ Len(s) \in 0..Len(s)
  BY <1>4
<1>6. g[<<1, Len(s)>>] = Between(s, x, 1, Len(s))
  BY <1>2, <1>5, OneHalving, Zenon DEF IsSearch
<1>7. BSearch(s, x) = Between(s, x, 1, Len(s))
  BY <1>3, <1>6
<1>8. CASE \E k \in 1..Len(s) : Holds(s[k], x)
  <2>1. Holder(s, x) \in DOMAIN s /\ Holds(s[Holder(s, x)], x)
    BY <1>4, <1>8 DEF Holder
  <2> QED
    BY <1>4, <1>7, <1>8, <2>1 DEF Between
<1>9. CASE ~ \E k \in 1..Len(s) : Holds(s[k], x)
  BY <1>4, <1>7, <1>9 DEF Between
<1> QED
  BY <1>8, <1>9

-----------------------------------------------------------------------------
(* Lists of lists put end to end.                                          *)

\* f[i] is the first i lists of ss, one behind the other, for i up to n.
Joins(ss, n, f) ==
  /\ DOMAIN f = 1..n
  /\ \A i \in 1..n : f[i] = IF i = 1 THEN ss[i] ELSE f[i - 1] \o ss[i]

LEMMA JoinsExist ==
  ASSUME NEW ss, Len(ss) \in Nat
  PROVE  \E f : Joins(ss, Len(ss), f)
<1> DEFINE Wrong == {n \in 0..Len(ss) : ~ \E f : Joins(ss, n, f)}
<1>1. ASSUME Wrong # {}
      PROVE  FALSE
  <2>1. Wrong \subseteq Nat
    OBVIOUS
  <2>2. PICK n \in Wrong : \A m \in Wrong : n <= m
    BY <1>1, <2>1, LeastIs
  <2>3. n \in 0..Len(ss) /\ ~ \E f : Joins(ss, n, f)
    BY <2>2
  <2>4. Joins(ss, 0, <<>>)
    BY DEF Joins
  <2>5. n # 0
    BY <2>3, <2>4
  <2>6. n - 1 \in 0..Len(ss) /\ n - 1 \notin Wrong
    <3>1. n - 1 \in 0..Len(ss) /\ ~(n <= n - 1)
      BY <2>3, <2>5
    <3> HIDE DEF Wrong
    <3> QED
      BY <2>2, <3>1
  <2>7. PICK f : Joins(ss, n - 1, f)
    BY <2>6
  <2> DEFINE g == [i \in 1..n |-> IF i = n THEN IF n = 1 THEN ss[n] ELSE f[n - 1] \o ss[n] ELSE f[i]]
  <2>8. Joins(ss, n, g)
    <3>1. DOMAIN g = 1..n
      OBVIOUS
    <3>2. ASSUME NEW i \in 1..n
          PROVE  g[i] = IF i = 1 THEN ss[i] ELSE g[i - 1] \o ss[i]
      <4>1. CASE i = n
        BY <2>3, <2>5, <4>1
      <4>2. CASE i # n
        <5>1. i \in 1..(n - 1) /\ (i # 1 => i - 1 \in 1..n /\ i - 1 # n)
          BY <2>3, <4>2
        <5>2. f[i] = IF i = 1 THEN ss[i] ELSE f[i - 1] \o ss[i]
          BY <2>7, <5>1 DEF Joins
        <5> QED
          BY <4>2, <5>1, <5>2
      <4> QED
        BY <4>1, <4>2
    <3> HIDE DEF g
    <3> QED
      BY <3>1, <3>2 DEF Joins
  <2> QED
    BY <2>3, <2>8
<1>2. Len(ss) \in 0..Len(ss)
  OBVIOUS
<1> QED
  BY <1>1, <1>2

LEMMA FlattenJoins ==
  ASSUME NEW ss, Len(ss) \in Nat, Len(ss) # 0
  PROVE  \E f : Joins(ss, Len(ss), f) /\ FlattenSeq(ss) = f[Len(ss)]
<1> DEFINE step(f, i) == IF i = 1 THEN ss[i] ELSE f[i - 1] \o ss[i]
           g == CHOOSE f : f = [i \in 1..Len(ss) |-> step(f, i)]
<1>1. \E f : f = [i \in 1..Len(ss) |-> step(f, i)]
  <2>1. PICK f : Joins(ss, Len(ss), f)
    BY JoinsExist
  <2> DEFINE h == [i \in 1..Len(ss) |-> f[i]]
  <2>2. \A i \in 1..Len(ss) : h[i] = f[i] /\ (i # 1 => h[i - 1] = f[i - 1])
    OBVIOUS
  <2>3. \A i \in 1..Len(ss) : f[i] = step(h, i)
    <3> HIDE DEF h
    <3> QED
      BY <2>1, <2>2 DEF Joins
  <2>4. h = [i \in 1..Len(ss) |-> step(h, i)]
    <3> HIDE DEF step
    <3>1. [i \in 1..Len(ss) |-> f[i]] = [i \in 1..Len(ss) |-> step(h, i)]
      <4> HIDE DEF h
      <4> QED
        BY <2>3
    <3> QED
      BY <3>1, Zenon
  <2> QED
    BY <2>4, Zenon
<1>2. g = [i \in 1..Len(ss) |-> step(g, i)]
  BY <1>1, Zenon
<1>3. FlattenSeq(ss) = g[Len(ss)]
  BY Zenon DEF FlattenSeq
<1> HIDE DEF g, step
<1>4. DOMAIN g = 1..Len(ss)
  BY <1>2
<1>5. \A i \in 1..Len(ss) : g[i] = step(g, i)
  BY <1>2
<1>6. Joins(ss, Len(ss), g)
  BY <1>4, <1>5 DEF Joins, step
<1> QED
  BY <1>3, <1>6

LEMMA RangeOfJoin ==
  ASSUME NEW S, NEW s \in Seq(S), NEW t \in Seq(S)
  PROVE  s \o t \in Seq(S) /\ Range(s \o t) = Range(s) \cup Range(t)
<1>1. s \o t \in Seq(S) /\ DOMAIN (s \o t) = 1..(Len(s) + Len(t)) /\ Len(s) \in Nat /\ Len(t) \in Nat
  OBVIOUS
<1>2. DOMAIN s = 1..Len(s) /\ DOMAIN t = 1..Len(t)
  OBVIOUS
<1>3. \A i \in 1..Len(s) : i \in DOMAIN (s \o t) /\ (s \o t)[i] = s[i]
  OBVIOUS
<1>4. \A i \in 1..Len(t) : Len(s) + i \in DOMAIN (s \o t) /\ (s \o t)[Len(s) + i] = t[i]
  OBVIOUS
<1>5. ASSUME NEW i \in DOMAIN (s \o t)
      PROVE  (s \o t)[i] \in Range(s) \cup Range(t)
  <2>1. CASE i <= Len(s)
    BY <1>1, <1>2, <1>3, <2>1 DEF Range
  <2>2. CASE ~(i <= Len(s))
    <3>1. i - Len(s) \in 1..Len(t) /\ Len(s) + (i - Len(s)) = i
      BY <1>1, <2>2
    <3> QED
      BY <1>2, <1>4, <3>1 DEF Range
  <2> QED
    BY <2>1, <2>2
<1>6. Range(s) \subseteq Range(s \o t)
  BY <1>2, <1>3 DEF Range
<1>7. Range(t) \subseteq Range(s \o t)
  BY <1>2, <1>4 DEF Range
<1>8. Range(s \o t) \subseteq Range(s) \cup Range(t)
  BY <1>5 DEF Range
<1> QED
  BY <1>1, <1>6, <1>7, <1>8

LEMMA JoinApart ==
  ASSUME NEW s \in Seq(Page), NEW t \in Seq(Page), Apart(s), Apart(t),
         \A p \in Range(s), q \in Range(t) : Below(p, q)
  PROVE  Apart(s \o t)
<1> SUFFICES ASSUME NEW i \in DOMAIN (s \o t), NEW j \in DOMAIN (s \o t), i < j
             PROVE  Below((s \o t)[i], (s \o t)[j])
  BY DEF Apart
<1>1. DOMAIN (s \o t) = 1..(Len(s) + Len(t)) /\ DOMAIN s = 1..Len(s) /\ DOMAIN t = 1..Len(t)
      /\ Len(s) \in Nat /\ Len(t) \in Nat /\ i \in Nat /\ j \in Nat
  OBVIOUS
<1>2. \A k \in DOMAIN (s \o t) : (s \o t)[k] = IF k <= Len(s) THEN s[k] ELSE t[k - Len(s)]
  OBVIOUS
<1>3. CASE j <= Len(s)
  BY <1>1, <1>2, <1>3 DEF Apart
<1>4. CASE ~(i <= Len(s))
  <2>1. i - Len(s) \in DOMAIN t /\ j - Len(s) \in DOMAIN t /\ i - Len(s) < j - Len(s) /\ ~(j <= Len(s))
    BY <1>1, <1>4
  <2> QED
    BY <1>2, <1>4, <2>1 DEF Apart
<1>5. CASE i <= Len(s) /\ ~(j <= Len(s))
  <2>1. i \in DOMAIN s /\ j - Len(s) \in DOMAIN t
    BY <1>1, <1>5
  <2>2. s[i] \in Range(s) /\ t[j - Len(s)] \in Range(t)
    BY <2>1 DEF Range
  <2> QED
    BY <1>2, <1>5, <2>2
<1> QED
  BY <1>3, <1>4, <1>5

\* Lists of pages, each behind the one before, make one sorted list of all their pages.
LEMMA FlattenPages ==
  ASSUME NEW ss \in Seq(Seq(Page)),
         \A i \in DOMAIN ss : Apart(ss[i]),
         \A i, j \in DOMAIN ss : i < j => \A p \in Range(ss[i]), q \in Range(ss[j]) : Below(p, q)
  PROVE  /\ FlattenSeq(ss) \in Seq(Page)
         /\ Apart(FlattenSeq(ss))
         /\ Range(FlattenSeq(ss)) = UNION {Range(ss[i]) : i \in DOMAIN ss}
<1>1. Len(ss) \in Nat /\ DOMAIN ss = 1..Len(ss) /\ \A i \in DOMAIN ss : ss[i] \in Seq(Page)
  OBVIOUS
<1>2. CASE Len(ss) = 0
  <2>1. FlattenSeq(ss) = <<>>
    <3>1. ss = <<>>
      BY <1>2
    <3>2. FlattenSeq(ss) = ss
      BY <1>2 DEF FlattenSeq
    <3> QED
      BY <3>1, <3>2
  <2>2. DOMAIN ss = {}
    BY <1>1, <1>2
  <2> QED
    BY <2>1, <2>2 DEF Apart, Range
<1>3. CASE Len(ss) # 0
  <2>1. PICK f : Joins(ss, Len(ss), f) /\ FlattenSeq(ss) = f[Len(ss)]
    BY <1>1, <1>3, FlattenJoins
  <2> DEFINE Gathers(n) == \A p : p \in Range(f[n]) <=> \E i \in 1..n : p \in Range(ss[i])
             Good(n) == f[n] \in Seq(Page) /\ Apart(f[n]) /\ Gathers(n)
             Wrong == {n \in 1..Len(ss) : ~Good(n)}
  <2>2. Good(1)
    <3>1. f[1] = ss[1] /\ 1 \in DOMAIN ss
      BY <1>1, <1>3, <2>1 DEF Joins
    <3>2. \A i : i \in 1..1 <=> i = 1
      OBVIOUS
    <3> QED
      BY <1>1, <3>1, <3>2
  <2>3. ASSUME NEW n \in 2..Len(ss), Good(n - 1)
        PROVE  Good(n)
    <3>1. f[n] = f[n - 1] \o ss[n] /\ n \in DOMAIN ss /\ ss[n] \in Seq(Page) /\ Apart(ss[n]) /\ n \in Nat
      <4>1. n \in 1..Len(ss) /\ n # 1 /\ n \in Nat
        BY <1>1
      <4>2. f[n] = f[n - 1] \o ss[n]
        BY <2>1, <4>1 DEF Joins
      <4> QED
        BY <1>1, <4>1, <4>2
    <3>2. Gathers(n - 1) /\ f[n - 1] \in Seq(Page) /\ Apart(f[n - 1])
      BY <2>3
    <3>3. ASSUME NEW p \in Range(f[n - 1]), NEW q \in Range(ss[n])
          PROVE  Below(p, q)
      <4>1. PICK i \in 1..(n - 1) : p \in Range(ss[i])
        BY <3>2
      <4>2. i \in DOMAIN ss /\ i < n
        BY <1>1
      <4> QED
        BY <3>1, <4>1, <4>2
    <3>4. f[n] \in Seq(Page) /\ Apart(f[n])
      BY <3>1, <3>2, <3>3, JoinApart, RangeOfJoin
    <3>5. Range(f[n]) = Range(f[n - 1]) \cup Range(ss[n])
      BY <3>1, <3>2, RangeOfJoin
    <3>6. \A i : i \in 1..n <=> i \in 1..(n - 1) \/ i = n
      OBVIOUS
    <3>7. Gathers(n)
      BY <3>2, <3>5, <3>6
    <3> QED
      BY <3>4, <3>7
  <2>4. ASSUME Wrong # {}
        PROVE  FALSE
    <3>1. Wrong \subseteq Nat
      OBVIOUS
    <3>2. PICK n \in Wrong : \A m \in Wrong : n <= m
      BY <2>4, <3>1, LeastIs
    <3>3. n \in 1..Len(ss) /\ ~Good(n)
      BY <3>2
    <3> HIDE DEF Good
    <3>4. n \in 2..Len(ss) /\ n - 1 \in 1..Len(ss) /\ ~(n <= n - 1)
      BY <2>2, <3>3
    <3>5. Good(n - 1)
      BY <3>2, <3>4
    <3> QED
      BY <2>3, <3>3, <3>4, <3>5
  <2>5. Good(Len(ss))
    <3> HIDE DEF Good
    <3> QED
      BY <1>1, <1>3, <2>4
  <2>6. Gathers(Len(ss))
    BY <2>5
  <2>7. Range(f[Len(ss)]) = UNION {Range(ss[i]) : i \in DOMAIN ss}
    BY <1>1, <2>6
  <2> QED
    BY <2>1, <2>5, <2>7
<1> QED
  BY <1>2, <1>3

-----------------------------------------------------------------------------
(* Cutting pages.                                                          *)

Spans == {r \in Nat \X Nat : r[1] <= r[2]}

\* A part of a page shows what the page shows there.
LEMMA SliceHas ==
  ASSUME NEW p \in Page, NEW a \in Nat, NEW e \in Nat, p.addr <= a, a < e, e <= End(p)
  PROVE  /\ Slice(p, a, e) \in Page
         /\ Slice(p, a, e).addr = a /\ End(Slice(p, a, e)) = e
         /\ \A x \in Nat : Holds(Slice(p, a, e), x) => /\ Holds(p, x)
                                                       /\ CellOf(Slice(p, a, e), x) = CellOf(p, x)
<1> DEFINE i == a - p.addr + 1
           j == e - p.addr
           d == SubSeq(p.data, i, j)
<1>1. p.addr \in Nat /\ p.data \in Seq(Byte) /\ Len(p.data) = p.size /\ End(p) = p.addr + p.size /\ p.size \in Nat
  BY PageHas
<1>2. i \in 1..Len(p.data) /\ j \in 1..Len(p.data) /\ i <= j /\ i \in Nat /\ j \in Nat
  BY <1>1
<1>3. d \in Seq(Byte) /\ Len(d) = j - i + 1 /\ \A k \in 1..(j - i + 1) : d[k] = p.data[i + k - 1]
  <2> HIDE DEF i, j
  <2> QED
    BY <1>1, <1>2
<1>4. j - i + 1 = e - a
  BY <1>1
<1>5. /\ Slice(p, a, e) = [p EXCEPT !.addr = a, !.size = e - a, !.data = d]
      /\ p \in [addr : Nat, size : Nat \ {0}, prot : Prots, data : Seq(Byte)]
  BY DEF Slice, Page
<1> HIDE DEF d
<1>6. /\ Slice(p, a, e).addr = a /\ Slice(p, a, e).size = e - a /\ Slice(p, a, e).data = d
      /\ Slice(p, a, e).prot = p.prot
      /\ Slice(p, a, e) \in [addr : Nat, size : Nat \ {0}, prot : Prots, data : Seq(Byte)]
  <2>1. e - a \in Nat \ {0}
    OBVIOUS
  <2> QED
    BY <1>3, <1>5, <2>1
<1>7. Slice(p, a, e) \in Page
  BY <1>3, <1>4, <1>6 DEF Page
<1>8. End(Slice(p, a, e)) = e
  BY <1>6 DEF End
<1>9. ASSUME NEW x \in Nat, Holds(Slice(p, a, e), x)
      PROVE  Holds(p, x) /\ CellOf(Slice(p, a, e), x) = CellOf(p, x)
  <2>1. a <= x /\ x < e
    BY <1>6, <1>8, <1>9 DEF Holds
  <2>2. x - a + 1 \in 1..(j - i + 1) /\ i + (x - a + 1) - 1 = x - p.addr + 1
    <3> DEFINE b == p.addr
    <3>1. b \in Nat /\ a \in Nat /\ e \in Nat /\ x \in Nat /\ j - i + 1 = e - a /\ i = a - b + 1
      BY <1>1, <1>4
    <3> HIDE DEF b, i, j
    <3>2. x - a + 1 \in 1..(e - a) /\ i + (x - a + 1) - 1 = x - b + 1
      BY <2>1, <3>1
    <3> QED
      BY <3>1, <3>2 DEF b
  <2>3. d[x - a + 1] = p.data[x - p.addr + 1]
    <3> HIDE DEF i, j
    <3> QED
      BY <1>3, <2>2
  <2> QED
    BY <1>1, <1>6, <2>1, <2>3 DEF Holds, CellOf
<1> QED
  BY <1>6, <1>7, <1>8, <1>9

LEMMA ShortLists ==
  /\ <<>> \in Seq(Page) /\ Apart(<<>>) /\ Range(<<>>) = {}
  /\ \A p \in Page : <<p>> \in Seq(Page) /\ Apart(<<p>>) /\ Range(<<p>>) = {p}
<1>1. DOMAIN <<>> = {}
  OBVIOUS
<1>2. <<>> \in Seq(Page) /\ Apart(<<>>) /\ Range(<<>>) = {}
  BY <1>1 DEF Apart, Range
<1>3. ASSUME NEW p \in Page
      PROVE  <<p>> \in Seq(Page) /\ Apart(<<p>>) /\ Range(<<p>>) = {p}
  <2>1. DOMAIN <<p>> = {1} /\ <<p>>[1] = p
    OBVIOUS
  <2> QED
    BY <2>1 DEF Apart, Range
<1> QED
  BY <1>2, <1>3

\* Where a page and a range overlap.
LEMMA OverlapIs ==
  ASSUME NEW p \in Page, NEW r \in Spans
  PROVE  LET a == From(p, r[1])
             e == Until(p, r[2])
         IN  /\ a \in Nat /\ e \in Nat
             /\ Overlaps(p, r[1], r[2]) => p.addr <= a /\ a < e /\ e <= End(p)
             /\ Overlaps(p, r[1], r[2]) =>
                  \A x \in Nat : Holds(p, x) => (x \in Bytes(r[1], r[2]) <=> a <= x /\ x < e)
             /\ ~Overlaps(p, r[1], r[2]) => \A x \in Nat : Holds(p, x) => x \notin Bytes(r[1], r[2])
<1>1. r[1] \in Nat /\ r[2] \in Nat /\ r[1] <= r[2]
  BY DEF Spans
<1>2. p.addr \in Nat /\ End(p) \in Nat /\ p.addr < End(p)
  BY PageHas
<1> QED
  BY <1>1, <1>2 DEF From, Until, Overlaps, Holds, Bytes

\* What is left of a page around a range, and whatever is put inside the range, is
\* sorted and stays within the page.
LEMMA CutHas ==
  ASSUME NEW p \in Page, NEW r \in Spans, Overlaps(p, r[1], r[2]),
         NEW mids \in Seq(Page), Apart(mids),
         \A m \in Range(mids) : From(p, r[1]) <= m.addr /\ End(m) <= Until(p, r[2])
  PROVE  LET a == From(p, r[1])
             e == Until(p, r[2])
         IN  /\ Cut(p, r, mids) \in Seq(Page)
             /\ Apart(Cut(p, r, mids))
             /\ \A q \in Range(Cut(p, r, mids)) : q \in Page /\ p.addr <= q.addr /\ End(q) <= End(p)
             /\ \A q : q \in Range(Cut(p, r, mids)) <=>
                  \/ q \in Range(mids)
                  \/ p.addr < a /\ q = Slice(p, p.addr, a)
                  \/ e < End(p) /\ q = Slice(p, e, End(p))
<1> DEFINE a == From(p, r[1])
           e == Until(p, r[2])
           left == SplitLeft(p, a)
           right == SplitRight(p, e)
<1>1. a \in Nat /\ e \in Nat /\ p.addr <= a /\ a < e /\ e <= End(p)
  BY OverlapIs
<1>2. p.addr \in Nat /\ End(p) \in Nat /\ p.addr < End(p)
  BY PageHas
<1>3. Cut(p, r, mids) = (left \o mids) \o right
  BY DEF Cut
<1>m. \A m \in Range(mids) : a <= m.addr /\ End(m) <= e
  OBVIOUS
<1> HIDE DEF a, e
<1>4. /\ left \in Seq(Page) /\ Apart(left)
      /\ \A q : q \in Range(left) <=> p.addr < a /\ q = Slice(p, p.addr, a)
  <2>1. CASE p.addr < a
    <3>1. left = <<Slice(p, p.addr, a)>>
      BY <1>1, <1>2, <2>1 DEF SplitLeft
    <3>2. Slice(p, p.addr, a) \in Page
      BY <1>1, <1>2, <2>1, SliceHas
    <3> QED
      BY <2>1, <3>1, <3>2, ShortLists
  <2>2. CASE ~(p.addr < a)
    <3>1. left = <<>>
      BY <1>1, <1>2, <2>2 DEF SplitLeft
    <3> QED
      BY <2>2, <3>1, ShortLists
  <2> QED
    BY <2>1, <2>2
<1>5. /\ right \in Seq(Page) /\ Apart(right)
      /\ \A q : q \in Range(right) <=> e < End(p) /\ q = Slice(p, e, End(p))
  <2>1. CASE e < End(p)
    <3>1. right = <<Slice(p, e, End(p))>>
      BY <2>1 DEF SplitRight
    <3>2. Slice(p, e, End(p)) \in Page
      BY <1>1, <1>2, <2>1, SliceHas
    <3> QED
      BY <2>1, <3>1, <3>2, ShortLists
  <2>2. CASE ~(e < End(p))
    <3>1. right = <<>>
      BY <2>2 DEF SplitRight
    <3> QED
      BY <2>2, <3>1, ShortLists
  <2> QED
    BY <2>1, <2>2
<1> HIDE DEF left, right
<1>6. \A q \in Range(left) : q \in Page /\ q.addr = p.addr /\ End(q) = a
  BY <1>1, <1>2, <1>4, SliceHas
<1>7. \A q \in Range(right) : q \in Page /\ q.addr = e /\ End(q) = End(p)
  BY <1>1, <1>2, <1>5, SliceHas
<1>8. \A q \in Range(mids) : q \in Page /\ q.addr \in Nat /\ End(q) \in Nat
  <2>1. \A q \in Range(mids) : q \in Page
    BY DEF Range
  <2> QED
    BY <2>1, PageHas
<1>9. left \o mids \in Seq(Page) /\ Apart(left \o mids) /\ Range(left \o mids) = Range(left) \cup Range(mids)
  <2>1. \A q \in Range(left), m \in Range(mids) : Below(q, m)
    BY <1>6, <1>m DEF Below
  <2> QED
    BY <1>4, <2>1, JoinApart, RangeOfJoin
<1>10. /\ (left \o mids) \o right \in Seq(Page) /\ Apart((left \o mids) \o right)
       /\ Range((left \o mids) \o right) = Range(left) \cup Range(mids) \cup Range(right)
  <2>1. \A q \in Range(left \o mids), m \in Range(right) : Below(q, m)
    BY <1>1, <1>6, <1>7, <1>8, <1>9, <1>m DEF Below
  <2>2. Apart((left \o mids) \o right)
    BY <1>5, <1>9, <2>1, JoinApart
  <2>3. /\ (left \o mids) \o right \in Seq(Page)
        /\ Range((left \o mids) \o right) = Range(left \o mids) \cup Range(right)
    <3> DEFINE both == left \o mids
    <3>1. both \in Seq(Page) /\ right \in Seq(Page)
      BY <1>5, <1>9
    <3> HIDE DEF both
    <3>2. both \o right \in Seq(Page) /\ Range(both \o right) = Range(both) \cup Range(right)
      BY <3>1, RangeOfJoin
    <3> QED
      BY <3>2, Zenon DEF both
  <2> QED
    BY <1>9, <2>2, <2>3
<1>11. \A q \in Range(Cut(p, r, mids)) : q \in Page /\ p.addr <= q.addr /\ End(q) <= End(p)
  BY <1>1, <1>2, <1>3, <1>6, <1>7, <1>8, <1>10, <1>m
<1>12. \A q : q \in Range(Cut(p, r, mids)) <=>
         \/ q \in Range(mids)
         \/ p.addr < a /\ q = Slice(p, p.addr, a)
         \/ e < End(p) /\ q = Slice(p, e, End(p))
  BY <1>3, <1>4, <1>5, <1>10
<1> QED
  BY <1>3, <1>10, <1>11, <1>12 DEF a, e

\* Unmap leaves the page's cells outside the range, and no other.
LEMMA CutUnmaps ==
  ASSUME NEW p \in Page, NEW r \in Spans
  PROVE  LET c == Cut(p, r, <<>>)
         IN  /\ c \in Seq(Page) /\ Apart(c)
             /\ \A q \in Range(c) : q \in Page /\ p.addr <= q.addr /\ End(q) <= End(p)
             /\ \A q \in Range(c), x \in Nat :
                  Holds(q, x) => Holds(p, x) /\ x \notin Bytes(r[1], r[2]) /\ CellOf(q, x) = CellOf(p, x)
             /\ \A x \in Nat :
                  Holds(p, x) /\ x \notin Bytes(r[1], r[2]) => \E q \in Range(c) : Holds(q, x)
<1> DEFINE c == Cut(p, r, <<>>)
           a == From(p, r[1])
           e == Until(p, r[2])
<1>1. p.addr \in Nat /\ End(p) \in Nat /\ p.addr < End(p)
  BY PageHas
<1>2. CASE Overlaps(p, r[1], r[2])
  <2>1. a \in Nat /\ e \in Nat /\ p.addr <= a /\ a < e /\ e <= End(p)
    BY <1>2, OverlapIs
  <2>2. \A x \in Nat : Holds(p, x) => (x \in Bytes(r[1], r[2]) <=> a <= x /\ x < e)
    BY <1>2, OverlapIs
  <2>3. /\ c \in Seq(Page) /\ Apart(c)
        /\ \A q \in Range(c) : q \in Page /\ p.addr <= q.addr /\ End(q) <= End(p)
        /\ \A q : q \in Range(c) <=>
             \/ p.addr < a /\ q = Slice(p, p.addr, a)
             \/ e < End(p) /\ q = Slice(p, e, End(p))
    BY <1>2, ShortLists, CutHas
  <2> HIDE DEF a, e, c
  <2>4. p.addr < a =>
          /\ Slice(p, p.addr, a).addr = p.addr /\ End(Slice(p, p.addr, a)) = a
          /\ \A x \in Nat : Holds(Slice(p, p.addr, a), x) =>
               Holds(p, x) /\ CellOf(Slice(p, p.addr, a), x) = CellOf(p, x)
    BY <1>1, <2>1, SliceHas
  <2>5. e < End(p) =>
          /\ Slice(p, e, End(p)).addr = e /\ End(Slice(p, e, End(p))) = End(p)
          /\ \A x \in Nat : Holds(Slice(p, e, End(p)), x) =>
               Holds(p, x) /\ CellOf(Slice(p, e, End(p)), x) = CellOf(p, x)
    BY <1>1, <2>1, SliceHas
  <2>6. ASSUME NEW q \in Range(c), NEW x \in Nat, Holds(q, x)
        PROVE  Holds(p, x) /\ x \notin Bytes(r[1], r[2]) /\ CellOf(q, x) = CellOf(p, x)
    <3>1. CASE p.addr < a /\ q = Slice(p, p.addr, a)
      <4>1. x < a
        BY <2>4, <2>6, <3>1 DEF Holds
      <4> QED
        BY <2>1, <2>2, <2>4, <2>6, <3>1, <4>1
    <3>2. CASE e < End(p) /\ q = Slice(p, e, End(p))
      <4>1. e <= x
        BY <2>5, <2>6, <3>2 DEF Holds
      <4> QED
        BY <2>1, <2>2, <2>5, <2>6, <3>2, <4>1
    <3> QED
      BY <2>3, <3>1, <3>2
  <2>7. ASSUME NEW x \in Nat, Holds(p, x), x \notin Bytes(r[1], r[2])
        PROVE  \E q \in Range(c) : Holds(q, x)
    <3>1. CASE x < a
      <4>1. p.addr < a /\ Holds(Slice(p, p.addr, a), x)
        BY <1>1, <2>1, <2>4, <2>7, <3>1 DEF Holds
      <4> QED
        BY <2>3, <4>1
    <3>2. CASE e <= x
      <4>1. e < End(p) /\ Holds(Slice(p, e, End(p)), x)
        BY <1>1, <2>1, <2>5, <2>7, <3>2 DEF Holds
      <4> QED
        BY <2>3, <4>1
    <3>3. x < a \/ e <= x
      BY <2>1, <2>2, <2>7
    <3> QED
      BY <3>1, <3>2, <3>3
  <2> QED
    BY <2>3, <2>6, <2>7 DEF c
<1>3. CASE ~Overlaps(p, r[1], r[2])
  <2>1. c = <<p>>
    BY <1>3 DEF Cut
  <2>2. \A x \in Nat : Holds(p, x) => x \notin Bytes(r[1], r[2])
    BY <1>3, OverlapIs
  <2>3. c \in Seq(Page) /\ Apart(c) /\ \A q : q \in Range(c) <=> q = p
    BY <2>1, ShortLists
  <2>4. \A q \in Range(c) : q \in Page /\ p.addr <= q.addr /\ End(q) <= End(p)
    BY <1>1, <2>3
  <2> HIDE DEF c
  <2> QED
    BY <2>2, <2>3, <2>4 DEF c
<1> QED
  BY <1>2, <1>3

\* Prot leaves the page's cells, those in the range with another protection.
Reprotected(c, x, r, prot) == IF x \in Bytes(r[1], r[2]) THEN [c EXCEPT !.prot = prot] ELSE c
Recut(p, r, prot) ==
  IF Overlaps(p, r[1], r[2]) THEN Cut(p, r, <<Middle(p, r, prot)>>) ELSE <<p>>

LEMMA CutProtects ==
  ASSUME NEW p \in Page, NEW r \in Spans, NEW prot \in Prots
  PROVE  LET c == Recut(p, r, prot)
         IN  /\ c \in Seq(Page) /\ Apart(c)
             /\ \A q \in Range(c) : q \in Page /\ p.addr <= q.addr /\ End(q) <= End(p)
             /\ \A q \in Range(c), x \in Nat :
                  Holds(q, x) => Holds(p, x) /\ CellOf(q, x) = Reprotected(CellOf(p, x), x, r, prot)
             /\ \A x \in Nat : Holds(p, x) => \E q \in Range(c) : Holds(q, x)
<1> DEFINE c == Recut(p, r, prot)
           a == From(p, r[1])
           e == Until(p, r[2])
           m == Middle(p, r, prot)
<1>1. p.addr \in Nat /\ End(p) \in Nat /\ p.addr < End(p)
  BY PageHas
<1>2. CASE Overlaps(p, r[1], r[2])
  <2>1. a \in Nat /\ e \in Nat /\ p.addr <= a /\ a < e /\ e <= End(p)
    BY <1>2, OverlapIs
  <2>2. \A x \in Nat : Holds(p, x) => (x \in Bytes(r[1], r[2]) <=> a <= x /\ x < e)
    BY <1>2, OverlapIs
  <2> DEFINE s == Slice(p, a, e)
  <2>3. /\ s \in Page /\ s.addr = a /\ End(s) = e
        /\ \A x \in Nat : Holds(s, x) => Holds(p, x) /\ CellOf(s, x) = CellOf(p, x)
    BY <2>1, SliceHas
  <2>m. m = [s EXCEPT !.prot = prot]
    BY DEF Middle
  <2>c. c = Cut(p, r, <<m>>)
    BY <1>2 DEF Recut
  <2>n. \A x \in Nat : Reprotected(CellOf(p, x), x, r, prot) =
          IF x \in Bytes(r[1], r[2]) THEN [CellOf(p, x) EXCEPT !.prot = prot] ELSE CellOf(p, x)
    BY DEF Reprotected
  <2> HIDE DEF m, s
  <2>4. /\ m \in Page /\ m.addr = a /\ End(m) = e
        /\ \A x \in Nat : Holds(m, x) => Holds(p, x) /\ CellOf(m, x) = [CellOf(p, x) EXCEPT !.prot = prot]
    <3>1. /\ m \in Page /\ m.addr = s.addr /\ m.size = s.size /\ m.data = s.data /\ m.prot = prot
      BY <2>3, <2>m DEF Page
    <3>2. End(m) = End(s)
      BY <3>1 DEF End
    <3>3. ASSUME NEW x \in Nat, Holds(m, x)
          PROVE  Holds(p, x) /\ CellOf(m, x) = [CellOf(p, x) EXCEPT !.prot = prot]
      <4>1. Holds(s, x)
        BY <3>1, <3>2, <3>3 DEF Holds
      <4>2. CellOf(m, x) = [CellOf(s, x) EXCEPT !.prot = prot]
        BY <3>1 DEF CellOf
      <4> QED
        BY <2>3, <4>1, <4>2
    <3> QED
      BY <2>3, <3>1, <3>2, <3>3
  <2>5. /\ c \in Seq(Page) /\ Apart(c)
        /\ \A q \in Range(c) : q \in Page /\ p.addr <= q.addr /\ End(q) <= End(p)
        /\ \A q : q \in Range(c) <=>
             \/ q = m
             \/ p.addr < a /\ q = Slice(p, p.addr, a)
             \/ e < End(p) /\ q = Slice(p, e, End(p))
    <3> DEFINE mids == <<m>>
    <3>1. mids \in Seq(Page) /\ Apart(mids) /\ Range(mids) = {m}
      BY <2>4, ShortLists
    <3> HIDE DEF mids
    <3>2. \A q \in Range(mids) : From(p, r[1]) <= q.addr /\ End(q) <= Until(p, r[2])
      BY <2>1, <2>4, <3>1
    <3>3. /\ Cut(p, r, mids) \in Seq(Page) /\ Apart(Cut(p, r, mids))
          /\ \A q \in Range(Cut(p, r, mids)) : q \in Page /\ p.addr <= q.addr /\ End(q) <= End(p)
          /\ \A q : q \in Range(Cut(p, r, mids)) <=>
               \/ q \in Range(mids)
               \/ p.addr < a /\ q = Slice(p, p.addr, a)
               \/ e < End(p) /\ q = Slice(p, e, End(p))
      BY <1>2, <3>1, <3>2, CutHas
    <3>4. c = Cut(p, r, mids)
      BY <2>c DEF mids
    <3> HIDE DEF c, a, e
    <3> QED
      BY <3>1, <3>3, <3>4
  <2> HIDE DEF a, e, c
  <2>6. p.addr < a =>
          /\ Slice(p, p.addr, a).addr = p.addr /\ End(Slice(p, p.addr, a)) = a
          /\ \A x \in Nat : Holds(Slice(p, p.addr, a), x) =>
               Holds(p, x) /\ CellOf(Slice(p, p.addr, a), x) = CellOf(p, x)
    BY <1>1, <2>1, SliceHas
  <2>7. e < End(p) =>
          /\ Slice(p, e, End(p)).addr = e /\ End(Slice(p, e, End(p))) = End(p)
          /\ \A x \in Nat : Holds(Slice(p, e, End(p)), x) =>
               Holds(p, x) /\ CellOf(Slice(p, e, End(p)), x) = CellOf(p, x)
    BY <1>1, <2>1, SliceHas
  <2>8. ASSUME NEW q \in Range(c), NEW x \in Nat, Holds(q, x)
        PROVE  Holds(p, x) /\ CellOf(q, x) = Reprotected(CellOf(p, x), x, r, prot)
    <3>1. CASE p.addr < a /\ q = Slice(p, p.addr, a)
      <4>1. x < a
        BY <2>6, <2>8, <3>1 DEF Holds
      <4>2. Holds(p, x) /\ CellOf(q, x) = CellOf(p, x)
        BY <2>6, <2>8, <3>1
      <4> QED
        BY <2>1, <2>2, <2>n, <4>1, <4>2
    <3>2. CASE e < End(p) /\ q = Slice(p, e, End(p))
      <4>1. e <= x
        BY <2>7, <2>8, <3>2 DEF Holds
      <4>2. Holds(p, x) /\ CellOf(q, x) = CellOf(p, x)
        BY <2>7, <2>8, <3>2
      <4> QED
        BY <2>1, <2>2, <2>n, <4>1, <4>2
    <3>3. CASE q = m
      <4>1. a <= x /\ x < e
        BY <2>4, <2>8, <3>3 DEF Holds
      <4>2. Holds(p, x) /\ CellOf(q, x) = [CellOf(p, x) EXCEPT !.prot = prot]
        BY <2>4, <2>8, <3>3
      <4> QED
        BY <2>2, <2>n, <4>1, <4>2
    <3> QED
      BY <2>5, <3>1, <3>2, <3>3
  <2>9. ASSUME NEW x \in Nat, Holds(p, x)
        PROVE  \E q \in Range(c) : Holds(q, x)
    <3>1. CASE x < a
      <4>1. p.addr < a /\ Holds(Slice(p, p.addr, a), x)
        BY <1>1, <2>1, <2>6, <2>9, <3>1 DEF Holds
      <4> QED
        BY <2>5, <4>1
    <3>2. CASE e <= x
      <4>1. e < End(p) /\ Holds(Slice(p, e, End(p)), x)
        BY <1>1, <2>1, <2>7, <2>9, <3>2 DEF Holds
      <4> QED
        BY <2>5, <4>1
    <3>3. CASE a <= x /\ x < e
      <4>1. Holds(m, x)
        BY <2>4, <3>3 DEF Holds
      <4> QED
        BY <2>5, <4>1
    <3> QED
      BY <2>1, <3>1, <3>2, <3>3
  <2> QED
    BY <2>5, <2>8, <2>9 DEF c
<1>3. CASE ~Overlaps(p, r[1], r[2])
  <2>1. c = <<p>>
    BY <1>3 DEF Recut
  <2>2. \A x \in Nat : Holds(p, x) => Reprotected(CellOf(p, x), x, r, prot) = CellOf(p, x)
    BY <1>3, OverlapIs DEF Reprotected
  <2>3. c \in Seq(Page) /\ Apart(c) /\ \A q : q \in Range(c) <=> q = p
    BY <2>1, ShortLists
  <2>4. \A q \in Range(c) : q \in Page /\ p.addr <= q.addr /\ End(q) <= End(p)
    BY <1>1, <2>3
  <2> HIDE DEF c
  <2>5. /\ \A q \in Range(c), x \in Nat :
             Holds(q, x) => Holds(p, x) /\ CellOf(q, x) = Reprotected(CellOf(p, x), x, r, prot)
        /\ \A x \in Nat : Holds(p, x) => \E q \in Range(c) : Holds(q, x)
    BY <2>2, <2>3
  <2> QED
    BY <2>3, <2>4, <2>5 DEF c
<1> QED
  BY <1>2, <1>3

\* Each page of a sorted list is replaced by pieces of its own; the pieces of all are
\* sorted again.
LEMMA PiecesHave ==
  ASSUME NEW s \in Seq(Page), Apart(s), NEW ss, DOMAIN ss = DOMAIN s, ss \in Seq(Seq(Page)),
         \A i \in DOMAIN s : Apart(ss[i]),
         \A i \in DOMAIN s : \A q \in Range(ss[i]) : s[i].addr <= q.addr /\ End(q) <= End(s[i])
  PROVE  /\ FlattenSeq(ss) \in Seq(Page)
         /\ Apart(FlattenSeq(ss))
         /\ \A q : q \in Range(FlattenSeq(ss)) <=> \E i \in DOMAIN s : q \in Range(ss[i])
<1>1. ASSUME NEW i \in DOMAIN ss, NEW j \in DOMAIN ss, i < j,
             NEW p \in Range(ss[i]), NEW q \in Range(ss[j])
      PROVE  Below(p, q)
  <2>1. s[i] \in Page /\ s[j] \in Page /\ Below(s[i], s[j])
    BY <1>1 DEF Apart
  <2>2. ss[i] \in Seq(Page) /\ ss[j] \in Seq(Page)
    OBVIOUS
  <2>3. p \in Page /\ q \in Page
    BY <2>2 DEF Range
  <2>4. End(p) <= End(s[i]) /\ s[j].addr <= q.addr
    OBVIOUS
  <2> QED
    BY <2>1, <2>3, <2>4, PageHas DEF Below
<1>2. /\ FlattenSeq(ss) \in Seq(Page)
      /\ Apart(FlattenSeq(ss))
      /\ Range(FlattenSeq(ss)) = UNION {Range(ss[i]) : i \in DOMAIN ss}
  BY <1>1, FlattenPages
<1> QED
  BY <1>2

-----------------------------------------------------------------------------
(* What a list of pages shows.                                             *)

\* F has the cells of the pages and no others.
Reveals(s, F) ==
  /\ \A p \in Range(s), x \in Nat : Holds(p, x) => x \in DOMAIN F /\ F[x] = CellOf(p, x)
  /\ \A x \in DOMAIN F : x \in Nat /\ \E p \in Range(s) : Holds(p, x)

LEMMA ListsReveal ==
  ASSUME NEW s \in Seq(Page), Apart(s)
  PROVE  Reveals(s, Cells(s))
<1>1. \A i \in DOMAIN s : s[i] \in Page
  OBVIOUS
<1>2. ASSUME NEW i \in DOMAIN s, NEW x \in Nat, Holds(s[i], x)
      PROVE  x \in DOMAIN Cells(s) /\ Cells(s)[x] = CellOf(s[i], x)
  <2>1. x \in Bytes(s[i].addr, End(s[i]))
    BY <1>1, <1>2, PageHas DEF Bytes, Holds
  <2>2. x \in UNION {Bytes(s[j].addr, End(s[j])) : j \in DOMAIN s}
    BY <2>1
  <2> DEFINE k == CHOOSE j \in DOMAIN s : Holds(s[j], x)
  <2>3. k \in DOMAIN s /\ Holds(s[k], x)
    BY <1>2
  <2>4. k = i
    <3> HIDE DEF k
    <3> QED
      BY <1>2, <2>3, OneHolds
  <2>5. x \in DOMAIN Cells(s) /\ Cells(s)[x] = CellOf(s[k], x)
    BY <2>2 DEF Cells
  <2> QED
    BY <2>4, <2>5
<1>3. ASSUME NEW x \in DOMAIN Cells(s)
      PROVE  x \in Nat /\ \E i \in DOMAIN s : Holds(s[i], x)
  <2>1. PICK i \in DOMAIN s : x \in Bytes(s[i].addr, End(s[i]))
    BY DEF Cells
  <2> QED
    BY <1>1, <2>1, PageHas DEF Bytes, Holds
<1>4. /\ \A i \in DOMAIN s : s[i] \in Range(s)
      /\ \A p \in Range(s) : \E i \in DOMAIN s : p = s[i]
  BY DEF Range
<1> HIDE DEF Cells
<1> QED
  BY <1>2, <1>3, <1>4 DEF Reveals

LEMMA RevealedIs ==
  ASSUME NEW s \in Seq(Page), Apart(s), NEW F, Reveals(s, F), F = [x \in DOMAIN F |-> F[x]]
  PROVE  Cells(s) = F
<1> DEFINE G == Cells(s)
<1>1. Reveals(s, G)
  BY ListsReveal
<1>2. G = [x \in DOMAIN G |-> G[x]]
  BY DEF Cells
<1> HIDE DEF G
<1>3. DOMAIN G = DOMAIN F
  BY <1>1 DEF Reveals
<1>4. \A x \in DOMAIN G : G[x] = F[x]
  BY <1>1 DEF Reveals
<1>5. [x \in DOMAIN G |-> G[x]] = [x \in DOMAIN F |-> F[x]]
  BY <1>3, <1>4
<1>6. G = F
  BY <1>2, <1>5, Zenon
<1> QED
  BY <1>6 DEF G

LEMMA PagesReveal ==
  ASSUME NEW pages \in Seq(Page), Apart(pages)
  PROVE  /\ pages \in Seq(Page) /\ Apart(pages)
         /\ \A i \in DOMAIN pages : pages[i] \in Page
         /\ \A i \in DOMAIN pages, x \in Nat :
              Holds(pages[i], x) => x \in DOMAIN Cells(pages) /\ Cells(pages)[x] = CellOf(pages[i], x)
         /\ \A x \in DOMAIN Cells(pages) : x \in Nat /\ \E i \in DOMAIN pages : Holds(pages[i], x)
<1>1. pages \in Seq(Page) /\ Apart(pages) /\ \A i \in DOMAIN pages : pages[i] \in Page
  OBVIOUS
<1>2. Reveals(pages, Cells(pages))
  BY ListsReveal
<1>3. /\ \A i \in DOMAIN pages : pages[i] \in Range(pages)
      /\ \A p \in Range(pages) : \E i \in DOMAIN pages : p = pages[i]
  BY DEF Range
<1> QED
  BY <1>1, <1>2, <1>3 DEF Reveals

UnmappedCells(pages, r) == [x \in DOMAIN Cells(pages) \ Bytes(r[1], r[2]) |-> Cells(pages)[x]]
ProtectedCells(pages, r, prot) == [x \in DOMAIN Cells(pages) |-> Reprotected(Cells(pages)[x], x, r, prot)]

LEMMA UnmapReveals ==
  ASSUME NEW pages \in Seq(Page), Apart(pages), NEW r \in Spans
  PROVE  /\ UnmappedPages(pages, r) \in Seq(Page)
         /\ Apart(UnmappedPages(pages, r))
         /\ Reveals(UnmappedPages(pages, r), UnmappedCells(pages, r))
<1> DEFINE ss == [i \in DOMAIN pages |-> Cut(pages[i], r, <<>>)]
           F == UnmappedCells(pages, r)
<1>1. /\ pages \in Seq(Page) /\ Apart(pages) /\ \A i \in DOMAIN pages : pages[i] \in Page
      /\ \A i \in DOMAIN pages, x \in Nat :
           Holds(pages[i], x) => x \in DOMAIN Cells(pages) /\ Cells(pages)[x] = CellOf(pages[i], x)
      /\ \A x \in DOMAIN Cells(pages) : x \in Nat /\ \E i \in DOMAIN pages : Holds(pages[i], x)
  BY PagesReveal
<1>2. DOMAIN ss = DOMAIN pages /\ \A i \in DOMAIN pages : ss[i] = Cut(pages[i], r, <<>>)
  OBVIOUS
<1>3. UnmappedPages(pages, r) = FlattenSeq(ss)
  BY DEF UnmappedPages
<1> HIDE DEF ss
<1>4. ASSUME NEW i \in DOMAIN pages
      PROVE  /\ ss[i] \in Seq(Page) /\ Apart(ss[i])
             /\ \A q \in Range(ss[i]) : q \in Page /\ pages[i].addr <= q.addr /\ End(q) <= End(pages[i])
             /\ \A q \in Range(ss[i]), x \in Nat :
                  Holds(q, x) => /\ Holds(pages[i], x) /\ x \notin Bytes(r[1], r[2])
                                 /\ CellOf(q, x) = CellOf(pages[i], x)
             /\ \A x \in Nat :
                  Holds(pages[i], x) /\ x \notin Bytes(r[1], r[2]) => \E q \in Range(ss[i]) : Holds(q, x)
  BY <1>1, <1>2, CutUnmaps
<1>5. ss \in Seq(Seq(Page))
  <2>1. DOMAIN pages = 1..Len(pages) /\ Len(pages) \in Nat
    BY <1>1
  <2>2. ss = [i \in 1..Len(pages) |-> ss[i]]
    BY <2>1 DEF ss
  <2> QED
    BY <1>4, <2>1, <2>2
<1>6. /\ FlattenSeq(ss) \in Seq(Page) /\ Apart(FlattenSeq(ss))
      /\ \A q : q \in Range(FlattenSeq(ss)) <=> \E i \in DOMAIN pages : q \in Range(ss[i])
  BY <1>1, <1>2, <1>4, <1>5, PiecesHave
<1>7. /\ DOMAIN F = DOMAIN Cells(pages) \ Bytes(r[1], r[2])
      /\ \A x \in DOMAIN F : F[x] = Cells(pages)[x]
  BY DEF UnmappedCells
<1> HIDE DEF F
<1>8. ASSUME NEW q \in Range(FlattenSeq(ss)), NEW x \in Nat, Holds(q, x)
      PROVE  x \in DOMAIN F /\ F[x] = CellOf(q, x)
  <2>1. PICK i \in DOMAIN pages : q \in Range(ss[i])
    BY <1>6
  <2>2. Holds(pages[i], x) /\ x \notin Bytes(r[1], r[2]) /\ CellOf(q, x) = CellOf(pages[i], x)
    BY <1>4, <1>8, <2>1
  <2> QED
    BY <1>1, <1>7, <2>2
<1>9. ASSUME NEW x \in DOMAIN F
      PROVE  x \in Nat /\ \E q \in Range(FlattenSeq(ss)) : Holds(q, x)
  <2>1. x \in Nat /\ x \notin Bytes(r[1], r[2]) /\ \E i \in DOMAIN pages : Holds(pages[i], x)
    BY <1>1, <1>7
  <2>2. PICK i \in DOMAIN pages : Holds(pages[i], x)
    BY <2>1
  <2>3. \E q \in Range(ss[i]) : Holds(q, x)
    BY <1>4, <2>1, <2>2
  <2> QED
    BY <1>6, <2>1, <2>3
<1>10. Reveals(FlattenSeq(ss), F)
  BY <1>8, <1>9 DEF Reveals
<1> QED
  BY <1>3, <1>6, <1>10 DEF F

LEMMA ProtectReveals ==
  ASSUME NEW pages \in Seq(Page), Apart(pages), NEW r \in Spans, NEW prot \in Prots
  PROVE  /\ ProtectedPages(pages, r, prot) \in Seq(Page)
         /\ Apart(ProtectedPages(pages, r, prot))
         /\ Reveals(ProtectedPages(pages, r, prot), ProtectedCells(pages, r, prot))
<1> DEFINE ss == [i \in DOMAIN pages |-> Recut(pages[i], r, prot)]
           F == ProtectedCells(pages, r, prot)
<1>1. /\ pages \in Seq(Page) /\ Apart(pages) /\ \A i \in DOMAIN pages : pages[i] \in Page
      /\ \A i \in DOMAIN pages, x \in Nat :
           Holds(pages[i], x) => x \in DOMAIN Cells(pages) /\ Cells(pages)[x] = CellOf(pages[i], x)
      /\ \A x \in DOMAIN Cells(pages) : x \in Nat /\ \E i \in DOMAIN pages : Holds(pages[i], x)
  BY PagesReveal
<1>2. DOMAIN ss = DOMAIN pages /\ \A i \in DOMAIN pages : ss[i] = Recut(pages[i], r, prot)
  OBVIOUS
<1>3. ProtectedPages(pages, r, prot) = FlattenSeq(ss)
  BY DEF ProtectedPages, Recut
<1> HIDE DEF ss
<1>4. ASSUME NEW i \in DOMAIN pages
      PROVE  /\ ss[i] \in Seq(Page) /\ Apart(ss[i])
             /\ \A q \in Range(ss[i]) : q \in Page /\ pages[i].addr <= q.addr /\ End(q) <= End(pages[i])
             /\ \A q \in Range(ss[i]), x \in Nat :
                  Holds(q, x) => /\ Holds(pages[i], x)
                                 /\ CellOf(q, x) = Reprotected(CellOf(pages[i], x), x, r, prot)
             /\ \A x \in Nat : Holds(pages[i], x) => \E q \in Range(ss[i]) : Holds(q, x)
  BY <1>1, <1>2, CutProtects
<1>5. ss \in Seq(Seq(Page))
  <2>1. DOMAIN pages = 1..Len(pages) /\ Len(pages) \in Nat
    BY <1>1
  <2>2. ss = [i \in 1..Len(pages) |-> ss[i]]
    BY <2>1 DEF ss
  <2> QED
    BY <1>4, <2>1, <2>2
<1>6. /\ FlattenSeq(ss) \in Seq(Page) /\ Apart(FlattenSeq(ss))
      /\ \A q : q \in Range(FlattenSeq(ss)) <=> \E i \in DOMAIN pages : q \in Range(ss[i])
  BY <1>1, <1>2, <1>4, <1>5, PiecesHave
<1>7. /\ DOMAIN F = DOMAIN Cells(pages)
      /\ \A x \in DOMAIN F : F[x] = Reprotected(Cells(pages)[x], x, r, prot)
  BY DEF ProtectedCells
<1> HIDE DEF F
<1>8. ASSUME NEW q \in Range(FlattenSeq(ss)), NEW x \in Nat, Holds(q, x)
      PROVE  x \in DOMAIN F /\ F[x] = CellOf(q, x)
  <2>1. PICK i \in DOMAIN pages : q \in Range(ss[i])
    BY <1>6
  <2>2. Holds(pages[i], x) /\ CellOf(q, x) = Reprotected(CellOf(pages[i], x), x, r, prot)
    BY <1>4, <1>8, <2>1
  <2> QED
    BY <1>1, <1>7, <2>2
<1>9. ASSUME NEW x \in DOMAIN F
      PROVE  x \in Nat /\ \E q \in Range(FlattenSeq(ss)) : Holds(q, x)
  <2>1. x \in Nat /\ \E i \in DOMAIN pages : Holds(pages[i], x)
    BY <1>1, <1>7
  <2>2. PICK i \in DOMAIN pages : Holds(pages[i], x)
    BY <2>1
  <2>3. \E q \in Range(ss[i]) : Holds(q, x)
    BY <1>4, <2>1, <2>2
  <2> QED
    BY <1>6, <2>1, <2>3
<1>10. Reveals(FlattenSeq(ss), F)
  BY <1>8, <1>9 DEF Reveals
<1> QED
  BY <1>3, <1>6, <1>10 DEF F

-----------------------------------------------------------------------------
(* Walks over the pages.                                                   *)

\* A walk starts at the page of the first address; each page of it begins where the
\* one before it ended, within the range.
LEMMA WalksAdjoin ==
  ASSUME NEW pages \in Seq(Page), Apart(pages), NEW r \in Spans
  PROVE  /\ First(pages, r) \in 0..Len(pages)
         /\ First(pages, r) # 0 => First(pages, r) \in Walked(pages, r) /\ Holds(pages[First(pages, r)], r[1])
         /\ First(pages, r) = 0 => Walked(pages, r) = {} /\ \A i \in DOMAIN pages : ~Holds(pages[i], r[1])
         /\ \A k \in Walked(pages, r) :
              /\ k \in DOMAIN pages /\ pages[k] \in Page /\ First(pages, r) # 0 /\ First(pages, r) <= k
              /\ k # First(pages, r) => /\ k - 1 \in Walked(pages, r)
                                 /\ pages[k].addr = End(pages[k - 1]) /\ End(pages[k - 1]) < r[2]
<1>1. pages \in Seq(Page) /\ Apart(pages) /\ \A i \in DOMAIN pages : pages[i] \in Page
  BY PagesReveal
<1>2. DOMAIN pages = 1..Len(pages) /\ Len(pages) \in Nat
  BY <1>1
<1>3. r[1] \in Nat /\ r[2] \in Nat /\ r[1] <= r[2]
  BY DEF Spans
<1>4. /\ First(pages, r) \in 0..Len(pages)
      /\ First(pages, r) # 0 => Holds(pages[First(pages, r)], r[1])
      /\ First(pages, r) = 0 => \A k \in DOMAIN pages : ~Holds(pages[k], r[1])
  BY <1>1, <1>3, BisectionFinds DEF First
<1>5. First(pages, r) # 0 => First(pages, r) \in Walked(pages, r)
  BY <1>2, <1>4 DEF Walked
<1>6. First(pages, r) = 0 => Walked(pages, r) = {}
  BY DEF Walked
<1>7. ASSUME NEW k \in Walked(pages, r)
      PROVE  /\ k \in DOMAIN pages /\ pages[k] \in Page /\ First(pages, r) # 0 /\ First(pages, r) <= k
             /\ k # First(pages, r) => /\ k - 1 \in Walked(pages, r)
                                /\ pages[k].addr = End(pages[k - 1]) /\ End(pages[k - 1]) < r[2]
  <2>1. First(pages, r) # 0
    BY DEF Walked
  <2>2. /\ k \in First(pages, r)..Len(pages)
        /\ \A i \in (First(pages, r) + 1)..k : Holds(pages[i], End(pages[i - 1])) /\ End(pages[i - 1]) < r[2]
    BY <2>1 DEF Walked
  <2> DEFINE f == First(pages, r)
  <2>f. f = First(pages, r)
    OBVIOUS
  <2> HIDE DEF f
  <2>3. f \in 1..Len(pages) /\ k \in f..Len(pages) /\ k \in DOMAIN pages /\ pages[k] \in Page
    BY <1>1, <1>2, <1>4, <2>1, <2>2, <2>f
  <2>4. CASE k # f
    <3>1. k \in (f + 1)..k /\ k - 1 \in f..Len(pages) /\ k - 1 \in DOMAIN pages /\ k - 1 < k
      BY <1>2, <2>3, <2>4
    <3>2. Holds(pages[k], End(pages[k - 1])) /\ End(pages[k - 1]) < r[2]
      BY <2>2, <2>f, <3>1
    <3>3. Below(pages[k - 1], pages[k])
      BY <1>1, <2>3, <3>1 DEF Apart
    <3>4. pages[k - 1] \in Page
      BY <1>1, <3>1
    <3>5. pages[k].addr = End(pages[k - 1])
      BY <2>3, <3>2, <3>3, <3>4, PageHas DEF Below, Holds
    <3>6. \A i \in (f + 1)..(k - 1) : i \in (f + 1)..k
      BY <2>3
    <3>7. k - 1 \in Walked(pages, r)
      BY <2>1, <2>2, <2>f, <3>1, <3>6 DEF Walked
    <3> QED
      BY <2>1, <2>3, <2>f, <3>2, <3>5, <3>7
  <2> QED
    BY <2>1, <2>3, <2>4, <2>f
<1> QED
  BY <1>4, <1>5, <1>6, <1>7

\* In a range that is mapped, the walk comes to the page of each address, and the
\* address is looked up there.
LEMMA WalkFinds ==
  ASSUME NEW pages \in Seq(Page), Apart(pages), NEW r \in Spans, RangeMapped(pages, r), NEW x \in Bytes(r[1], r[2])
  PROVE  /\ PageOf(pages, r, x) \in Walked(pages, r) /\ PageOf(pages, r, x) \in DOMAIN pages /\ Holds(pages[PageOf(pages, r, x)], x)
         /\ \A k \in DOMAIN pages : Holds(pages[k], x) => PageOf(pages, r, x) = k
<1>1. pages \in Seq(Page) /\ Apart(pages) /\ \A i \in DOMAIN pages : pages[i] \in Page
  BY PagesReveal
<1>2. x \in Nat /\ r[1] <= x /\ x < r[2] /\ r[1] \in Nat /\ r[2] \in Nat
  BY DEF Spans, Bytes
<1> DEFINE Past == {k \in Walked(pages, r) : x < End(pages[k])}
<1>3. \A k \in Walked(pages, r) : k \in DOMAIN pages /\ pages[k] \in Page /\ End(pages[k]) \in Nat /\ k \in Nat
  <2>1. \A k \in Walked(pages, r) : k \in DOMAIN pages /\ pages[k] \in Page
    BY WalksAdjoin
  <2>2. DOMAIN pages \subseteq Nat
    BY <1>1
  <2> QED
    BY <2>1, <2>2, PageHas
<1>4. PICK last \in Walked(pages, r) : End(pages[last]) >= r[2]
  BY DEF RangeMapped
<1>5. last \in Past
  BY <1>2, <1>3, <1>4
<1>6. Past \subseteq Nat
  BY <1>3
<1>7. PICK k \in Past : \A j \in Past : k <= j
  <2> HIDE DEF Past
  <2> QED
    BY <1>5, <1>6, LeastIs
<1>8. k \in Walked(pages, r) /\ x < End(pages[k]) /\ \A j \in Walked(pages, r) : j < k => x >= End(pages[j])
  <2>1. k \in Walked(pages, r) /\ x < End(pages[k])
    BY <1>7
  <2>2. ASSUME NEW j \in Walked(pages, r), j < k
        PROVE  x >= End(pages[j])
    <3>1. ~(k <= j)
      BY <1>3, <2>1, <2>2
    <3>2. j \notin Past
      <4> HIDE DEF Past
      <4> QED
        BY <1>7, <3>1
    <3>3. ~(x < End(pages[j]))
      BY <3>2
    <3> QED
      BY <1>2, <1>3, <3>3
  <2> QED
    BY <2>1, <2>2
<1> DEFINE k0 == PageOf(pages, r, x)
<1>9. k0 \in Walked(pages, r) /\ x < End(pages[k0]) /\ \A j \in Walked(pages, r) : j < k0 => x >= End(pages[j])
  BY <1>8 DEF PageOf
<1> HIDE DEF k0
<1>10. Holds(pages[k0], x)
  <2>1. CASE k0 = First(pages, r)
    <3>1. Holds(pages[k0], r[1])
      BY <1>9, <2>1, WalksAdjoin
    <3> QED
      BY <1>2, <1>3, <1>9, <3>1, PageHas DEF Holds
  <2>2. CASE k0 # First(pages, r)
    <3>1. k0 - 1 \in Walked(pages, r) /\ pages[k0].addr = End(pages[k0 - 1])
      BY <1>9, <2>2, WalksAdjoin
    <3>2. k0 - 1 < k0
      BY <1>3, <1>9
    <3> QED
      BY <1>9, <3>1, <3>2 DEF Holds
  <2> QED
    BY <2>1, <2>2
<1>11. ASSUME NEW j \in DOMAIN pages, Holds(pages[j], x)
       PROVE  k0 = j
  <2>1. k0 \in DOMAIN pages
    BY <1>3, <1>9
  <2> QED
    BY <1>1, <1>2, <1>10, <1>11, <2>1, OneHolds
<1> QED
  BY <1>3, <1>9, <1>10, <1>11 DEF k0

\* RangeValid accepts a range exactly when every address of it is mapped.
LEMMA MappedIsMapped ==
  ASSUME NEW pages \in Seq(Page), Apart(pages), NEW r \in Spans
  PROVE  RangeMapped(pages, r) <=> r[1] \in DOMAIN Cells(pages) /\ Bytes(r[1], r[2]) \subseteq DOMAIN Cells(pages)
<1>1. /\ pages \in Seq(Page) /\ Apart(pages) /\ \A i \in DOMAIN pages : pages[i] \in Page
      /\ \A i \in DOMAIN pages, x \in Nat :
           Holds(pages[i], x) => x \in DOMAIN Cells(pages) /\ Cells(pages)[x] = CellOf(pages[i], x)
      /\ \A x \in DOMAIN Cells(pages) : x \in Nat /\ \E i \in DOMAIN pages : Holds(pages[i], x)
  BY PagesReveal
<1>2. r[1] \in Nat /\ r[2] \in Nat /\ r[1] <= r[2] /\ \A x \in Bytes(r[1], r[2]) : x \in Nat
  BY DEF Spans, Bytes
<1>3. DOMAIN pages = 1..Len(pages) /\ Len(pages) \in Nat
  BY <1>1
<1>4. ASSUME RangeMapped(pages, r)
      PROVE  r[1] \in DOMAIN Cells(pages) /\ Bytes(r[1], r[2]) \subseteq DOMAIN Cells(pages)
  <2>1. First(pages, r) \in DOMAIN pages /\ Holds(pages[First(pages, r)], r[1])
    BY <1>4, WalksAdjoin DEF RangeMapped
  <2>2. \A x \in Bytes(r[1], r[2]) : PageOf(pages, r, x) \in DOMAIN pages /\ Holds(pages[PageOf(pages, r, x)], x)
    BY <1>4, WalkFinds
  <2> QED
    BY <1>1, <1>2, <2>1, <2>2
<1>5. ASSUME r[1] \in DOMAIN Cells(pages), Bytes(r[1], r[2]) \subseteq DOMAIN Cells(pages), ~RangeMapped(pages, r)
      PROVE  FALSE
  <2>1. First(pages, r) \in Walked(pages, r) /\ First(pages, r) # 0
    BY <1>1, <1>5, WalksAdjoin
  <2>2. \A k \in Walked(pages, r) : k \in 1..Len(pages) /\ pages[k] \in Page /\ First(pages, r) <= k
    BY <1>3, WalksAdjoin
  <2>3. PICK k \in Walked(pages, r) : \A j \in Walked(pages, r) : j <= k
    <3>1. Walked(pages, r) \subseteq Nat /\ Walked(pages, r) # {} /\ \A j \in Walked(pages, r) : j <= Len(pages)
      BY <1>3, <2>1, <2>2
    <3> QED
      BY <1>3, <3>1, GreatestIs
  <2> DEFINE x == End(pages[k])
  <2>4. k \in 1..Len(pages) /\ pages[k] \in Page /\ k \in DOMAIN pages /\ First(pages, r) \in 1..Len(pages) /\ First(pages, r) <= k
    BY <1>3, <2>1, <2>2
  <2>5. x \in Nat /\ x < r[2]
    <3>1. ~(x >= r[2])
      BY <1>5 DEF RangeMapped
    <3>2. x \in Nat
      BY <2>4, PageHas
    <3> HIDE DEF x
    <3> QED
      BY <1>2, <3>1, <3>2
  <2>6. r[1] <= x
    <3>1. Holds(pages[First(pages, r)], r[1]) /\ pages[First(pages, r)] \in Page /\ First(pages, r) \in DOMAIN pages
      BY <1>3, <2>1, <2>2, <2>4, WalksAdjoin
    <3>2. First(pages, r) < k => Below(pages[First(pages, r)], pages[k])
      BY <1>1, <2>4, <3>1 DEF Apart
    <3>3. End(pages[First(pages, r)]) <= End(pages[k])
      BY <2>4, <3>1, <3>2, PageHas DEF Below
    <3> QED
      BY <1>2, <2>4, <3>1, <3>3, PageHas DEF Holds
  <2>7. x \in DOMAIN Cells(pages)
    BY <1>2, <1>5, <2>5, <2>6 DEF Bytes
  <2>8. PICK j \in DOMAIN pages : Holds(pages[j], x)
    BY <1>1, <2>7
  <2>9. j \in 1..Len(pages) /\ pages[j] \in Page
    BY <1>1, <1>3
  <2>10. ~(j < k) /\ j # k
    <3>1. CASE j < k
      <4>1. End(pages[j]) <= pages[k].addr
        BY <1>1, <2>4, <3>1 DEF Apart, Below
      <4> QED
        BY <2>4, <2>8, <2>9, <4>1, PageHas DEF Holds
    <3>2. CASE j = k
      BY <2>4, <2>8, <3>2, PageHas DEF Holds
    <3> QED
      BY <3>1, <3>2
  <2>11. k + 1 \in DOMAIN pages /\ pages[k + 1] \in Page
    BY <1>1, <1>3, <2>4, <2>9, <2>10
  <2>12. j = k + 1
    <3>1. CASE k + 1 < j
      <4>1. Below(pages[k], pages[k + 1]) /\ Below(pages[k + 1], pages[j])
        BY <1>1, <2>4, <2>11, <3>1 DEF Apart
      <4> QED
        BY <2>4, <2>8, <2>9, <2>11, <4>1, PageHas DEF Below, Holds
    <3> QED
      BY <2>4, <2>9, <2>10, <3>1
  <2>13. k + 1 \in Walked(pages, r)
    <3>1. /\ k \in First(pages, r)..Len(pages)
          /\ \A i \in (First(pages, r) + 1)..k : Holds(pages[i], End(pages[i - 1])) /\ End(pages[i - 1]) < r[2]
      BY <2>1, <2>3 DEF Walked
    <3>2. \A i \in (First(pages, r) + 1)..(k + 1) : i \in (First(pages, r) + 1)..k \/ i = k + 1
      BY <2>4
    <3>3. k + 1 \in First(pages, r)..Len(pages)
      BY <1>3, <2>4, <2>11
    <3>4. Holds(pages[k + 1], End(pages[(k + 1) - 1])) /\ End(pages[(k + 1) - 1]) < r[2]
      <4>1. (k + 1) - 1 = k
        BY <2>4
      <4> QED
        BY <2>5, <2>8, <2>12, <4>1
    <3>5. \A i \in (First(pages, r) + 1)..(k + 1) : Holds(pages[i], End(pages[i - 1])) /\ End(pages[i - 1]) < r[2]
      BY <3>1, <3>2, <3>4
    <3> QED
      BY <2>1, <3>3, <3>5 DEF Walked
  <2> QED
    BY <2>3, <2>4, <2>13
<1> QED
  BY <1>4, <1>5

\* The pages of the walk are those that hold the range's addresses and its first one.
LEMMA AllowedIsAllowed ==
  ASSUME NEW pages \in Seq(Page), Apart(pages), NEW r \in Spans, RangeMapped(pages, r), NEW prot
  PROVE  RangeAllowed(pages, r, prot) <=> \A x \in Bytes(r[1], r[2]) \cup {r[1]} : prot \subseteq Cells(pages)[x].prot
<1>1. \A i \in DOMAIN pages, x \in Nat :
        Holds(pages[i], x) => x \in DOMAIN Cells(pages) /\ Cells(pages)[x].prot = pages[i].prot
  <2>1. \A i \in DOMAIN pages : \A x : CellOf(pages[i], x).prot = pages[i].prot
    BY DEF CellOf
  <2> QED
    BY <2>1, PagesReveal
<1>2. r[1] \in Nat /\ r[2] \in Nat /\ r[1] <= r[2] /\ \A x \in Bytes(r[1], r[2]) : x \in Nat
  BY DEF Spans, Bytes
<1>3. First(pages, r) \in Walked(pages, r) /\ First(pages, r) \in DOMAIN pages /\ Holds(pages[First(pages, r)], r[1])
  BY WalksAdjoin DEF RangeMapped
<1>4. Cells(pages)[r[1]].prot = pages[First(pages, r)].prot
  BY <1>1, <1>2, <1>3
<1>5. ASSUME NEW x \in Bytes(r[1], r[2])
      PROVE  PageOf(pages, r, x) \in Walked(pages, r) /\ Cells(pages)[x].prot = pages[PageOf(pages, r, x)].prot
  <2>1. PageOf(pages, r, x) \in Walked(pages, r) /\ PageOf(pages, r, x) \in DOMAIN pages /\ Holds(pages[PageOf(pages, r, x)], x)
    BY WalkFinds
  <2> QED
    BY <1>1, <1>2, <2>1
<1>6. ASSUME NEW k \in Walked(pages, r)
      PROVE  \E x \in Bytes(r[1], r[2]) \cup {r[1]} : Cells(pages)[x].prot = pages[k].prot
  <2>1. CASE k = First(pages, r)
    BY <1>4, <2>1
  <2>2. CASE k # First(pages, r)
    <3>1. /\ k \in DOMAIN pages /\ pages[k] \in Page /\ First(pages, r) < k
          /\ k - 1 \in Walked(pages, r) /\ pages[k].addr = End(pages[k - 1]) /\ End(pages[k - 1]) < r[2]
      <4>1. DOMAIN pages \subseteq Nat
        BY PagesReveal
      <4> QED
        BY <1>3, <2>2, <4>1, WalksAdjoin
    <3> DEFINE x == pages[k].addr
    <3>2. x \in Nat /\ Holds(pages[k], x)
      BY <3>1, PageHas DEF Holds
    <3>3. pages[First(pages, r)] \in Page /\ Below(pages[First(pages, r)], pages[k])
      BY <1>3, <3>1, PagesReveal DEF Apart
    <3>4. r[1] <= x
      BY <1>2, <1>3, <3>1, <3>3, PageHas DEF Below, Holds
    <3>5. x \in Bytes(r[1], r[2])
      BY <1>2, <3>1, <3>2, <3>4 DEF Bytes
    <3>6. Cells(pages)[x].prot = pages[k].prot
      BY <1>1, <3>1, <3>2
    <3> QED
      BY <3>5, <3>6
  <2> QED
    BY <2>1, <2>2
<1>7. ASSUME RangeAllowed(pages, r, prot), NEW x \in Bytes(r[1], r[2]) \cup {r[1]}
      PROVE  prot \subseteq Cells(pages)[x].prot
  BY <1>3, <1>4, <1>5, <1>7 DEF RangeAllowed
<1>8. ASSUME \A x \in Bytes(r[1], r[2]) \cup {r[1]} : prot \subseteq Cells(pages)[x].prot, NEW k \in Walked(pages, r)
      PROVE  prot \subseteq pages[k].prot
  BY <1>6, <1>8
<1> QED
  BY <1>7, <1>8 DEF RangeAllowed

-----------------------------------------------------------------------------
(* Reading, sorting and mapping.                                           *)

\* A byte that is read is that of its address's cell.
LEMMA BytesAreCells ==
  ASSUME NEW pages \in Seq(Page), Apart(pages), NEW r \in Spans, RangeMapped(pages, r), NEW x \in Bytes(r[1], r[2])
  PROVE  ByteAt(pages, r, x) = Cells(pages)[x].byte /\ ByteAt(pages, r, x) \in Byte /\ x \in DOMAIN Cells(pages)
<1>1. PageOf(pages, r, x) \in DOMAIN pages /\ Holds(pages[PageOf(pages, r, x)], x)
  BY WalkFinds
<1>2. x \in Nat
  BY DEF Spans, Bytes
<1>3. pages[PageOf(pages, r, x)] \in Page /\ x \in DOMAIN Cells(pages) /\ Cells(pages)[x] = CellOf(pages[PageOf(pages, r, x)], x)
  BY <1>1, <1>2, PagesReveal
<1>4. ByteAt(pages, r, x) = CellOf(pages[PageOf(pages, r, x)], x).byte
  BY DEF ByteAt, CellOf
<1>5. ByteAt(pages, r, x) \in Byte
  BY <1>1, <1>2, <1>3, PageByte DEF ByteAt
<1> QED
  BY <1>3, <1>4, <1>5

\* However sort leaves pages that share no address, they are in order and the same pages.
LEMMA SortingOrders ==
  ASSUME NEW s \in Seq(Page),
         \A i, j \in DOMAIN s : i # j => Below(s[i], s[j]) \/ Below(s[j], s[i]),
         NEW t \in Sorted(s)
  PROVE  t \in Seq(Page) /\ Apart(t) /\ Range(t) = Range(s)
<1> DEFINE D == DOMAIN s
<1>1. PICK order \in Bijection(D, D) : t = [i \in D |-> s[order[i]]]
  BY Zenon DEF Sorted
<1>2. \A i, j \in D : i < j => t[i].addr <= t[j].addr
  BY Zenon DEF Sorted
<1>3. D = 1..Len(s) /\ Len(s) \in Nat /\ \A i \in D : s[i] \in Page
  OBVIOUS
<1>4. /\ order \in [D -> D]
      /\ \A i, j \in D : order[i] = order[j] => i = j
      /\ \A j \in D : \E i \in D : order[i] = j
  BY DEF Bijection, Injection, Surjection, IsInjective
<1> HIDE DEF D
<1>5. DOMAIN t = D /\ \A i \in D : order[i] \in D /\ t[i] = s[order[i]] /\ t[i] \in Page
  BY <1>1, <1>3, <1>4
<1>6. t \in Seq(Page)
  <2>1. t = [i \in 1..Len(s) |-> t[i]]
    BY <1>1, <1>3, <1>5
  <2> QED
    BY <1>3, <1>5, <2>1
<1>7. ASSUME NEW i \in D, NEW j \in D, i < j
      PROVE  Below(t[i], t[j])
  <2>1. order[i] # order[j]
    BY <1>3, <1>4, <1>7
  <2>2. Below(t[i], t[j]) \/ Below(t[j], t[i])
    BY <1>5, <2>1 DEF D
  <2>3. t[i].addr <= t[j].addr
    BY <1>2, <1>7
  <2> QED
    BY <1>5, <2>2, <2>3, PageHas DEF Below
<1>8. \A q : q \in Range(t) <=> q \in Range(s)
  <2>1. \A q : q \in Range(t) <=> \E i \in D : q = t[i]
    BY <1>5 DEF Range
  <2>2. \A q : q \in Range(s) <=> \E i \in D : q = s[i]
    BY DEF Range, D
  <2> QED
    BY <1>4, <1>5, <2>1, <2>2
<1> QED
  BY <1>5, <1>6, <1>7, <1>8 DEF Apart

\* A page added where no page holds an address, and the list sorted.
LEMMA AddingReveals ==
  ASSUME NEW s \in Seq(Page), Apart(s), NEW p \in Page,
         \A q \in Range(s), x \in Nat : ~(Holds(q, x) /\ Holds(p, x)),
         NEW t \in Sorted(Append(s, p))
  PROVE  t \in Seq(Page) /\ Apart(t) /\ \A q : q \in Range(t) <=> q \in Range(s) \/ q = p
<1> DEFINE u == Append(s, p)
<1>1. /\ u \in Seq(Page) /\ DOMAIN u = 1..(Len(s) + 1) /\ Len(s) \in Nat /\ DOMAIN s = 1..Len(s)
      /\ u[Len(s) + 1] = p /\ \A i \in 1..Len(s) : u[i] = s[i]
  OBVIOUS
<1> HIDE DEF u
<1>2. ASSUME NEW q \in Range(s)
      PROVE  Below(q, p) \/ Below(p, q)
  <2>1. q \in Page
    BY DEF Range
  <2>2. q.addr \in Nat /\ p.addr \in Nat /\ End(q) \in Nat /\ End(p) \in Nat /\ q.addr < End(q) /\ p.addr < End(p)
    BY <2>1, PageHas
  <2>3. ~(Holds(q, q.addr) /\ Holds(p, q.addr)) /\ ~(Holds(q, p.addr) /\ Holds(p, p.addr))
    BY <2>2
  <2> QED
    BY <2>2, <2>3 DEF Holds, Below
<1>3. \A i \in DOMAIN s : s[i] \in Range(s)
  BY DEF Range
<1>4. ASSUME NEW i \in DOMAIN u, NEW j \in DOMAIN u, i # j
      PROVE  Below(u[i], u[j]) \/ Below(u[j], u[i])
  <2>1. CASE i \in 1..Len(s) /\ j \in 1..Len(s)
    <3>1. i < j \/ j < i
      BY <1>4, <2>1
    <3> QED
      BY <1>1, <2>1, <3>1 DEF Apart
  <2>2. CASE i \in 1..Len(s) /\ j = Len(s) + 1
    BY <1>1, <1>2, <1>3, <2>2
  <2>3. CASE i = Len(s) + 1 /\ j \in 1..Len(s)
    BY <1>1, <1>2, <1>3, <2>3
  <2> QED
    BY <1>1, <1>4, <2>1, <2>2, <2>3
<1>5. t \in Seq(Page) /\ Apart(t) /\ Range(t) = Range(u)
  BY <1>1, <1>4, SortingOrders DEF u
<1>6. \A q : q \in Range(u) <=> q \in Range(s) \/ q = p
  <2>1. \A q : q \in Range(u) <=> \E i \in 1..(Len(s) + 1) : q = u[i]
    BY <1>1 DEF Range
  <2>2. \A q : q \in Range(s) <=> \E i \in 1..Len(s) : q = s[i]
    BY <1>1 DEF Range
  <2>3. \A i : i \in 1..(Len(s) + 1) <=> i \in 1..Len(s) \/ i = Len(s) + 1
    BY <1>1
  <2> QED
    BY <1>1, <2>1, <2>2, <2>3
<1> QED
  BY <1>5, <1>6

-----------------------------------------------------------------------------
(* Writing.                                                                *)

WrittenCells(pages, r, bytes) ==
  [x \in DOMAIN Cells(pages) |->
     IF x \in Bytes(r[1], r[2]) THEN [Cells(pages)[x] EXCEPT !.byte = bytes[x - r[1] + 1]] ELSE Cells(pages)[x]]

\* The byte at x where there was another one.
Given(r, bytes, x, old) == IF x \in Bytes(r[1], r[2]) THEN bytes[x - r[1] + 1] ELSE old

\* The data of the page at k once bytes have been written over the range.
WrittenData(pages, k, r, bytes) ==
  [i \in DOMAIN pages[k].data |->
     LET x == pages[k].addr + i - 1 IN
     IF r[1] <= x /\ x < r[2] /\ PageOf(pages, r, x) = k THEN bytes[x - r[1] + 1] ELSE pages[k].data[i]]

LEMMA WriteReveals ==
  ASSUME NEW pages \in Seq(Page), Apart(pages), NEW r \in Spans, RangeMapped(pages, r), NEW bytes \in [1..Size(r) -> Byte]
  PROVE  /\ WrittenPages(pages, r, bytes) \in Seq(Page) /\ Apart(WrittenPages(pages, r, bytes))
         /\ Reveals(WrittenPages(pages, r, bytes), WrittenCells(pages, r, bytes))
<1> DEFINE F == WrittenCells(pages, r, bytes)
           data(k) == WrittenData(pages, k, r, bytes)
           after == WrittenPages(pages, r, bytes)
<1>0. after = [k \in DOMAIN pages |-> [pages[k] EXCEPT !.data = WrittenData(pages, k, r, bytes)]]
  BY DEF WrittenPages, WrittenData
<1> HIDE DEF after
<1>1. /\ pages \in Seq(Page) /\ Apart(pages) /\ \A i \in DOMAIN pages : pages[i] \in Page
      /\ \A i \in DOMAIN pages, x \in Nat :
           Holds(pages[i], x) => x \in DOMAIN Cells(pages) /\ Cells(pages)[x] = CellOf(pages[i], x)
      /\ \A x \in DOMAIN Cells(pages) : x \in Nat /\ \E i \in DOMAIN pages : Holds(pages[i], x)
  BY PagesReveal
<1>2. /\ r[1] \in Nat /\ r[2] \in Nat /\ Size(r) = r[2] - r[1]
      /\ \A x \in Nat : x \in Bytes(r[1], r[2]) <=> r[1] <= x /\ x < r[2]
      /\ \A x \in Bytes(r[1], r[2]) : x \in Nat /\ x - r[1] + 1 \in 1..Size(r)
  BY DEF Spans, Size, Bytes
<1>3. \A x \in Bytes(r[1], r[2]) : bytes[x - r[1] + 1] \in Byte
  BY <1>2
<1>4. ASSUME NEW k \in DOMAIN pages
      PROVE  /\ data(k) \in Seq(Byte) /\ Len(data(k)) = pages[k].size
             /\ \A x \in Nat : Holds(pages[k], x) =>
                  data(k)[x - pages[k].addr + 1] = Given(r, bytes, x, pages[k].data[x - pages[k].addr + 1])
  <2> DEFINE p == pages[k]
             byte(i) == LET x == p.addr + i - 1 IN
                        IF r[1] <= x /\ x < r[2] /\ PageOf(pages, r, x) = k THEN bytes[x - r[1] + 1] ELSE p.data[i]
             d == data(k)
             n == p.size
  <2>1. /\ p \in Page /\ p.addr \in Nat /\ n \in Nat /\ End(p) = p.addr + n
        /\ p.data \in Seq(Byte) /\ Len(p.data) = n /\ DOMAIN p.data = 1..n
    <3>1. p \in Page
      BY <1>1
    <3> HIDE DEF p
    <3> QED
      BY <3>1, PageHas
  <2>2. d = [i \in 1..n |-> byte(i)]
    <3>1. d = [i \in DOMAIN p.data |-> byte(i)]
      BY Zenon DEF WrittenData
    <3> QED
      BY <2>1, <3>1, Zenon
  <2>3. ASSUME NEW i \in 1..n
        PROVE  /\ p.addr + i - 1 \in Nat /\ Holds(p, p.addr + i - 1)
               /\ byte(i) = Given(r, bytes, p.addr + i - 1, p.data[i])
               /\ byte(i) \in Byte
    <3> DEFINE x == p.addr + i - 1
    <3>1. x \in Nat /\ Holds(p, x)
      <4> HIDE DEF p
      <4> QED
        BY <2>1 DEF Holds
    <3>2. x \in Bytes(r[1], r[2]) => PageOf(pages, r, x) = k
      <4>1. \A y \in Bytes(r[1], r[2]), j \in DOMAIN pages : Holds(pages[j], y) => PageOf(pages, r, y) = j
        BY WalkFinds
      <4> HIDE DEF x
      <4> QED
        BY <3>1, <4>1
    <3>3. byte(i) = IF r[1] <= x /\ x < r[2] /\ PageOf(pages, r, x) = k THEN bytes[x - r[1] + 1] ELSE p.data[i]
      OBVIOUS
    <3>4. p.data[i] \in Byte
      <4> HIDE DEF p, n
      <4> QED
        BY <2>1
    <3>5. r[1] <= x /\ x < r[2] <=> x \in Bytes(r[1], r[2])
      <4> HIDE DEF x
      <4> QED
        BY <1>2, <3>1
    <3>6. byte(i) = Given(r, bytes, x, p.data[i])
      <4> HIDE DEF x, byte
      <4> QED
        BY <3>2, <3>3, <3>5 DEF Given
    <3>7. byte(i) \in Byte
      <4> HIDE DEF x, byte
      <4> QED
        BY <1>3, <3>4, <3>6 DEF Given
    <3> HIDE DEF byte
    <3> QED
      BY <3>1, <3>6, <3>7
  <2> HIDE DEF d, byte, p, n
  <2>4. d \in Seq(Byte) /\ Len(d) = n /\ \A i \in 1..n : d[i] = byte(i)
    <3>1. d \in [1..n -> Byte] /\ \A i \in 1..n : d[i] = byte(i)
      BY <2>2, <2>3
    <3>2. n \in Nat
      BY <2>1
    <3>3. d \in Seq(Byte) /\ Len(d) = n
      BY <3>1, <3>2
    <3> QED
      BY <3>1, <3>3
  <2>5. ASSUME NEW x \in Nat, Holds(p, x)
        PROVE  d[x - p.addr + 1] = Given(r, bytes, x, p.data[x - p.addr + 1])
    <3> DEFINE i == x - p.addr + 1
    <3>1. i \in 1..n /\ p.addr + i - 1 = x
      BY <2>1, <2>5 DEF Holds
    <3> HIDE DEF i
    <3>2. byte(i) = Given(r, bytes, x, p.data[i])
      BY <2>3, <3>1
    <3>3. d[i] = byte(i)
      BY <2>4, <3>1
    <3> QED
      BY <3>2, <3>3 DEF i
  <2> QED
    BY <2>4, <2>5 DEF d, p, n
<1> HIDE DEF data
<1>5. /\ DOMAIN after = DOMAIN pages
      /\ \A k \in DOMAIN pages : after[k] = [pages[k] EXCEPT !.data = data(k)]
  BY <1>0 DEF data
<1>6. ASSUME NEW k \in DOMAIN pages
      PROVE  /\ after[k] \in Page /\ after[k].addr = pages[k].addr /\ End(after[k]) = End(pages[k])
             /\ \A x \in Nat : Holds(after[k], x) <=> Holds(pages[k], x)
             /\ \A x \in Nat : Holds(pages[k], x) =>
                  CellOf(after[k], x) =
                    IF x \in Bytes(r[1], r[2])
                    THEN [CellOf(pages[k], x) EXCEPT !.byte = bytes[x - r[1] + 1]] ELSE CellOf(pages[k], x)
  <2> DEFINE p == pages[k]
             q == after[k]
  <2>1. q = [p EXCEPT !.data = data(k)] /\ p \in Page
    BY <1>1, <1>5
  <2>2. data(k) \in Seq(Byte) /\ Len(data(k)) = p.size
    BY <1>4
  <2> HIDE DEF q
  <2>3. q \in Page /\ q.addr = p.addr /\ q.size = p.size /\ q.prot = p.prot /\ q.data = data(k)
    <3> HIDE DEF p
    <3> QED
      BY <2>1, <2>2 DEF Page
  <2>4. End(q) = End(p) /\ \A x \in Nat : Holds(q, x) <=> Holds(p, x)
    BY <2>3 DEF End, Holds
  <2>5. ASSUME NEW x \in Nat, Holds(p, x)
        PROVE  CellOf(q, x) =
                 IF x \in Bytes(r[1], r[2])
                 THEN [CellOf(p, x) EXCEPT !.byte = bytes[x - r[1] + 1]] ELSE CellOf(p, x)
    <3>1. data(k)[x - p.addr + 1] = Given(r, bytes, x, p.data[x - p.addr + 1])
      BY <1>4, <2>5
    <3> HIDE DEF p
    <3> QED
      BY <2>3, <3>1 DEF CellOf, Given
  <2> QED
    BY <2>3, <2>4, <2>5 DEF q
<1>7. after \in Seq(Page)
  <2>1. DOMAIN pages = 1..Len(pages) /\ Len(pages) \in Nat
    BY <1>1
  <2>2. after = [k \in 1..Len(pages) |-> after[k]]
    BY <1>0, <1>5, <2>1
  <2> QED
    BY <1>6, <2>1, <2>2
<1>8. Apart(after)
  BY <1>1, <1>5, <1>6 DEF Apart, Below
<1>9. /\ F = [x \in DOMAIN F |-> F[x]] /\ DOMAIN F = DOMAIN Cells(pages)
      /\ \A x \in DOMAIN F :
           F[x] = IF x \in Bytes(r[1], r[2]) THEN [Cells(pages)[x] EXCEPT !.byte = bytes[x - r[1] + 1]] ELSE Cells(pages)[x]
  BY DEF WrittenCells
<1> HIDE DEF F
<1>10. /\ \A k \in DOMAIN pages : after[k] \in Range(after)
       /\ \A q \in Range(after) : \E k \in DOMAIN pages : q = after[k]
  BY <1>5 DEF Range
<1>11. ASSUME NEW k \in DOMAIN pages, NEW x \in Nat, Holds(after[k], x)
       PROVE  x \in DOMAIN F /\ F[x] = CellOf(after[k], x)
  <2>1. Holds(pages[k], x)
    BY <1>6, <1>11
  <2>2. x \in DOMAIN Cells(pages) /\ Cells(pages)[x] = CellOf(pages[k], x)
    BY <1>1, <2>1
  <2>3. CellOf(after[k], x) =
          IF x \in Bytes(r[1], r[2])
          THEN [CellOf(pages[k], x) EXCEPT !.byte = bytes[x - r[1] + 1]] ELSE CellOf(pages[k], x)
    BY <1>6, <2>1
  <2> QED
    BY <1>9, <2>2, <2>3
<1>12. \A x \in DOMAIN F : x \in Nat /\ \E k \in DOMAIN pages : Holds(after[k], x)
  <2>1. \A k \in DOMAIN pages, x \in Nat : Holds(after[k], x) <=> Holds(pages[k], x)
    BY <1>6
  <2> QED
    BY <1>1, <1>9, <2>1
<1>13. Reveals(after, F)
  <2>1. ASSUME NEW q \in Range(after), NEW x \in Nat, Holds(q, x)
        PROVE  x \in DOMAIN F /\ F[x] = CellOf(q, x)
    <3>1. PICK k \in DOMAIN pages : q = after[k]
      BY <1>10
    <3> QED
      BY <1>11, <2>1, <3>1
  <2>2. \A x \in DOMAIN F : x \in Nat /\ \E q \in Range(after) : Holds(q, x)
    BY <1>10, <1>12
  <2> QED
    BY <2>1, <2>2 DEF Reveals
<1> QED
  BY <1>7, <1>8, <1>13 DEF F, after

=============================================================================
