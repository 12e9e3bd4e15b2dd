----------------------------- MODULE TaskProofs -----------------------------
(***************************************************************************)
(* The list of mappings, the CPU's memory and what the map hooks tell      *)
(* agree, for any address space, page size and protections.                *)
(*                                                                         *)
(* Every step replaces the list by one whose mappings are pieces of the    *)
(* old ones, reorders it, or adds a mapping where nothing was.  The first  *)
(* part shows what that does to a list; the second takes the actions in    *)
(* turn.                                                                   *)
(***************************************************************************)
EXTENDS Task, TLAPS

-----------------------------------------------------------------------------
(* Lists of mappings.                                                      *)

Apart(s) ==
  \A i, j \in DOMAIN s : i # j => End(s[i]) <= s[j].addr \/ End(s[j]) <= s[i].addr

Covered(s) == UNION {Bytes(s[i].addr, End(s[i])) : i \in DOMAIN s}

LEMMA MappingType ==
  ASSUME NEW m \in Mapping
  PROVE  /\ m.addr \in Nat /\ m.size \in Nat \ {0} /\ m.prot \in Prots
         /\ End(m) \in Nat /\ m.addr < End(m)
<1>1. m.addr \in Nat /\ m.size \in Nat \ {0} /\ m.prot \in Prots
  BY DEF Mapping
<1> QED
  BY <1>1 DEF End

LEMMA MappingFromTo ==
  ASSUME NEW a \in Nat, NEW e \in Nat, a < e, NEW p \in Prots
  PROVE  LET m == [addr |-> a, size |-> e - a, prot |-> p] IN
         m \in Mapping /\ m.addr = a /\ End(m) = e
<1>1. e - a \in Nat \ {0} /\ a + (e - a) = e
  OBVIOUS
<1> QED
  BY <1>1 DEF Mapping, End

LEMMA CoveredMember ==
  ASSUME NEW s \in Seq(Mapping), NEW x
  PROVE  x \in Covered(s) <=> \E i \in DOMAIN s : x \in Int /\ s[i].addr <= x /\ x < End(s[i])
<1>1. \A i \in DOMAIN s : s[i] \in Mapping
  OBVIOUS
<1>2. \A i \in DOMAIN s : x \in Bytes(s[i].addr, End(s[i])) <=> x \in Int /\ s[i].addr <= x /\ x < End(s[i])
  BY <1>1 DEF Bytes, End, Mapping
<1> QED
  BY <1>2 DEF Covered

\* Pieces of mappings that are apart are apart, if those of one mapping are.
LEMMA PiecesApart ==
  ASSUME NEW s \in Seq(Mapping), NEW t \in Seq(Mapping), Apart(s),
         NEW src \in [DOMAIN t -> DOMAIN s],
         \A j \in DOMAIN t : s[src[j]].addr <= t[j].addr /\ End(t[j]) <= End(s[src[j]]),
         \A j, k \in DOMAIN t : j # k /\ src[j] = src[k] =>
                                  End(t[j]) <= t[k].addr \/ End(t[k]) <= t[j].addr
  PROVE  Apart(t)
<1> SUFFICES ASSUME NEW j \in DOMAIN t, NEW k \in DOMAIN t, j # k
             PROVE  End(t[j]) <= t[k].addr \/ End(t[k]) <= t[j].addr
  BY DEF Apart
<1>1. t[j] \in Mapping /\ t[k] \in Mapping /\ s[src[j]] \in Mapping /\ s[src[k]] \in Mapping
  OBVIOUS
<1>2. CASE src[j] = src[k]
  BY <1>2
<1>3. CASE src[j] # src[k]
  <2>1. End(s[src[j]]) <= s[src[k]].addr \/ End(s[src[k]]) <= s[src[j]].addr
    BY <1>3 DEF Apart
  <2>2. /\ s[src[j]].addr <= t[j].addr /\ End(t[j]) <= End(s[src[j]])
        /\ s[src[k]].addr <= t[k].addr /\ End(t[k]) <= End(s[src[k]])
    OBVIOUS
  <2>3. /\ t[j].addr \in Nat /\ End(t[j]) \in Nat /\ t[k].addr \in Nat /\ End(t[k]) \in Nat
        /\ s[src[j]].addr \in Nat /\ End(s[src[j]]) \in Nat
        /\ s[src[k]].addr \in Nat /\ End(s[src[k]]) \in Nat
    BY <1>1, MappingType
  <2>4. CASE End(s[src[j]]) <= s[src[k]].addr
    BY <2>2, <2>3, <2>4
  <2>5. CASE End(s[src[k]]) <= s[src[j]].addr
    BY <2>2, <2>3, <2>5
  <2> QED
    BY <2>1, <2>4, <2>5
<1> QED
  BY <1>2, <1>3

\* Taking one mapping out of a list.
From1(i, j) == IF j < i THEN j ELSE j + 1

LEMMA RemoveAtIsSeq ==
  ASSUME NEW s \in Seq(Mapping), NEW i \in DOMAIN s
  PROVE  /\ RemoveAt(s, i) \in Seq(Mapping)
         /\ Len(RemoveAt(s, i)) = Len(s) - 1
         /\ \A j \in 1..(Len(s) - 1) : /\ RemoveAt(s, i)[j] = s[From1(i, j)]
                                       /\ From1(i, j) \in DOMAIN s \ {i}
         /\ \A k \in DOMAIN s \ {i} : \E j \in 1..(Len(s) - 1) : From1(i, j) = k
<1>1. DOMAIN s = 1..Len(s) /\ Len(s) \in Nat /\ i \in 1..Len(s)
  OBVIOUS
<1>2. \A j \in 1..(Len(s) - 1) : From1(i, j) \in DOMAIN s \ {i}
  BY <1>1 DEF From1
<1>3. \A j \in 1..(Len(s) - 1) : RemoveAt(s, i)[j] = s[From1(i, j)]
  BY DEF RemoveAt, From1
<1>4. RemoveAt(s, i) \in [1..(Len(s) - 1) -> Mapping]
  <2>1. \A j \in 1..(Len(s) - 1) : s[From1(i, j)] \in Mapping
    BY <1>2
  <2> QED
    BY <2>1 DEF RemoveAt, From1
<1>5. RemoveAt(s, i) \in Seq(Mapping) /\ Len(RemoveAt(s, i)) = Len(s) - 1
  <2>1. Len(s) - 1 \in Nat
    BY <1>1
  <2> QED
    BY <1>4, <2>1
<1>6. ASSUME NEW k \in DOMAIN s \ {i}
      PROVE  \E j \in 1..(Len(s) - 1) : From1(i, j) = k
  <2>1. CASE k < i
    BY <1>1, <2>1 DEF From1
  <2>2. CASE k > i
    <3>1. k - 1 \in 1..(Len(s) - 1) /\ From1(i, k - 1) = k
      BY <1>1, <2>2 DEF From1
    <3> QED
      BY <3>1
  <2> QED
    BY <1>1, <2>1, <2>2
<1> QED
  BY <1>2, <1>3, <1>5, <1>6

LEMMA RemovedApart ==
  ASSUME NEW s \in Seq(Mapping), NEW i \in DOMAIN s, Apart(s)
  PROVE  /\ Apart(RemoveAt(s, i))
         /\ Covered(RemoveAt(s, i)) = Covered(s) \ Bytes(s[i].addr, End(s[i]))
<1> DEFINE t == RemoveAt(s, i)
<1>1. /\ t \in Seq(Mapping)
      /\ DOMAIN t = 1..(Len(s) - 1)
      /\ \A j \in DOMAIN t : t[j] = s[From1(i, j)] /\ From1(i, j) \in DOMAIN s \ {i}
      /\ \A k \in DOMAIN s \ {i} : \E j \in DOMAIN t : From1(i, j) = k
  BY RemoveAtIsSeq
<1> HIDE DEF t
<1>2. Apart(t)
  <2>1. \A j, k \in DOMAIN t : j # k => From1(i, j) # From1(i, k)
    BY <1>1 DEF From1
  <2> QED
    BY <1>1, <2>1 DEF Apart
<1>3. ASSUME NEW x PROVE x \in Covered(t) <=> x \in Covered(s) \ Bytes(s[i].addr, End(s[i]))
  <2>1. x \in Covered(t) <=> \E k \in DOMAIN s \ {i} : x \in Int /\ s[k].addr <= x /\ x < End(s[k])
    BY <1>1, CoveredMember
  <2>2. x \in Covered(s) <=> \E k \in DOMAIN s : x \in Int /\ s[k].addr <= x /\ x < End(s[k])
    BY CoveredMember
  <2>3. \A k \in DOMAIN s : s[k] \in Mapping
    OBVIOUS
  <2>4. \A k \in DOMAIN s \ {i} : End(s[i]) <= s[k].addr \/ End(s[k]) <= s[i].addr
    BY DEF Apart
  <2>5. x \in Bytes(s[i].addr, End(s[i])) <=> x \in Int /\ s[i].addr <= x /\ x < End(s[i])
    BY <2>3, MappingType DEF Bytes
  <2>6. \A k \in DOMAIN s : s[k].addr \in Nat /\ End(s[k]) \in Nat
    BY <2>3, MappingType
  <2>7. CASE x \notin Int
    BY <2>1, <2>2, <2>7
  <2>8. CASE x \in Int
    <3>1. \A k \in DOMAIN s \ {i} :
            s[k].addr <= x /\ x < End(s[k]) => ~(s[i].addr <= x /\ x < End(s[i]))
      BY <2>4, <2>6, <2>8
    <3> QED
      BY <2>1, <2>2, <2>5, <2>8, <3>1
  <2> QED
    BY <2>7, <2>8
<1> QED
  BY <1>2, <1>3 DEF t

\* Sorting keeps the mappings.
LEMMA SortedApart ==
  ASSUME NEW s \in Seq(Mapping), NEW t \in Sorted(s), Apart(s)
  PROVE  t \in Seq(Mapping) /\ Apart(t) /\ Covered(t) = Covered(s)
<1>1. DOMAIN s = 1..Len(s) /\ Len(s) \in Nat
  OBVIOUS
<1>2. PICK order \in Bijection(DOMAIN s, DOMAIN s) : t = [i \in DOMAIN s |-> s[order[i]]]
  BY DEF Sorted
<1>3. /\ order \in [DOMAIN s -> DOMAIN s]
      /\ \A i, j \in DOMAIN s : order[i] = order[j] => i = j
      /\ \A k \in DOMAIN s : \E i \in DOMAIN s : order[i] = k
  BY DEF Bijection, Injection, Surjection, IsInjective
<1>4. t \in Seq(Mapping) /\ DOMAIN t = DOMAIN s
  <2>1. t \in [1..Len(s) -> Mapping]
    BY <1>1, <1>2, <1>3
  <2> QED
    BY <1>1, <2>1
<1>5. Apart(t)
  <2> SUFFICES ASSUME NEW i \in DOMAIN s, NEW j \in DOMAIN s, i # j
               PROVE  End(t[i]) <= t[j].addr \/ End(t[j]) <= t[i].addr
    BY <1>4 DEF Apart
  <2>1. t[i] = s[order[i]] /\ t[j] = s[order[j]] /\ order[i] # order[j]
    BY <1>2, <1>3
  <2>2. order[i] \in DOMAIN s /\ order[j] \in DOMAIN s
    BY <1>3
  <2> QED
    BY <2>1, <2>2 DEF Apart
<1>6. ASSUME NEW x PROVE x \in Covered(t) <=> x \in Covered(s)
  BY <1>2, <1>3, <1>4, CoveredMember
<1> QED
  BY <1>4, <1>5, <1>6
\* Adding one where nothing is.
LEMMA AddedApart ==
  ASSUME NEW s \in Seq(Mapping), NEW m \in Mapping, Apart(s),
         Bytes(m.addr, End(m)) \cap Covered(s) = {}
  PROVE  /\ Append(s, m) \in Seq(Mapping)
         /\ Apart(Append(s, m))
         /\ Covered(Append(s, m)) = Covered(s) \cup Bytes(m.addr, End(m))
<1> DEFINE t == Append(s, m)
           n == Len(s) + 1
<1>1. /\ t \in Seq(Mapping) /\ DOMAIN t = DOMAIN s \cup {n} /\ n \notin DOMAIN s
      /\ t[n] = m /\ \A i \in DOMAIN s : t[i] = s[i]
  OBVIOUS
<1> HIDE DEF t, n
<1>2. ASSUME NEW i \in DOMAIN s PROVE End(s[i]) <= m.addr \/ End(m) <= s[i].addr
  <2>1. /\ s[i] \in Mapping
        /\ s[i].addr \in Nat /\ End(s[i]) \in Nat /\ s[i].addr < End(s[i])
        /\ m.addr \in Nat /\ End(m) \in Nat /\ m.addr < End(m)
    BY MappingType
  <2>2. ASSUME ~(End(s[i]) <= m.addr), ~(End(m) <= s[i].addr) PROVE FALSE
    <3> DEFINE x == IF s[i].addr < m.addr THEN m.addr ELSE s[i].addr
    <3>1. x \in Int /\ s[i].addr <= x /\ x < End(s[i]) /\ m.addr <= x /\ x < End(m)
      BY <2>1, <2>2
    <3>2. x \in Bytes(m.addr, End(m))
      BY <2>1, <3>1 DEF Bytes
    <3>3. x \in Covered(s)
      BY <3>1, CoveredMember
    <3> QED
      BY <3>2, <3>3
  <2> QED
    BY <2>2
<1>3. Apart(t)
  <2> SUFFICES ASSUME NEW j \in DOMAIN t, NEW k \in DOMAIN t, j # k
               PROVE  End(t[j]) <= t[k].addr \/ End(t[k]) <= t[j].addr
    BY DEF Apart
  <2>1. CASE j \in DOMAIN s /\ k \in DOMAIN s
    BY <1>1, <2>1 DEF Apart
  <2>2. CASE j = n /\ k \in DOMAIN s
    BY <1>1, <1>2, <2>2
  <2>3. CASE j \in DOMAIN s /\ k = n
    BY <1>1, <1>2, <2>3
  <2> QED
    BY <1>1, <2>1, <2>2, <2>3
<1>4. Covered(t) = Covered(s) \cup Bytes(m.addr, End(m))
  BY <1>1 DEF Covered
<1> QED
  BY <1>1, <1>3, <1>4 DEF t

\* Making one smaller where it is.
LEMMA ShrunkApart ==
  ASSUME NEW s \in Seq(Mapping), NEW i \in DOMAIN s, NEW m \in Mapping, Apart(s),
         s[i].addr <= m.addr, End(m) <= End(s[i])
  PROVE  /\ [s EXCEPT ![i] = m] \in Seq(Mapping)
         /\ Apart([s EXCEPT ![i] = m])
         /\ Covered([s EXCEPT ![i] = m]) =
              (Covered(s) \ Bytes(s[i].addr, End(s[i]))) \cup Bytes(m.addr, End(m))
<1> DEFINE t == [s EXCEPT ![i] = m]
<1>1. /\ t \in Seq(Mapping) /\ DOMAIN t = DOMAIN s
      /\ t[i] = m /\ \A k \in DOMAIN s \ {i} : t[k] = s[k]
  OBVIOUS
<1> HIDE DEF t
<1>2. Apart(t)
  <2> DEFINE src == [j \in DOMAIN t |-> j]
  <2>1. src \in [DOMAIN t -> DOMAIN s]
    BY <1>1
  <2>2. \A j \in DOMAIN t : s[src[j]].addr <= t[j].addr /\ End(t[j]) <= End(s[src[j]])
    <3> SUFFICES ASSUME NEW j \in DOMAIN t PROVE s[j].addr <= t[j].addr /\ End(t[j]) <= End(s[j])
      OBVIOUS
    <3>1. s[j] \in Mapping /\ s[j].addr \in Nat /\ End(s[j]) \in Nat
      BY <1>1, MappingType
    <3> QED
      BY <1>1, <3>1
  <2>3. \A j, k \in DOMAIN t : j # k /\ src[j] = src[k] =>
                               End(t[j]) <= t[k].addr \/ End(t[k]) <= t[j].addr
    OBVIOUS
  <2> HIDE DEF src
  <2> QED
    BY <1>1, <2>1, <2>2, <2>3, PiecesApart
<1>3. Covered(t) = (Covered(s) \ Bytes(s[i].addr, End(s[i]))) \cup Bytes(m.addr, End(m))
  <2> DEFINE u == RemoveAt(s, i)
  <2>1. /\ u \in Seq(Mapping) /\ DOMAIN u = 1..(Len(s) - 1)
        /\ \A j \in DOMAIN u : u[j] = s[From1(i, j)] /\ From1(i, j) \in DOMAIN s \ {i}
        /\ \A k \in DOMAIN s \ {i} : \E j \in DOMAIN u : From1(i, j) = k
    BY RemoveAtIsSeq
  <2>0. Covered(u) = Covered(s) \ Bytes(s[i].addr, End(s[i]))
    BY RemovedApart
  <2> HIDE DEF u
  <2>2. ASSUME NEW x
        PROVE  x \in Covered(u) <=> \E k \in DOMAIN s \ {i} : x \in Int /\ s[k].addr <= x /\ x < End(s[k])
    <3> DEFINE In(p) == x \in Int /\ p.addr <= x /\ x < End(p)
    <3>1. x \in Covered(u) <=> \E j \in DOMAIN u : In(u[j])
      BY <2>1, CoveredMember
    <3> HIDE DEF In
    <3>2. (\E j \in DOMAIN u : In(u[j])) <=> \E k \in DOMAIN s \ {i} : In(s[k])
      <4>1. ASSUME NEW j \in DOMAIN u, In(u[j])
            PROVE  \E k \in DOMAIN s \ {i} : In(s[k])
        <5>1. u[j] = s[From1(i, j)] /\ From1(i, j) \in DOMAIN s \ {i}
          BY <2>1
        <5> QED
          BY <4>1, <5>1
      <4>2. ASSUME NEW k \in DOMAIN s \ {i}, In(s[k])
            PROVE  \E j \in DOMAIN u : In(u[j])
        <5>1. PICK j \in DOMAIN u : From1(i, j) = k
          BY <2>1
        <5>2. u[j] = s[k]
          BY <2>1, <5>1
        <5> QED
          BY <4>2, <5>1, <5>2
      <4> QED
        BY <4>1, <4>2
    <3> QED
      BY <3>1, <3>2 DEF In
  <2>3. ASSUME NEW x
        PROVE  x \in Covered(t) <=> x \in Covered(u) \/ x \in Bytes(m.addr, End(m))
    <3>1. x \in Bytes(m.addr, End(m)) <=> x \in Int /\ m.addr <= x /\ x < End(m)
      BY MappingType DEF Bytes
    <3>2. x \in Covered(t) <=> \E k \in DOMAIN t : x \in Int /\ t[k].addr <= x /\ x < End(t[k])
      BY <1>1, CoveredMember
    <3> QED
      BY <1>1, <2>2, <3>1, <3>2
  <2> QED
    BY <2>0, <2>3
<1> QED
  BY <1>1, <1>2, <1>3 DEF t

\* Replacing one by its two ends.
LEMMA CutApart ==
  ASSUME NEW s \in Seq(Mapping), NEW i \in DOMAIN s, NEW l \in Mapping, NEW r \in Mapping,
         Apart(s), l.addr = s[i].addr, End(l) <= r.addr, End(r) = End(s[i])
  PROVE  /\ RemoveAt(s, i) \o <<l, r>> \in Seq(Mapping)
         /\ Apart(RemoveAt(s, i) \o <<l, r>>)
         /\ Covered(RemoveAt(s, i) \o <<l, r>>) =
              Covered(s) \ Bytes(End(l), r.addr)
<1> DEFINE u == RemoveAt(s, i)
<1>0. u \in Seq(Mapping) /\ Apart(u) /\ Covered(u) = Covered(s) \ Bytes(s[i].addr, End(s[i]))
  BY RemovedApart, RemoveAtIsSeq
<1> HIDE DEF u
<1>1. /\ s[i] \in Mapping /\ s[i].addr \in Nat /\ End(s[i]) \in Nat
      /\ l.addr \in Nat /\ End(l) \in Nat /\ l.addr < End(l)
      /\ r.addr \in Nat /\ End(r) \in Nat /\ r.addr < End(r)
  BY MappingType
<1>2. /\ Bytes(l.addr, End(l)) \subseteq Bytes(s[i].addr, End(s[i]))
      /\ Bytes(r.addr, End(r)) \subseteq Bytes(s[i].addr, End(s[i]))
      /\ Bytes(l.addr, End(l)) \cap Bytes(r.addr, End(r)) = {}
      /\ Bytes(s[i].addr, End(s[i])) \ Bytes(End(l), r.addr) =
           Bytes(l.addr, End(l)) \cup Bytes(r.addr, End(r))
      /\ Bytes(End(l), r.addr) \subseteq Bytes(s[i].addr, End(s[i]))
  BY <1>1 DEF Bytes
<1>3. /\ Append(u, l) \in Seq(Mapping) /\ Apart(Append(u, l))
      /\ Covered(Append(u, l)) = Covered(u) \cup Bytes(l.addr, End(l))
  <2>1. Bytes(l.addr, End(l)) \cap Covered(u) = {}
    BY <1>0, <1>2
  <2> QED
    BY <1>0, <2>1, AddedApart
<1>4. /\ Append(Append(u, l), r) \in Seq(Mapping) /\ Apart(Append(Append(u, l), r))
      /\ Covered(Append(Append(u, l), r)) =
           Covered(Append(u, l)) \cup Bytes(r.addr, End(r))
  <2>1. Bytes(r.addr, End(r)) \cap Covered(Append(u, l)) = {}
    BY <1>0, <1>2, <1>3
  <2> QED
    BY <1>3, <2>1, AddedApart
<1>5. Append(Append(u, l), r) = u \o <<l, r>>
  BY <1>0
<1>6. Bytes(s[i].addr, End(s[i])) \subseteq Covered(s)
  BY DEF Covered
<1>7. Covered(u \o <<l, r>>) = Covered(s) \ Bytes(End(l), r.addr)
  BY <1>0, <1>2, <1>3, <1>4, <1>5, <1>6
<1> QED
  BY <1>4, <1>5, <1>7 DEF u
-----------------------------------------------------------------------------
(* Pages and the CPU's memory.                                             *)

LEMMA PageArithmetic ==
  ASSUME NEW x \in Nat
  PROVE  /\ Down(x) \in Nat /\ OnPage(Down(x)) /\ Down(x) <= x
         /\ Up(x) \in Nat /\ OnPage(Up(x)) /\ x <= Up(x)
         /\ (x % Page = 0 => OnPage(x))
<1>1. Page \in Nat \ {0}
  BY TaskAssumption
<1>2. ASSUME NEW y \in Nat PROVE Down(y) \in Nat /\ Down(y) <= y /\ y < Down(y) + Page
  <2>1. y \div Page \in Nat
    BY <1>1
  <2> QED
    BY <1>1, <2>1 DEF Down
<1>3. ASSUME NEW y \in Nat PROVE OnPage(Down(y))
  <2>1. y \div Page \in Nat
    BY <1>1
  <2>2. \A k \in Nat : (Page * k) \div Page = k
    BY <1>1
  <2> QED
    BY <2>1, <2>2 DEF Down, OnPage
<1>4. x + Page - 1 \in Nat
  BY <1>1
<1>5. x = Page * (x \div Page) + (x % Page)
  BY <1>1
<1>6. x % Page = 0 => OnPage(x)
  <2>1. Page * (x \div Page) \in Int
    BY <1>1
  <2> QED
    BY <1>5, <2>1 DEF OnPage, Down
<1>7. Up(x) \in Nat /\ x <= Up(x) /\ OnPage(Up(x))
  BY <1>1, <1>2, <1>3, <1>4 DEF Up
<1> QED
  BY <1>2, <1>3, <1>6, <1>7

LEMMA PageSums ==
  ASSUME NEW x \in Nat, NEW y \in Nat, NEW z \in Nat, OnPage(x), OnPage(y), OnPage(z),
         x + (y - z) \in Nat
  PROVE  OnPage(x + (y - z))
<1>1. Page \in Nat \ {0}
  BY TaskAssumption
<1> DEFINE i == x \div Page
           j == y \div Page
           k == z \div Page
<1>2. i \in Int /\ j \in Int /\ k \in Int /\ x = Page * i /\ y = Page * j /\ z = Page * k
  BY <1>1 DEF OnPage, Down
<1> HIDE DEF i, j, k
<1>3. x + (y - z) = Page * (i + (j - k))
  BY <1>1, <1>2
<1>4. \A n \in Int : (Page * n) \div Page = n
  BY <1>1
<1> QED
  BY <1>2, <1>3, <1>4 DEF OnPage, Down

\* Two memories that agree outside a range are the same without it.
LEMMA WithoutAlike ==
  ASSUME NEW c, NEW d, NEW a, NEW e,
         DOMAIN c \ Bytes(a, e) = DOMAIN d \ Bytes(a, e),
         \A x \in DOMAIN c \ Bytes(a, e) : c[x] = d[x]
  PROVE  Without(c, a, e) = Without(d, a, e)
BY DEF Without

\* A free range is free in the CPU.
LEMMA FreeIsUncovered ==
  ASSUME tmem \in Seq(Mapping), NEW a \in Nat, NEW e \in Nat, Free(a, e)
  PROVE  Bytes(a, e) \cap Covered(tmem) = {}
<1> SUFFICES ASSUME NEW x \in Bytes(a, e), x \in Covered(tmem) PROVE FALSE
  OBVIOUS
<1>1. PICK i \in DOMAIN tmem : x \in Int /\ tmem[i].addr <= x /\ x < End(tmem[i])
  BY CoveredMember
<1>2. tmem[i] \in Mapping /\ tmem[i].addr \in Nat /\ End(tmem[i]) \in Nat
  BY MappingType
<1>3. a <= x /\ x < e
  BY DEF Bytes
<1>4. ~Hits(tmem[i], a, e)
  BY DEF Free
<1> QED
  BY <1>1, <1>2, <1>3, <1>4 DEF Hits

-----------------------------------------------------------------------------
(* One round of MemUnmap's loop.                                           *)

\* Whatever it cuts out of the list and of the CPU, if it is the same and in the
\* range, and leaves pieces of mappings on page boundaries, the invariant holds.
LEMMA CutKeepsInv ==
  ASSUME TaskInv, job.kind # "idle", UNCHANGED <<seen, brk, job>>,
         NEW X, X \subseteq Bytes(job.addr, job.end),
         tmem' \in Seq(Mapping), Apart(tmem'), Covered(tmem') = Covered(tmem) \ X,
         cpu' \in [DOMAIN cpu \ X -> Prots],
         \A x \in DOMAIN cpu \ X : cpu'[x] = cpu[x],
         \A j \in DOMAIN tmem' :
           /\ OnPage(tmem'[j].addr) /\ OnPage(End(tmem'[j]))
           /\ \E i \in DOMAIN tmem : /\ tmem[i].addr <= tmem'[j].addr
                                     /\ End(tmem'[j]) <= End(tmem[i])
  PROVE  /\ TaskInv'
         /\ \A x \in DOMAIN cpu \ Bytes(job.addr, job.end) : x \in DOMAIN cpu' /\ cpu'[x] = cpu[x]
<1>1. job # Idle
  BY DEF Idle
<1>2. DOMAIN cpu' = DOMAIN cpu \ X
  OBVIOUS
<1>3. TaskTypeOK'
  BY <1>2 DEF TaskInv, TaskTypeOK
<1>4. Disjoint'
  BY DEF Disjoint, Apart
<1>5. MappedAlike'
  BY <1>2 DEF TaskInv, MappedAlike, Covered
<1>6. Without(cpu', job.addr, job.end) = Without(cpu, job.addr, job.end)
  BY <1>2, WithoutAlike
<1>7. HooksTell'
  BY <1>1, <1>6 DEF TaskInv, HooksTell, Idle
<1>8. WholePages'
  BY DEF TaskInv, WholePages, OnPage, Down, End
<1>9. JobInOrder'
  <2>1. job.addr \in Nat
    BY DEF TaskInv, TaskTypeOK, Jobs
  <2>2. CASE job.addr <= job.end
    BY <2>2 DEF JobInOrder
  <2>3. CASE \A i \in DOMAIN tmem : job.addr <= tmem[i].addr \/ End(tmem[i]) <= job.addr
    <3> SUFFICES ASSUME NEW j \in DOMAIN tmem'
                 PROVE  job.addr <= tmem'[j].addr \/ End(tmem'[j]) <= job.addr
      BY DEF JobInOrder, End
    <3>1. PICK i \in DOMAIN tmem : tmem[i].addr <= tmem'[j].addr /\ End(tmem'[j]) <= End(tmem[i])
      OBVIOUS
    <3>2. tmem[i] \in Mapping /\ tmem'[j] \in Mapping
      BY DEF TaskInv, TaskTypeOK
    <3>3. /\ tmem[i].addr \in Nat /\ End(tmem[i]) \in Nat
          /\ tmem'[j].addr \in Nat /\ End(tmem'[j]) \in Nat
      BY <3>2, MappingType
    <3>4. job.addr <= tmem[i].addr \/ End(tmem[i]) <= job.addr
      BY <2>3
    <3> QED
      BY <2>1, <3>1, <3>3, <3>4
  <2> QED
    BY <2>2, <2>3 DEF TaskInv, JobInOrder
<1> QED
  BY <1>2, <1>3, <1>4, <1>5, <1>7, <1>8, <1>9 DEF TaskInv
\* What a round changes, for the mapping it finds: the numbers.
LEMMA Edges ==
  ASSUME NEW m \in Mapping, NEW a \in Nat, NEW e \in Nat, Hits(m, a, e)
  PROVE  /\ LeftOf(m, a, e) \in Nat /\ RightOf(m, a, e) \in Nat
         /\ LeftOf(m, a, e) \in {m.addr, e} /\ RightOf(m, a, e) \in {End(m), a}
         /\ LeftOf(m, a, e) >= RightOf(m, a, e) => a <= m.addr /\ End(m) <= e
         /\ InMiddle(m, a, e) => m.addr < a /\ a < End(m) /\ e < End(m)
         /\ LeftOf(m, a, e) < RightOf(m, a, e) =>
              /\ m.addr <= LeftOf(m, a, e) /\ RightOf(m, a, e) <= End(m)
              /\ m.addr < LeftOf(m, a, e) => a <= m.addr /\ LeftOf(m, a, e) = e
              /\ RightOf(m, a, e) < End(m) => RightOf(m, a, e) = a /\ End(m) <= e
<1>1. m.addr \in Nat /\ End(m) \in Nat /\ m.addr < End(m)
  BY MappingType
<1> DEFINE l == LeftOf(m, a, e)
           r == RightOf(m, a, e)
<1>2. l = IF a <= m.addr /\ e > m.addr THEN e ELSE m.addr
  BY DEF LeftOf
<1>3. r = IF a < End(m) /\ e >= End(m) THEN a ELSE End(m)
  BY DEF RightOf
<1>4. (a < m.addr /\ e > m.addr) \/ (a >= m.addr /\ a < End(m))
  BY DEF Hits
<1>5. InMiddle(m, a, e) <=> l < a /\ r > e
  BY DEF InMiddle
<1> HIDE DEF l, r
<1>6. l \in {m.addr, e} /\ r \in {End(m), a} /\ l \in Nat /\ r \in Nat
  BY <1>1, <1>2, <1>3
<1>7. l >= r => a <= m.addr /\ End(m) <= e
  BY <1>1, <1>2, <1>3, <1>4
<1>8. InMiddle(m, a, e) => m.addr < a /\ a < End(m) /\ e < End(m)
  BY <1>1, <1>2, <1>3, <1>4, <1>5
<1>9. l < r => /\ m.addr <= l /\ r <= End(m)
               /\ m.addr < l => a <= m.addr /\ l = e
               /\ r < End(m) => r = a /\ End(m) <= e
  BY <1>1, <1>2, <1>3, <1>4
<1> QED
  BY <1>6, <1>7, <1>8, <1>9 DEF l, r

LEMMA UnmapOneKeepsInv ==
  ASSUME TaskInv, UnmapOne
  PROVE  /\ TaskInv'
         /\ \A x \in DOMAIN cpu \ Bytes(job.addr, job.end) : x \in DOMAIN cpu' /\ cpu'[x] = cpu[x]
<1> DEFINE a == job.addr
           e == job.end
<1>1. /\ a \in Nat /\ e \in Nat /\ tmem \in Seq(Mapping) /\ cpu \in [DOMAIN cpu -> Prots]
      /\ Apart(tmem) /\ DOMAIN cpu = Covered(tmem)
  BY DEF TaskInv, TaskTypeOK, Jobs, Disjoint, MappedAlike, Apart, Covered
<1>2. /\ job.kind # "idle" /\ UNCHANGED <<seen, brk, job>>
  BY DEF UnmapOne
<1>3. PICK i \in DOMAIN tmem :
        /\ FirstHit(i, a, e)
        /\ UnmapWhole(i, a, e) \/ UnmapMiddle(i, a, e) \/ UnmapEdge(i, a, e)
  BY DEF UnmapOne
<1> DEFINE m == tmem[i]
           l == LeftOf(m, a, e)
           r == RightOf(m, a, e)
<1>4. /\ m \in Mapping /\ m.addr \in Nat /\ End(m) \in Nat /\ m.addr < End(m) /\ m.prot \in Prots
      /\ Hits(m, a, e) /\ OnPage(m.addr) /\ OnPage(End(m))
  BY <1>1, <1>3, MappingType DEF FirstHit, TaskInv, WholePages
<1>5. OnPage(a) /\ OnPage(e)
  BY DEF TaskInv, WholePages
<1>6. Bytes(m.addr, End(m)) \subseteq DOMAIN cpu
  BY <1>1 DEF Covered
<1>7. \A j \in DOMAIN tmem : OnPage(tmem[j].addr) /\ OnPage(End(tmem[j])) /\ tmem[j].addr \in Nat /\ End(tmem[j]) \in Nat
  BY <1>1, MappingType DEF TaskInv, WholePages
<1>8. CASE UnmapWhole(i, a, e)
  <2> DEFINE X == Bytes(m.addr, End(m))
  <2>1. tmem' = RemoveAt(tmem, i) /\ cpu' = Without(cpu, m.addr, End(m)) /\ l >= r
    BY <1>6, <1>8 DEF UnmapWhole, CpuUnmap
  <2>2. X \subseteq Bytes(a, e)
    BY <1>1, <1>4, <2>1, Edges DEF Bytes
  <2>3. tmem' \in Seq(Mapping) /\ Apart(tmem') /\ Covered(tmem') = Covered(tmem) \ X
    BY <1>1, <2>1, RemovedApart, RemoveAtIsSeq
  <2>4. cpu' \in [DOMAIN cpu \ X -> Prots] /\ \A x \in DOMAIN cpu \ X : cpu'[x] = cpu[x]
    BY <1>1, <2>1 DEF Without
  <2>5. ASSUME NEW j \in DOMAIN tmem'
        PROVE  /\ OnPage(tmem'[j].addr) /\ OnPage(End(tmem'[j]))
               /\ \E k \in DOMAIN tmem : tmem[k].addr <= tmem'[j].addr /\ End(tmem'[j]) <= End(tmem[k])
    <3> DEFINE u == RemoveAt(tmem, i)
    <3>1. /\ u \in Seq(Mapping) /\ Len(u) = Len(tmem) - 1
          /\ \A k \in 1..(Len(tmem) - 1) : u[k] = tmem[From1(i, k)] /\ From1(i, k) \in DOMAIN tmem
      BY <1>1, RemoveAtIsSeq
    <3>0. tmem' = u
      BY <2>1
    <3> HIDE DEF u
    <3>2. tmem'[j] = tmem[From1(i, j)] /\ From1(i, j) \in DOMAIN tmem
      BY <3>0, <3>1
    <3> QED
      BY <1>7, <3>2
  <2> HIDE DEF X
  <2> QED
    BY <1>2, <2>2, <2>3, <2>4, <2>5, CutKeepsInv
<1>9. CASE UnmapMiddle(i, a, e)
  <2> DEFINE X == Bytes(a, e)
             ml == [addr |-> m.addr, size |-> a - m.addr, prot |-> m.prot]
             mr == [addr |-> e, size |-> End(m) - e, prot |-> m.prot]
             u == RemoveAt(tmem, i)
  <2>1. InMiddle(m, a, e) /\ cpu' = CpuUnmap(cpu, a, e) /\ tmem' = u \o <<ml, mr>>
    BY <1>9 DEF UnmapMiddle
  <2>2. m.addr < a /\ a < End(m) /\ e < End(m)
    BY <1>1, <1>4, <2>1, Edges
  <2>3. a <= e
    BY <1>1, <1>4, <2>2 DEF TaskInv, JobInOrder
  <2>4. X \subseteq Bytes(m.addr, End(m))
    BY <1>1, <1>4, <2>2 DEF Bytes
  <2>5. cpu' = Without(cpu, a, e)
    BY <1>6, <2>1, <2>4 DEF CpuUnmap
  <2>6. /\ ml \in Mapping /\ mr \in Mapping
        /\ ml.addr = m.addr /\ End(ml) = a /\ mr.addr = e /\ End(mr) = End(m)
    <3>1. ml \in Mapping /\ ml.addr = m.addr /\ End(ml) = a
      BY <1>1, <1>4, <2>2, MappingFromTo
    <3>2. mr \in Mapping /\ mr.addr = e /\ End(mr) = End(m)
      BY <1>1, <1>4, <2>2, MappingFromTo
    <3> QED
      BY <3>1, <3>2
  <2> HIDE DEF ml, mr
  <2>7. tmem' \in Seq(Mapping) /\ Apart(tmem') /\ Covered(tmem') = Covered(tmem) \ X
    BY <1>1, <2>1, <2>3, <2>6, CutApart
  <2>8. cpu' \in [DOMAIN cpu \ X -> Prots] /\ \A x \in DOMAIN cpu \ X : cpu'[x] = cpu[x]
    BY <1>1, <2>5 DEF Without
  <2>9. ASSUME NEW j \in DOMAIN tmem'
        PROVE  /\ OnPage(tmem'[j].addr) /\ OnPage(End(tmem'[j]))
               /\ \E k \in DOMAIN tmem : tmem[k].addr <= tmem'[j].addr /\ End(tmem'[j]) <= End(tmem[k])
    <3>1. /\ u \in Seq(Mapping) /\ Len(u) = Len(tmem) - 1
          /\ \A k \in 1..(Len(tmem) - 1) : u[k] = tmem[From1(i, k)] /\ From1(i, k) \in DOMAIN tmem
      BY <1>1, RemoveAtIsSeq
    <3> HIDE DEF u
    <3>2. \/ j \in DOMAIN u /\ tmem'[j] = u[j]
          \/ tmem'[j] = ml
          \/ tmem'[j] = mr
      BY <2>1, <3>1
    <3>3. CASE j \in DOMAIN u /\ tmem'[j] = u[j]
      <4>1. tmem'[j] = tmem[From1(i, j)] /\ From1(i, j) \in DOMAIN tmem
        BY <3>1, <3>3
      <4> QED
        BY <1>7, <4>1
    <3>4. CASE tmem'[j] = ml
      <4>1. m.addr <= m.addr /\ a <= End(m)
        BY <1>1, <1>4, <2>2
      <4> QED
        BY <1>4, <1>5, <2>6, <3>4, <4>1
    <3>5. CASE tmem'[j] = mr
      <4>1. m.addr <= e
        BY <1>1, <1>4, <2>2, <2>3
      <4> QED
        BY <1>4, <1>5, <2>6, <3>5, <4>1
    <3> QED
      BY <3>2, <3>3, <3>4, <3>5
  <2> HIDE DEF X
  <2>10. X \subseteq Bytes(job.addr, job.end)
    BY DEF X
  <2> QED
    BY <1>2, <2>7, <2>8, <2>9, <2>10, CutKeepsInv
<1>10. CASE UnmapEdge(i, a, e)
  <2> DEFINE X == Bytes(m.addr, l) \cup Bytes(r, End(m))
             n == [addr |-> l, size |-> r - l, prot |-> m.prot]
  <2>1. /\ l < r
        /\ cpu' = CpuUnmap(CpuUnmap(cpu, m.addr, l), r, End(m))
        /\ tmem' = [tmem EXCEPT ![i] = n]
    BY <1>10 DEF UnmapEdge
  <2>2. /\ l \in Nat /\ r \in Nat /\ l \in {m.addr, e} /\ r \in {End(m), a}
        /\ m.addr <= l /\ r <= End(m)
        /\ m.addr < l => a <= m.addr /\ l = e
        /\ r < End(m) => r = a /\ End(m) <= e
    BY <1>1, <1>4, <2>1, Edges
  <2> HIDE DEF l, r
  <2>3. X \subseteq Bytes(a, e)
    <3>1. Bytes(m.addr, l) \subseteq Bytes(a, e)
      BY <1>1, <1>4, <2>2 DEF Bytes
    <3>2. Bytes(r, End(m)) \subseteq Bytes(a, e)
      BY <1>1, <1>4, <2>2 DEF Bytes
    <3> QED
      BY <3>1, <3>2
  <2>4. /\ Bytes(m.addr, l) \subseteq Bytes(m.addr, End(m))
        /\ Bytes(r, End(m)) \subseteq Bytes(m.addr, End(m)) \ Bytes(m.addr, l)
        /\ Bytes(m.addr, End(m)) \ X = Bytes(l, r)
        /\ X \subseteq Bytes(m.addr, End(m))
        /\ Bytes(l, r) \subseteq Bytes(m.addr, End(m)) \ X
    BY <1>1, <1>4, <2>1, <2>2 DEF Bytes
  <2> DEFINE c == Without(cpu, m.addr, l)
  <2>5. c \in [DOMAIN c -> Prots] /\ DOMAIN c = DOMAIN cpu \ Bytes(m.addr, l)
        /\ \A x \in DOMAIN c : c[x] = cpu[x]
    BY <1>1 DEF Without
  <2>6. CpuUnmap(cpu, m.addr, l) = c
    BY <1>6, <2>4 DEF CpuUnmap
  <2> HIDE DEF c
  <2>7. cpu' = Without(c, r, End(m))
    <3>1. Bytes(r, End(m)) \subseteq DOMAIN c
      BY <1>6, <2>4, <2>5
    <3> QED
      BY <2>1, <2>6, <3>1 DEF CpuUnmap
  <2>8. cpu' \in [DOMAIN cpu \ X -> Prots] /\ \A x \in DOMAIN cpu \ X : cpu'[x] = cpu[x]
    <3>1. DOMAIN c \ Bytes(r, End(m)) = DOMAIN cpu \ X
      BY <2>5
    <3>2. /\ cpu' \in [DOMAIN c \ Bytes(r, End(m)) -> Prots]
          /\ \A x \in DOMAIN c \ Bytes(r, End(m)) : cpu'[x] = c[x]
      BY <2>5, <2>7 DEF Without
    <3> QED
      BY <2>5, <3>1, <3>2
  <2>9. n \in Mapping /\ n.addr = l /\ End(n) = r
    BY <1>4, <2>1, <2>2, MappingFromTo
  <2> HIDE DEF n
  <2>10. /\ tmem' \in Seq(Mapping) /\ Apart(tmem')
         /\ Covered(tmem') = (Covered(tmem) \ Bytes(m.addr, End(m))) \cup Bytes(l, r)
    BY <1>1, <2>1, <2>2, <2>9, ShrunkApart
  <2>11. Covered(tmem') = Covered(tmem) \ X
    BY <1>1, <1>6, <2>4, <2>10
  <2>12. ASSUME NEW j \in DOMAIN tmem'
         PROVE  /\ OnPage(tmem'[j].addr) /\ OnPage(End(tmem'[j]))
                /\ \E k \in DOMAIN tmem : tmem[k].addr <= tmem'[j].addr /\ End(tmem'[j]) <= End(tmem[k])
    <3>1. CASE j = i
      <4>1. tmem'[j] = n
        BY <1>1, <2>1, <3>1
      <4> QED
        BY <1>4, <1>5, <2>2, <2>9, <4>1
    <3>2. CASE j # i
      <4>1. j \in DOMAIN tmem /\ tmem'[j] = tmem[j]
        BY <1>1, <2>1, <3>2
      <4> QED
        BY <1>7, <4>1
    <3> QED
      BY <3>1, <3>2
  <2> HIDE DEF X
  <2> QED
    BY <1>2, <2>3, <2>8, <2>10, <2>11, <2>12, CutKeepsInv
<1> QED
  BY <1>3, <1>8, <1>9, <1>10
-----------------------------------------------------------------------------
(* The other steps.                                                        *)

LEMMA StartUnmapKeepsInv ==
  ASSUME TaskInv, job = Idle,
         NEW k \in {"unmap", "mmap", "brk"}, NEW a \in Nat, NEW e \in Nat, NEW p \in Prots, NEW t \in Nat,
         StartUnmap(k, a, e, p, t), brk' \in Nat, OnPage(a), OnPage(e),
         \/ a <= e
         \/ \A i \in DOMAIN tmem : a <= tmem[i].addr \/ End(tmem[i]) <= a
  PROVE  TaskInv'
<1>1. /\ job' = [kind |-> k, addr |-> a, end |-> e, prot |-> p, to |-> t]
      /\ seen' = Without(seen, a, e) /\ UNCHANGED <<tmem, cpu>>
  BY DEF StartUnmap
<1>2. job' \in Jobs /\ job'.addr = a /\ job'.end = e /\ job' # Idle
  BY <1>1 DEF Jobs, Idle
<1>3. seen = cpu
  BY DEF TaskInv, HooksTell
<1>4. seen' \in [DOMAIN seen' -> Prots]
  BY <1>1 DEF TaskInv, TaskTypeOK, Without
<1>5. TaskTypeOK'
  BY <1>1, <1>2, <1>4 DEF TaskInv, TaskTypeOK
<1>6. Disjoint' /\ MappedAlike'
  BY <1>1 DEF TaskInv, Disjoint, MappedAlike, Bytes, End
<1>7. HooksTell'
  <2>1. seen' = Without(cpu, job'.addr, job'.end)
    BY <1>1, <1>2, <1>3
  <2>2. Without(cpu, job'.addr, job'.end) = Without(cpu', job'.addr, job'.end)
    BY <1>1
  <2> QED
    BY <1>2, <2>1, <2>2 DEF HooksTell, Idle
<1>8. WholePages' /\ JobInOrder'
  BY <1>1, <1>2 DEF TaskInv, WholePages, JobInOrder, OnPage, Down, End
<1> QED
  BY <1>5, <1>6, <1>7, <1>8 DEF TaskInv

\* A call that ends without mapping: in a free range there was nothing to unmap.
LEMMA EndKeepsInv ==
  ASSUME TaskInv, job # Idle, Free(job.addr, job.end), UNCHANGED <<tmem, cpu, seen, brk>>, job' = Idle
  PROVE  TaskInv'
<1>1. /\ job.addr \in Nat /\ job.end \in Nat /\ tmem \in Seq(Mapping) /\ cpu \in [DOMAIN cpu -> Prots]
      /\ DOMAIN cpu = Covered(tmem)
  BY DEF TaskInv, TaskTypeOK, Jobs, MappedAlike, Covered
<1>2. Bytes(job.addr, job.end) \cap DOMAIN cpu = {}
  BY <1>1, FreeIsUncovered
<1>3. seen = cpu
  <2>1. seen = Without(cpu, job.addr, job.end)
    BY DEF TaskInv, HooksTell
  <2> QED
    BY <1>1, <1>2, <2>1 DEF Without
<1>4. Idle \in Jobs /\ Idle.addr = 0 /\ Idle.end = 0 /\ OnPage(0)
  BY TaskAssumption, PageArithmetic DEF Idle, Jobs
<1>5. TaskTypeOK'
  BY <1>4 DEF TaskInv, TaskTypeOK
<1>6. Disjoint' /\ MappedAlike'
  BY DEF TaskInv, Disjoint, MappedAlike, Bytes, End
<1>7. HooksTell'
  BY <1>3 DEF HooksTell, Idle
<1>8. WholePages' /\ JobInOrder'
  BY <1>4 DEF TaskInv, WholePages, JobInOrder, OnPage, Down, End
<1> QED
  BY <1>5, <1>6, <1>7, <1>8 DEF TaskInv

\* Mapping, in a call that started by unmapping the range or in one that looked for
\* a free one.
LEMMA MapPageKeepsInv ==
  ASSUME TaskInv, NEW a \in Nat, NEW e \in Nat, NEW p \in Prots, OnPage(a), OnPage(e),
         MapPage(a, e, p), job' = Idle, brk' \in Nat,
         job = Idle \/ (job.addr = a /\ job.end = e)
  PROVE  TaskInv'
<1> DEFINE m == [addr |-> a, size |-> e - a, prot |-> p]
<1>1. /\ tmem \in Seq(Mapping) /\ cpu \in [DOMAIN cpu -> Prots] /\ seen \in [DOMAIN seen -> Prots]
      /\ DOMAIN cpu \subseteq Nat /\ Apart(tmem) /\ DOMAIN cpu = Covered(tmem)
  BY DEF TaskInv, TaskTypeOK, Disjoint, MappedAlike, Apart, Covered
<1>2. /\ a < e /\ Bytes(a, e) \cap DOMAIN cpu = {}
      /\ cpu' = With(cpu, a, e, p) /\ seen' = With(seen, a, e, p)
      /\ tmem' \in Sorted(Append(tmem, m))
  BY DEF MapPage, CpuMaps
<1>3. m \in Mapping /\ m.addr = a /\ End(m) = e
  BY <1>2, MappingFromTo
<1> HIDE DEF m
<1>4. /\ Append(tmem, m) \in Seq(Mapping) /\ Apart(Append(tmem, m))
      /\ Covered(Append(tmem, m)) = DOMAIN cpu \cup Bytes(a, e)
  BY <1>1, <1>2, <1>3, AddedApart
<1>5. tmem' \in Seq(Mapping) /\ Apart(tmem') /\ Covered(tmem') = DOMAIN cpu \cup Bytes(a, e)
  BY <1>2, <1>4, SortedApart
<1>6. seen' = cpu'
  <2>1. CASE job = Idle
    BY <1>2, <2>1 DEF TaskInv, HooksTell
  <2>2. CASE job # Idle
    <3>1. seen = Without(cpu, a, e)
      BY <2>2 DEF TaskInv, HooksTell
    <3>2. seen = cpu
      BY <1>1, <1>2, <3>1 DEF Without
    <3> QED
      BY <1>2, <3>2
  <2> QED
    BY <2>1, <2>2
<1>7. /\ cpu' \in [DOMAIN cpu' -> Prots] /\ DOMAIN cpu' = DOMAIN cpu \cup Bytes(a, e)
      /\ DOMAIN cpu' \subseteq Nat
  <2>1. Bytes(a, e) \subseteq Nat
    BY DEF Bytes
  <2> QED
    BY <1>1, <1>2, <2>1 DEF With
<1>8. Idle \in Jobs /\ Idle.addr = 0 /\ Idle.end = 0 /\ OnPage(0)
  BY TaskAssumption, PageArithmetic DEF Idle, Jobs
<1>9. TaskTypeOK'
  BY <1>5, <1>6, <1>7, <1>8 DEF TaskInv, TaskTypeOK
<1>10. Disjoint' /\ MappedAlike'
  BY <1>5, <1>7 DEF Disjoint, MappedAlike, Apart, Covered
<1>11. HooksTell'
  BY <1>6 DEF HooksTell, Idle
<1>12. \A j \in DOMAIN tmem' : OnPage(tmem'[j].addr) /\ OnPage(End(tmem'[j]))
  <2>1. \A j \in DOMAIN Append(tmem, m) :
          OnPage(Append(tmem, m)[j].addr) /\ OnPage(End(Append(tmem, m)[j]))
    <3>1. \A j \in DOMAIN tmem : OnPage(tmem[j].addr) /\ OnPage(End(tmem[j]))
      BY DEF TaskInv, WholePages
    <3>2. \A j \in DOMAIN Append(tmem, m) :
            \/ Append(tmem, m)[j] = m
            \/ j \in DOMAIN tmem /\ Append(tmem, m)[j] = tmem[j]
      BY <1>1, <1>3
    <3> QED
      BY <1>3, <3>1, <3>2
  <2>2. \A j \in DOMAIN tmem' : \E i \in DOMAIN Append(tmem, m) : tmem'[j] = Append(tmem, m)[i]
    BY <1>2 DEF Sorted, Bijection, Injection
  <2> QED
    BY <2>1, <2>2
<1>13. WholePages' /\ JobInOrder'
  BY <1>8, <1>12 DEF WholePages, JobInOrder, OnPage, Down, End
<1> QED
  BY <1>9, <1>10, <1>11, <1>13 DEF TaskInv
LEMMA MemProtKeepsInv ==
  ASSUME TaskInv, NEW a \in Nat, NEW n \in Nat, NEW p \in Prots, MemProt(a, n, p)
  PROVE  TaskInv'
<1> DEFINE lo == Down(a)
           hi == Up(a + n)
<1>1. /\ tmem \in Seq(Mapping) /\ cpu \in [DOMAIN cpu -> Prots] /\ DOMAIN cpu \subseteq Nat
      /\ seen = cpu
  BY DEF TaskInv, TaskTypeOK, HooksTell, MemProt
<1>2. /\ job = Idle /\ UNCHANGED <<brk, job>>
      /\ tmem' = [i \in DOMAIN tmem |->
                    IF FirstHit(i, lo, hi) THEN [tmem[i] EXCEPT !.prot = p] ELSE tmem[i]]
      /\ \/ Bytes(lo, hi) \subseteq DOMAIN cpu /\ cpu' = With(cpu, lo, hi, p) /\ seen' = With(seen, lo, hi, p)
         \/ UNCHANGED <<cpu, seen>>
  BY DEF MemProt
<1> HIDE DEF lo, hi
<1>3. \A i \in DOMAIN tmem : [tmem[i] EXCEPT !.prot = p] \in Mapping /\ tmem[i] \in Mapping
  <2> SUFFICES ASSUME NEW m \in Mapping PROVE [m EXCEPT !.prot = p] \in Mapping
    BY <1>1
  <2> QED
    BY DEF Mapping
<1>4. /\ DOMAIN tmem' = DOMAIN tmem
      /\ \A i \in DOMAIN tmem :
           /\ tmem'[i] \in Mapping /\ tmem'[i].addr = tmem[i].addr /\ End(tmem'[i]) = End(tmem[i])
  BY <1>2, <1>3 DEF End, Mapping
<1>5. tmem' \in Seq(Mapping)
  <2>1. tmem' \in [1..Len(tmem) -> Mapping]
    BY <1>1, <1>2, <1>3
  <2> QED
    BY <1>1, <2>1
<1>6. /\ cpu' \in [DOMAIN cpu' -> Prots] /\ DOMAIN cpu' = DOMAIN cpu /\ seen' = cpu'
  BY <1>1, <1>2 DEF With
<1>7. TaskTypeOK'
  BY <1>1, <1>2, <1>5, <1>6 DEF TaskInv, TaskTypeOK
<1>8. Disjoint'
  BY <1>4 DEF TaskInv, Disjoint
<1>9. MappedAlike'
  BY <1>4, <1>6 DEF TaskInv, MappedAlike
<1>10. HooksTell'
  BY <1>2, <1>6 DEF HooksTell
<1>11. WholePages' /\ JobInOrder'
  BY <1>2, <1>4 DEF TaskInv, WholePages, JobInOrder, OnPage, Down
<1> QED
  BY <1>7, <1>8, <1>9, <1>10, <1>11 DEF TaskInv

LEMMA BrkKeepsInv ==
  ASSUME TaskInv, NEW a \in Nat, Brk(a)
  PROVE  TaskInv'
<1>1. /\ brk \in Nat /\ tmem \in Seq(Mapping) /\ job = Idle /\ a >= brk /\ HeapProt \in Prots
      /\ Apart(tmem)
  BY TaskAssumption DEF TaskInv, TaskTypeOK, Brk, Disjoint, Apart
<1>2. ASSUME NEW start \in Nat, NEW p \in Prots, BrkFrom(start, p, a),
             start <= a \/ (OnPage(start) /\ \A i \in DOMAIN tmem : start <= tmem[i].addr \/ End(tmem[i]) <= start)
      PROVE  TaskInv'
  <2>1. brk' = start
    BY <1>2 DEF BrkFrom
  <2>2. CASE UNCHANGED <<tmem, cpu, seen, job>>
    BY <2>1, <2>2 DEF TaskInv, TaskTypeOK, Disjoint, MappedAlike, HooksTell, WholePages, JobInOrder,
                      OnPage, Down, End, Bytes, Without
  <2>3. CASE StartUnmap("brk", Down(start), Up(a), p, a)
    <3>1. /\ Down(start) \in Nat /\ OnPage(Down(start)) /\ Down(start) <= start
          /\ Up(a) \in Nat /\ OnPage(Up(a)) /\ a <= Up(a)
      BY PageArithmetic
    <3>2. \/ Down(start) <= Up(a)
          \/ \A i \in DOMAIN tmem : Down(start) <= tmem[i].addr \/ End(tmem[i]) <= Down(start)
      BY <1>2, <3>1 DEF OnPage
    <3> QED
      BY <1>1, <2>1, <2>3, <3>1, <3>2, StartUnmapKeepsInv
  <2> QED
    BY <1>2, <2>2, <2>3 DEF BrkFrom
<1>3. CASE Free(brk, brk + 1) /\ BrkFrom(brk, HeapProt, a)
  BY <1>1, <1>2, <1>3
<1>4. ASSUME NEW i \in DOMAIN tmem, BrkFrom(End(tmem[i]), tmem[i].prot, a)
      PROVE  TaskInv'
  <2>1. End(tmem[i]) \in Nat /\ tmem[i].prot \in Prots /\ OnPage(End(tmem[i]))
    BY <1>1, MappingType DEF TaskInv, WholePages
  <2>2. ASSUME NEW j \in DOMAIN tmem
        PROVE  End(tmem[i]) <= tmem[j].addr \/ End(tmem[j]) <= End(tmem[i])
    <3>1. /\ tmem[j].addr \in Nat /\ End(tmem[j]) \in Nat /\ tmem[j].addr < End(tmem[j])
          /\ tmem[i].addr \in Nat /\ End(tmem[i]) \in Nat /\ tmem[i].addr < End(tmem[i])
      BY <1>1, MappingType
    <3>2. CASE i = j
      BY <3>1, <3>2
    <3>3. CASE i # j
      <4>1. End(tmem[i]) <= tmem[j].addr \/ End(tmem[j]) <= tmem[i].addr
        BY <1>1, <3>3 DEF Apart
      <4> QED
        BY <3>1, <4>1
    <3> QED
      BY <3>2, <3>3
  <2> QED
    BY <1>2, <1>4, <2>1, <2>2
<1> QED
  BY <1>3, <1>4 DEF Brk

LEMMA InitTaskInv == Init => TaskInv
<1> SUFFICES ASSUME Init PROVE TaskInv
  OBVIOUS
<1>1. Idle \in Jobs /\ Idle.addr = 0 /\ Idle.end = 0 /\ OnPage(0)
  BY TaskAssumption, PageArithmetic DEF Idle, Jobs
<1>2. /\ tmem = <<>> /\ DOMAIN cpu = {} /\ cpu \in [{} -> Prots] /\ seen = cpu /\ job = Idle /\ brk \in Nat
  BY TaskAssumption DEF Init
<1>3. TaskTypeOK
  BY <1>1, <1>2 DEF TaskTypeOK
<1>4. Disjoint /\ MappedAlike /\ HooksTell
  BY <1>2 DEF Disjoint, MappedAlike, HooksTell
<1>5. WholePages /\ JobInOrder
  BY <1>1, <1>2 DEF WholePages, JobInOrder
<1> QED
  BY <1>3, <1>4, <1>5 DEF TaskInv

LEMMA NextKeepsInv ==
  ASSUME TaskInv, [Next]_vars
  PROVE  TaskInv'
<1>1. CASE UnmapOne
  BY <1>1, UnmapOneKeepsInv
<1>2. CASE UnmapDone
  BY <1>2, EndKeepsInv DEF UnmapDone, Idle
<1>3. CASE MapFixed
  <2>1. /\ job \in Jobs /\ brk \in Nat /\ OnPage(job.addr) /\ OnPage(job.end)
    BY DEF TaskInv, TaskTypeOK, WholePages
  <2>2. job.addr \in Nat /\ job.end \in Nat /\ job.prot \in Prots /\ job.to \in Nat
    BY <2>1 DEF Jobs
  <2>3. MapPage(job.addr, job.end, job.prot) /\ job' = Idle /\ brk' \in Nat
    BY <1>3, <2>1, <2>2 DEF MapFixed
  <2> QED
    BY <2>1, <2>2, <2>3, MapPageKeepsInv
<1>4. CASE MapFails
  BY <1>4, EndKeepsInv DEF MapFails, Idle
<1>5. ASSUME NEW a \in Addrs, Brk(a) PROVE TaskInv'
  BY <1>5, BrkKeepsInv, TaskAssumption
<1>6. ASSUME NEW a \in Addrs, NEW n \in Sizes PROVE /\ a \in Nat /\ n \in Nat /\ a + n \in Nat
                                               /\ Down(a) \in Nat /\ Up(a + n) \in Nat
                                               /\ OnPage(Down(a)) /\ OnPage(Up(a + n))
                                               /\ Down(a) <= Up(a + n)
  <2>1. a \in Nat /\ n \in Nat /\ a + n \in Nat /\ a <= a + n
    BY TaskAssumption
  <2>2. Down(a) \in Nat /\ OnPage(Down(a)) /\ Down(a) <= a
    BY <2>1, PageArithmetic
  <2>3. Up(a + n) \in Nat /\ OnPage(Up(a + n)) /\ a + n <= Up(a + n)
    BY <2>1, PageArithmetic
  <2> QED
    BY <2>1, <2>2, <2>3
<1>7. ASSUME NEW a \in Addrs, NEW n \in Sizes, MemUnmap(a, n) PROVE TaskInv'
  BY <1>6, <1>7, StartUnmapKeepsInv, TaskAssumption DEF MemUnmap, TaskInv, TaskTypeOK
<1>8. ASSUME NEW a \in Addrs, NEW n \in Sizes, NEW p \in Prots, Mmap(a, n, p) PROVE TaskInv'
  BY <1>6, <1>8, StartUnmapKeepsInv DEF Mmap, TaskInv, TaskTypeOK
<1>9. ASSUME NEW a \in Addrs, NEW n \in Sizes, NEW p \in Prots, MmapAnywhere(a, n, p) PROVE TaskInv'
  <2> DEFINE size == Up(a + n) - Down(a)
             hint == IF Down(a) = 0 THEN Down(Base) ELSE Down(a)
  <2>1. size \in Nat
    BY <1>6
  <2>2. hint \in Nat
    BY <1>6, PageArithmetic, TaskAssumption
  <2>3. PICK i \in hint..Top : Reserves(i, hint, size) /\ MapPage(i, i + size, p)
    BY <1>9 DEF MmapAnywhere
  <2>4. i \in Nat /\ OnPage(i)
    BY <2>2, <2>3, PageArithmetic DEF Reserves
  <2>5. i + size \in Nat /\ OnPage(i + size)
    <3>1. /\ Up(a + n) \in Nat /\ Down(a) \in Nat /\ OnPage(Up(a + n)) /\ OnPage(Down(a))
      BY <1>6
    <3>2. i + (Up(a + n) - Down(a)) \in Nat
      BY <2>1, <2>4
    <3> QED
      BY <2>4, <3>1, <3>2, PageSums
  <2>6. job = Idle /\ job' = Idle /\ brk' \in Nat
    BY <1>9 DEF MmapAnywhere, TaskInv, TaskTypeOK
  <2> QED
    BY <2>3, <2>4, <2>5, <2>6, MapPageKeepsInv
<1>10. ASSUME NEW a \in Addrs, NEW n \in Sizes, NEW p \in Prots, MemProt(a, n, p) PROVE TaskInv'
  BY <1>6, <1>10, MemProtKeepsInv
<1>11. CASE UNCHANGED vars
  BY <1>11 DEF vars, TaskInv, TaskTypeOK, Disjoint, MappedAlike, HooksTell, WholePages, JobInOrder,
               OnPage, Down, End, Bytes, Without
<1> QED
  BY <1>1, <1>2, <1>3, <1>4, <1>5, <1>7, <1>8, <1>9, <1>10, <1>11 DEF Next

-----------------------------------------------------------------------------
(* The theorems.                                                           *)

\* The inductive invariant of the address space (task.go:51-208, usercorn.go:554-574).
THEOREM TaskInvariant == Spec => []TaskInv
<1>1. TaskInv /\ [Next]_vars => TaskInv'
  BY NextKeepsInv
<1> QED
  BY InitTaskInv, <1>1, PTL DEF Spec

\* The list, the CPU and the call in progress have their types: what is left of a
\* mapping is never empty (task.go:120-156).
THEOREM TaskTypeCorrect == Spec => []TaskTypeOK
<1>1. TaskInv => TaskTypeOK
  BY DEF TaskInv
<1> QED
  BY TaskInvariant, <1>1, PTL

\* No address is in two mappings of the list, not even while one is being cut up.
THEOREM MappingsAreDisjoint == Spec => []Disjoint
<1>1. TaskInv => Disjoint
  BY DEF TaskInv
<1> QED
  BY TaskInvariant, <1>1, PTL

\* The list and the CPU agree on what is mapped.
THEOREM ListIsWhatIsMapped == Spec => []MappedAlike
<1>1. TaskInv => MappedAlike
  BY DEF TaskInv
<1> QED
  BY TaskInvariant, <1>1, PTL

\* A listener of the map hooks knows the CPU's memory.
THEOREM HooksTellAll == Spec => []HooksTell
<1>1. TaskInv => HooksTell
  BY DEF TaskInv
<1> QED
  BY TaskInvariant, <1>1, PTL

\* Unmapping changes nothing outside its range.
THEOREM UnmapKeepsTheRest == Spec => KeepsTheRest
<1>1. TaskInv /\ [Next]_vars =>
        [UnmapOne => \A x \in DOMAIN cpu \ Bytes(job.addr, job.end) :
                       x \in DOMAIN cpu' /\ cpu'[x] = cpu[x]]_vars
  BY UnmapOneKeepsInv
<1> QED
  BY TaskInvariant, <1>1, PTL DEF Spec, KeepsTheRest

-----------------------------------------------------------------------------
(* The program break.                                                      *)

\* A page boundary not below an address is not below the end of its page.
LEMMA UpIsLeast ==
  ASSUME NEW x \in Nat, NEW y \in Nat, OnPage(y), x <= y
  PROVE  Up(x) <= y
<1>1. Page \in Nat \ {0}
  BY TaskAssumption
<1> DEFINE n == x + Page - 1
           q == n \div Page
           k == y \div Page
<1>2. n \in Nat /\ q \in Nat /\ k \in Nat /\ y = Page * k /\ n < y + Page
  BY <1>1 DEF OnPage, Down
<1>3. Page * q <= n
  BY <1>1, <1>2
<1>4. Up(x) = Page * q
  BY DEF Up, Down
<1> HIDE DEF n, q, k
<1>5. Page * q < Page * (k + 1)
  BY <1>1, <1>2, <1>3
<1>6. q < k + 1
  BY <1>1, <1>2, <1>5
<1>7. q <= k
  BY <1>2, <1>6
<1> QED
  BY <1>1, <1>2, <1>4, <1>7

\* What Brk does at once.
LEMMA BrkStep ==
  ASSUME TaskInv, NEW a \in Nat, Brk(a)
  PROVE  /\ BrkInv'
         /\ brk' # brk => brk' > brk /\ Bytes(brk, brk') \subseteq DOMAIN cpu'
<1>1. /\ brk \in Nat /\ tmem \in Seq(Mapping) /\ job = Idle /\ a >= brk
      /\ DOMAIN cpu = Covered(tmem)
  BY DEF TaskInv, TaskTypeOK, Brk, MappedAlike, Covered
<1>2. ASSUME NEW start \in Nat, NEW p, BrkFrom(start, p, a), start < a \/ OnPage(start) \/ start = a
      PROVE  BrkInv' /\ cpu' = cpu /\ brk' = start
  <2>1. brk' = start /\ cpu' = cpu
    BY <1>2 DEF BrkFrom, StartUnmap
  <2>2. CASE a = start
    BY <1>1, <1>2, <2>1, <2>2 DEF BrkFrom, BrkInv, Idle
  <2>3. CASE a # start
    <3>1. job' = [kind |-> "brk", addr |-> Down(start), end |-> Up(a), prot |-> p, to |-> a]
      BY <1>2, <2>3 DEF BrkFrom, StartUnmap
    <3>2. /\ Down(start) \in Nat /\ Down(start) <= start
          /\ Up(a) \in Nat /\ a <= Up(a)
      BY PageArithmetic
    <3>3. a > start \/ Up(a) <= Down(start)
      <4>1. CASE a > start
        BY <4>1
      <4>2. CASE a <= start
        <5>1. OnPage(start)
          BY <1>2, <2>3, <4>2
        <5>2. Up(a) <= start
          BY <4>2, <5>1, UpIsLeast
        <5> QED
          BY <5>1, <5>2 DEF OnPage
      <4> QED
        BY <1>2, <4>1, <4>2
    <3> QED
      BY <2>1, <3>1, <3>2, <3>3 DEF BrkInv
  <2> QED
    BY <2>1, <2>2, <2>3
<1>3. CASE Free(brk, brk + 1) /\ BrkFrom(brk, HeapProt, a)
  BY <1>1, <1>2, <1>3
<1>4. ASSUME NEW i \in DOMAIN tmem, FirstHit(i, brk, brk + 1), BrkFrom(End(tmem[i]), tmem[i].prot, a)
      PROVE  /\ BrkInv'
             /\ brk' > brk /\ Bytes(brk, brk') \subseteq DOMAIN cpu'
  <2>1. tmem[i].addr \in Nat /\ End(tmem[i]) \in Nat /\ OnPage(End(tmem[i]))
    BY <1>1, MappingType DEF TaskInv, WholePages
  <2>2. BrkInv' /\ cpu' = cpu /\ brk' = End(tmem[i])
    BY <1>2, <1>4, <2>1
  <2>3. tmem[i].addr <= brk /\ brk < End(tmem[i])
    BY <1>1, <1>4, <2>1 DEF FirstHit, Hits
  <2>4. Bytes(brk, End(tmem[i])) \subseteq Bytes(tmem[i].addr, End(tmem[i]))
    BY <1>1, <2>1, <2>3 DEF Bytes
  <2>5. Bytes(tmem[i].addr, End(tmem[i])) \subseteq DOMAIN cpu
    BY <1>1 DEF Covered
  <2> QED
    BY <2>2, <2>3, <2>4, <2>5
<1> QED
  BY <1>3, <1>4 DEF Brk

LEMMA NextMovesBrk ==
  ASSUME TaskInv, BrkInv, [Next]_vars
  PROVE  /\ BrkInv'
         /\ brk' # brk => brk' > brk /\ Bytes(brk, brk') \subseteq DOMAIN cpu'
<1>1. CASE UnmapOne
  BY <1>1 DEF UnmapOne, BrkInv
<1>2. CASE UnmapDone
  BY <1>2 DEF UnmapDone, BrkInv, Idle
<1>3. CASE MapFixed
  <2>1. /\ brk \in Nat /\ job.addr \in Nat /\ job.end \in Nat /\ job.to \in Nat
    BY DEF TaskInv, TaskTypeOK, Jobs
  <2>2. job' = Idle /\ brk' = IF job.kind = "brk" THEN job.to ELSE brk
    BY <1>3 DEF MapFixed
  <2>3. BrkInv'
    BY <2>2 DEF BrkInv, Idle
  <2>4. job.addr < job.end /\ cpu' = With(cpu, job.addr, job.end, job.prot)
    BY <1>3 DEF MapFixed, MapPage, CpuMaps
  <2>5. Bytes(job.addr, job.end) \subseteq DOMAIN cpu'
    BY <2>4 DEF With
  <2>6. CASE job.kind = "brk"
    <3>1. job.addr <= brk /\ job.to <= job.end /\ job.to > brk
      BY <2>1, <2>4, <2>6 DEF BrkInv
    <3>2. Bytes(brk, job.to) \subseteq Bytes(job.addr, job.end)
      BY <2>1, <3>1 DEF Bytes
    <3> QED
      BY <2>2, <2>3, <2>5, <2>6, <3>1, <3>2
  <2> QED
    BY <2>2, <2>3, <2>6
<1>4. CASE MapFails
  BY <1>4 DEF MapFails, BrkInv, Idle
<1>5. ASSUME NEW a \in Addrs, Brk(a)
      PROVE  BrkInv' /\ (brk' # brk => brk' > brk /\ Bytes(brk, brk') \subseteq DOMAIN cpu')
  BY <1>5, BrkStep, TaskAssumption
<1>6. ASSUME NEW a \in Addrs, NEW n \in Sizes, NEW p \in Prots,
             MemUnmap(a, n) \/ Mmap(a, n, p) \/ MmapAnywhere(a, n, p) \/ MemProt(a, n, p)
      PROVE  BrkInv' /\ brk' = brk
  BY <1>6 DEF MemUnmap, Mmap, MmapAnywhere, MemProt, StartUnmap, BrkInv, Idle
<1>7. CASE UNCHANGED vars
  BY <1>7 DEF vars, BrkInv
<1>8. ASSUME NEW a \in Addrs, NEW n \in Sizes, MemUnmap(a, n)
      PROVE  BrkInv' /\ brk' = brk
  BY <1>8 DEF MemUnmap, StartUnmap, BrkInv
<1>9. UnmapOne \/ UnmapDone \/ MapFails => brk' = brk
  BY DEF UnmapOne, UnmapDone, MapFails
<1>10. UNCHANGED vars => brk' = brk
  BY DEF vars
<1> QED
  BY <1>1, <1>2, <1>3, <1>4, <1>5, <1>6, <1>7, <1>8, <1>9, <1>10 DEF Next

\* The break moves only up, and only over memory that is mapped.
THEOREM BrkOverMemory == Spec => BrkIsMapped
<1>1. Init => BrkInv
  BY DEF Init, BrkInv, Idle
<1>2. TaskInv /\ BrkInv /\ [Next]_vars => BrkInv'
  BY NextMovesBrk
<1>3. TaskInv /\ BrkInv /\ [Next]_vars =>
        [brk' # brk => brk' > brk /\ Bytes(brk, brk') \subseteq DOMAIN cpu']_vars
  BY NextMovesBrk
<1> QED
  BY TaskInvariant, <1>1, <1>2, <1>3, PTL DEF Spec, BrkIsMapped
=============================================================================
