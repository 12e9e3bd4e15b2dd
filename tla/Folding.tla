------------------------------ MODULE Folding ------------------------------
(***************************************************************************)
(* What FoldLeft comes to: the last of a chain of values, each made from   *)
(* the one before and the next member of the sequence.  Op is what is      *)
(* folded; Keeps(b, r) is said of a fold's start and a value of its chain, *)
(* and Fine(x) of the sequence's members.  A module that folds has an      *)
(* instance for each operator and relation.                                *)
(***************************************************************************)
EXTENDS Integers, SequencesExt, WellFoundedInduction, TLAPS

CONSTANTS Op(_, _), Keeps(_, _), Fine(_)

Fold(b, s) == FoldLeft(Op, b, s)
Chain(h, b, s, n) == h[0] = b /\ \A k \in 0..(n - 1) : h[k + 1] = Op(h[k], s[k + 1])
Joined(s, n, t, m, u) ==   \* u is s and t behind it, of the lengths n and m
  /\ DOMAIN s = 1..n /\ DOMAIN t = 1..m /\ DOMAIN u = 1..(n + m)
  /\ (\A i \in 1..n : u[i] = s[i]) /\ \A j \in 1..m : u[n + j] = t[j]

-----------------------------------------------------------------------------
(* The function that FoldLeft is defined by is on sets of indices.         *)

At(g, b, s, t) == IF t = {} THEN b ELSE Op(g[t \ {Max(t)}], s[Max(t)])
IsIter(g, b, s, n) == g = [t \in SUBSET (1..n) |-> At(g, b, s, t)]

\* The greatest of a set of numbers up to a bound.
LEMMA GreatestOf ==
  ASSUME NEW n \in Nat, NEW t \in SUBSET (1..n), t # {}
  PROVE  Max(t) \in t /\ \A x \in t : x <= Max(t)
<1> DEFINE D == {n - x : x \in t}
<1>1. D \subseteq Nat /\ D # {}
  <2>1. \A x \in t : x \in Int /\ x <= n
    OBVIOUS
  <2>2. \A x \in t : n - x \in Nat
    BY <2>1
  <2> QED
    BY <2>2
<1>2. PICK d \in D : \A e \in D : ~ (<<e, d>> \in OpToRel(<, Nat))
  BY <1>1, NatLessThanWellFounded, WFMin, Zenon
<1>3. \A e \in D : ~ (e < d)
  BY <1>1, <1>2 DEF OpToRel
<1>4. PICK m \in t : d = n - m
  OBVIOUS
<1>5. ASSUME NEW x \in t
      PROVE  x <= m
  <2>1. n - x \in D
    OBVIOUS
  <2>2. ~ (n - x < n - m) /\ x \in Int /\ m \in Int
    BY <1>3, <1>4, <2>1
  <2> QED
    BY <2>2
<1> QED
  BY <1>5 DEF Max

LEMMA GreatestOfFirst ==
  ASSUME NEW k \in Nat
  PROVE  1..(k + 1) # {} /\ Max(1..(k + 1)) = k + 1 /\ (1..(k + 1)) \ {k + 1} = 1..k
<1> DEFINE t == 1..(k + 1)
<1>1. k + 1 \in t /\ k + 1 \in Nat /\ t \in SUBSET (1..(k + 1)) /\ t # {} /\ \A x \in t : x \in Int /\ x <= k + 1
  OBVIOUS
<1>2. t \ {k + 1} = 1..k
  OBVIOUS
<1> HIDE DEF t
<1>3. Max(t) \in t /\ \A x \in t : x <= Max(t)
  BY ONLY <1>1, GreatestOf
<1>4. Max(t) = k + 1
  <2> DEFINE m == Max(t)
  <2>1. m \in Int /\ m <= k + 1 /\ k + 1 <= m
    BY <1>1, <1>3
  <2> HIDE DEF m
  <2>2. m = k + 1
    BY <2>1
  <2> QED
    BY <2>2 DEF m
<1> QED
  BY <1>1, <1>2, <1>4 DEF t

\* A function for one index more.
LEMMA IterGrows ==
  ASSUME NEW b, NEW s, NEW n \in Nat, NEW g, IsIter(g, b, s, n)
  PROVE  \E h : IsIter(h, b, s, n + 1)
<1> DEFINE h == [t \in SUBSET (1..(n + 1)) |->
                   IF n + 1 \in t THEN Op(g[t \ {n + 1}], s[n + 1]) ELSE g[t]]
<1>1. ASSUME NEW t \in SUBSET (1..(n + 1)), n + 1 \in t
      PROVE  h[t] = At(h, b, s, t)
  <2>1. Max(t) = n + 1
    <3>1. n + 1 \in Nat /\ t # {}
      BY <1>1
    <3> HIDE DEF h
    <3>2. Max(t) \in t /\ n + 1 <= Max(t)
      BY <1>1, <3>1, GreatestOf
    <3>3. Max(t) \in 1..(n + 1)
      BY <3>2
    <3> QED
      BY <3>2, <3>3
  <2>2. t \ {n + 1} \in SUBSET (1..(n + 1)) /\ n + 1 \notin t \ {n + 1}
    OBVIOUS
  <2>3. h[t \ {n + 1}] = g[t \ {n + 1}] /\ h[t] = Op(g[t \ {n + 1}], s[n + 1])
    BY <1>1, <2>2
  <2> HIDE DEF h
  <2> QED
    BY <1>1, <2>1, <2>3 DEF At
<1>2. ASSUME NEW t \in SUBSET (1..(n + 1)), n + 1 \notin t
      PROVE  h[t] = At(h, b, s, t)
  <2>1. t \in SUBSET (1..n)
    BY <1>2
  <2>2. h[t] = g[t] /\ g[t] = At(g, b, s, t)
    BY <1>2, <2>1 DEF IsIter
  <2>3. ASSUME t # {}
        PROVE  h[t \ {Max(t)}] = g[t \ {Max(t)}]
    <3>1. t \ {Max(t)} \in SUBSET (1..(n + 1)) /\ n + 1 \notin t \ {Max(t)}
      BY <1>2
    <3> QED
      BY <3>1
  <2> HIDE DEF h
  <2> QED
    BY <2>2, <2>3 DEF At
<1>3. h = [t \in SUBSET (1..(n + 1)) |-> h[t]]
  OBVIOUS
<1> HIDE DEF h
<1>4. IsIter(h, b, s, n + 1)
  BY <1>1, <1>2, <1>3 DEF IsIter
<1> QED
  BY <1>4

LEMMA IterExists ==
  ASSUME NEW b, NEW s, NEW n \in Nat
  PROVE  \E g : IsIter(g, b, s, n)
<1> DEFINE Bad == {k \in Nat : ~ \E g : IsIter(g, b, s, k)}
<1> SUFFICES ASSUME Bad # {}
             PROVE  FALSE
  OBVIOUS
<1>1. PICK k \in Bad : \A j \in Bad : ~ (<<j, k>> \in OpToRel(<, Nat))
  BY NatLessThanWellFounded, WFMin, Zenon
<1>2. \A j \in Bad : ~ (j < k)
  BY <1>1 DEF OpToRel
<1>3. k # 0
  <2> DEFINE g == [t \in SUBSET (1..0) |-> b]
  <2>1. SUBSET (1..0) = {{}}
    OBVIOUS
  <2>2. g = [t \in SUBSET (1..0) |-> At(g, b, s, t)]
    BY <2>1 DEF At
  <2>3. IsIter(g, b, s, 0)
    BY <2>2 DEF IsIter
  <2> QED
    BY <2>3
<1>4. k - 1 \in Nat /\ k - 1 < k /\ k - 1 + 1 = k
  BY <1>3
<1>5. PICK g : IsIter(g, b, s, k - 1)
  BY <1>2, <1>4
<1>6. \E h : IsIter(h, b, s, k)
  BY <1>4, <1>5, IterGrows
<1> QED
  BY <1>6

-----------------------------------------------------------------------------
(* Chains.                                                                 *)

\* A fold is the end of a chain.
THEOREM FoldIsChain ==
  ASSUME NEW b, NEW s, NEW n \in Nat, DOMAIN s = 1..n
  PROVE  \E h : Chain(h, b, s, n) /\ Fold(b, s) = h[n]
<1> DEFINE iter == CHOOSE g : IsIter(g, b, s, n)
           h == [k \in 0..n |-> iter[1..k]]
<1>1. IsIter(iter, b, s, n)
  BY IterExists, Zenon
<1>2. Fold(b, s) = iter[1..n]
  BY DEF Fold, FoldLeft, MapThenFoldSet, IsIter, At
<1> HIDE DEF iter
<1>3. h[0] = b
  <2>1. 1..0 = {}
    OBVIOUS
  <2>2. iter[{}] = b
    BY <1>1 DEF IsIter, At
  <2> QED
    BY <2>1, <2>2
<1>4. ASSUME NEW k \in 0..(n - 1)
      PROVE  h[k + 1] = Op(h[k], s[k + 1])
  <2>1. 1..(k + 1) \in SUBSET (1..n) /\ k \in 0..n /\ k + 1 \in 0..n /\ k \in Nat
    OBVIOUS
  <2>2. iter[1..(k + 1)] = At(iter, b, s, 1..(k + 1))
    BY <1>1, <2>1 DEF IsIter
  <2>3. iter[1..(k + 1)] = Op(iter[1..k], s[k + 1])
    BY <2>1, <2>2, GreatestOfFirst DEF At
  <2> QED
    BY <2>1, <2>3
<1>5. h[n] = iter[1..n]
  OBVIOUS
<1> HIDE DEF h
<1>6. Chain(h, b, s, n) /\ Fold(b, s) = h[n]
  BY <1>2, <1>3, <1>4, <1>5 DEF Chain
<1> QED
  BY <1>6

\* Two chains over the same members are the same.
LEMMA ChainsAgree ==
  ASSUME NEW b, NEW s, NEW n \in Nat, NEW h, NEW g, Chain(h, b, s, n), Chain(g, b, s, n)
  PROVE  \A k \in 0..n : h[k] = g[k]
<1>0. h[0] = g[0] /\ \A k \in 0..(n - 1) : h[k + 1] = Op(h[k], s[k + 1]) /\ g[k + 1] = Op(g[k], s[k + 1])
  BY DEF Chain
<1> DEFINE Bad == {k \in 0..n : h[k] # g[k]}
<1> SUFFICES ASSUME Bad # {}
             PROVE  FALSE
  OBVIOUS
<1>1. Bad \subseteq Nat
  OBVIOUS
<1>2. PICK k \in Bad : \A j \in Bad : ~ (<<j, k>> \in OpToRel(<, Nat))
  BY <1>1, NatLessThanWellFounded, WFMin, Zenon
<1>3. \A j \in Bad : ~ (j < k)
  BY <1>1, <1>2 DEF OpToRel
<1>4. k # 0 /\ k \in 0..n /\ h[k] # g[k]
  BY <1>0
<1>5. k - 1 \in 0..(n - 1) /\ k - 1 \in 0..n /\ k - 1 < k /\ (k - 1) + 1 = k
  BY <1>4
<1>6. h[k - 1] = g[k - 1]
  BY <1>3, <1>5
<1>7. h[(k - 1) + 1] = g[(k - 1) + 1]
  BY <1>0, <1>5, <1>6
<1> QED
  BY <1>4, <1>5, <1>7

THEOREM FoldOfNone ==
  ASSUME NEW b, NEW s, DOMAIN s = 1..0
  PROVE  Fold(b, s) = b
BY FoldIsChain DEF Chain

THEOREM FoldOfOne ==
  ASSUME NEW b, NEW s, DOMAIN s = 1..1
  PROVE  Fold(b, s) = Op(b, s[1])
<1>1. PICK h : Chain(h, b, s, 1) /\ Fold(b, s) = h[1]
  BY FoldIsChain
<1>2. h[0] = b /\ h[0 + 1] = Op(h[0], s[0 + 1])
  BY <1>1 DEF Chain
<1> QED
  BY <1>1, <1>2

\* A fold over u, which is s and behind it t.
THEOREM FoldGoesOn ==
  ASSUME NEW b, NEW s, NEW n \in Nat, NEW t, NEW m \in Nat, NEW u, Joined(s, n, t, m, u)
  PROVE  Fold(b, u) = Fold(Fold(b, s), t)
<1> DEFINE c == Fold(b, s)
<1> USE DEF Joined
<1> HIDE DEF c
<1>1. PICK h : Chain(h, b, u, n + m) /\ Fold(b, u) = h[n + m]
  <2>1. n + m \in Nat
    OBVIOUS
  <2> QED
    BY <2>1, FoldIsChain
<1>2. PICK g : Chain(g, b, s, n) /\ c = g[n]
  BY FoldIsChain DEF c
<1>3. PICK f : Chain(f, c, t, m) /\ Fold(c, t) = f[m]
  BY FoldIsChain
<1>4. h[0] = b /\ \A k \in 0..(n + m - 1) : h[k + 1] = Op(h[k], u[k + 1])
  BY <1>1 DEF Chain
<1>5. h[n] = g[n]
  <2>1. ASSUME NEW k \in 0..(n - 1)
        PROVE  h[k + 1] = Op(h[k], s[k + 1])
    <3>1. k \in 0..(n + m - 1) /\ k + 1 \in 1..n
      OBVIOUS
    <3>2. h[k + 1] = Op(h[k], u[k + 1]) /\ u[k + 1] = s[k + 1]
      BY <1>4, <3>1
    <3> QED
      BY <3>2
  <2>2. Chain(h, b, s, n)
    BY <1>4, <2>1 DEF Chain
  <2>3. \A k \in 0..n : h[k] = g[k]
    <3>1. n \in Nat /\ Chain(h, b, s, n) /\ Chain(g, b, s, n)
      BY <1>2, <2>2
    <3> QED
      BY <3>1, ChainsAgree
  <2> QED
    BY <2>3
<1>6. h[n + m] = f[m]
  <2> DEFINE e == [k \in 0..m |-> h[n + k]]
  <2>1. e[0] = h[n] /\ e[m] = h[n + m]
    OBVIOUS
  <2>2. ASSUME NEW k \in 0..(m - 1)
        PROVE  e[k + 1] = Op(e[k], t[k + 1])
    <3>1. n + k \in 0..(n + m - 1) /\ k + 1 \in 1..m /\ k \in 0..m /\ k + 1 \in 0..m /\ (n + k) + 1 = n + (k + 1)
      OBVIOUS
    <3>2. e[k + 1] = h[n + (k + 1)] /\ e[k] = h[n + k]
      BY <3>1
    <3> HIDE DEF e
    <3>3. h[(n + k) + 1] = Op(h[n + k], u[(n + k) + 1])
      BY <1>4, <3>1
    <3>4. u[n + (k + 1)] = t[k + 1]
      BY <3>1
    <3> QED
      BY <3>1, <3>2, <3>3, <3>4
  <2> HIDE DEF e
  <2>3. e[0] = c
    BY <1>2, <1>5, <2>1
  <2>4. Chain(e, c, t, m)
    BY <2>2, <2>3 DEF Chain
  <2>5. \A k \in 0..m : e[k] = f[k]
    <3>1. m \in Nat /\ Chain(e, c, t, m) /\ Chain(f, c, t, m)
      BY <1>3, <2>4
    <3> QED
      BY <3>1, ChainsAgree
  <2> QED
    BY <2>1, <2>5
<1> QED
  BY <1>1, <1>3, <1>6 DEF c

\* Whatever chain there is ends in the fold.
THEOREM FoldIs ==
  ASSUME NEW b, NEW s, NEW n \in Nat, DOMAIN s = 1..n, NEW g, Chain(g, b, s, n)
  PROVE  Fold(b, s) = g[n]
<1>1. PICK h : Chain(h, b, s, n) /\ Fold(b, s) = h[n]
  BY FoldIsChain
<1>2. n \in Nat /\ Chain(h, b, s, n) /\ Chain(g, b, s, n)
  BY <1>1
<1>3. \A k \in 0..n : h[k] = g[k]
  BY <1>2, ChainsAgree
<1> QED
  BY <1>1, <1>3

\* What a step of the fold keeps, the chain keeps.
THEOREM ChainKeeps ==
  ASSUME NEW b, NEW s, NEW n \in Nat, DOMAIN s = 1..n, NEW h, Chain(h, b, s, n),
         Keeps(b, b), \A i \in 1..n : Fine(s[i]),
         \A r, x : Keeps(b, r) /\ Fine(x) => Keeps(b, Op(r, x))
  PROVE  \A k \in 0..n : Keeps(b, h[k])
<1>2. h[0] = b /\ \A k \in 0..(n - 1) : h[k + 1] = Op(h[k], s[k + 1])
  BY DEF Chain
<1> DEFINE Bad == {k \in 0..n : ~Keeps(b, h[k])}
<1>3. Bad = {}
  <2> SUFFICES ASSUME Bad # {}
               PROVE  FALSE
    OBVIOUS
  <2>1. Bad \subseteq Nat
    OBVIOUS
  <2>2. PICK k \in Bad : \A j \in Bad : ~ (<<j, k>> \in OpToRel(<, Nat))
    BY <2>1, NatLessThanWellFounded, WFMin, Zenon
  <2>3. \A j \in Bad : ~ (j < k)
    BY <2>1, <2>2 DEF OpToRel
  <2>4. k # 0 /\ k \in 0..n /\ ~Keeps(b, h[k])
    BY <1>2
  <2>5. k - 1 \in 0..(n - 1) /\ k - 1 \in 0..n /\ k - 1 < k /\ (k - 1) + 1 = k /\ k \in 1..n
    BY <2>4
  <2>6. Keeps(b, h[k - 1])
    BY <2>3, <2>5
  <2>7. h[k] = Op(h[k - 1], s[k]) /\ Fine(s[k])
    BY <1>2, <2>5
  <2>8. Keeps(b, h[k])
    BY <2>6, <2>7
  <2> QED
    BY <2>4, <2>8
<1> QED
  BY <1>3

\* And so does the fold.
THEOREM FoldKeeps ==
  ASSUME NEW b, NEW s, NEW n \in Nat, DOMAIN s = 1..n,
         Keeps(b, b), \A i \in 1..n : Fine(s[i]),
         \A r, x : Keeps(b, r) /\ Fine(x) => Keeps(b, Op(r, x))
  PROVE  Keeps(b, Fold(b, s))
<1>1. PICK h : Chain(h, b, s, n) /\ Fold(b, s) = h[n]
  BY FoldIsChain
<1>2. \A k \in 0..n : Keeps(b, h[k])
  <2>1. Chain(h, b, s, n)
    BY <1>1
  <2> QED
    BY <2>1, ChainKeeps
<1> QED
  BY <1>1, <1>2
=============================================================================
