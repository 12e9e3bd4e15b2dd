----------------------------- MODULE TraceProofs -----------------------------
(***************************************************************************)
(* That the replay of a trace counts each instruction once, and has the    *)
(* memory and the registers of the machine when what waits is applied,     *)
(* wherever Main is stopped and once it has been rewound, for any          *)
(* registers, memory, code and kernels.                                    *)
(*                                                                         *)
(* What is fed is folded: the lemmas say of each operation what it does to *)
(* a recorder or a replay, and Folding what a sequence of them does.       *)
(***************************************************************************)
EXTENDS Trace, PageListsProofs, FiniteSetTheorems, TLAPS

\* Operations that wait for a step, and all that the callbacks are given.
Calm ==
  {Other} \cup {Reg(n, v) : n \in Regs, v \in Values}
  \cup {MemMapOp(r, p) : r \in {s \in Spans : s[1] < s[2]}, p \in Prots}
  \cup {MemUnmapOp(r) : r \in Spans}
  \cup {MemProtOp(r, p) : r \in Spans, p \in Prots}
  \cup UNION {{MemWriteOp(r, d) : d \in {s \in Seq(Byte) : Len(s) = Size(r)}} : r \in Spans}
Jumps == {Jmp(a) : a \in Nat \ {0}}
Fed == Calm \cup {Step} \cup Jumps \cup {Syscall(ops) : ops \in Seq(Calm)}
Keyframes == {Keyframe(ops) : ops \in Seq(Calm)}

Call == [pc : Nat, sp : Nat]
Falling(stack) == \A i, j \in DOMAIN stack : i < j => stack[i].sp > stack[j].sp
Calls == {stack \in Seq(Call) : Falling(stack)}
ReplayType ==
  [pc : Nat, regs : [Regs -> Values], pages : Seq(Page), stack : Calls,
   inscount : Nat, pending : BOOLEAN, effects : Seq(Calm)]
TraceType ==
  [frame : Seq(Fed), insys : BOOLEAN, sysops : Seq(Calm), step : BOOLEAN, stepAddr : Nat,
   known : [Regs -> Values], sent : Seq(Fed), packed : Seq({Frame(ops) : ops \in Seq(Fed)})]

-----------------------------------------------------------------------------
(* Pages, whether they are apart or not.                                   *)

LEMMA FlattenIsSeq ==
  ASSUME NEW S, NEW ss \in Seq(Seq(S))
  PROVE  FlattenSeq(ss) \in Seq(S)
<1>1. Len(ss) \in Nat /\ DOMAIN ss = 1..Len(ss) /\ \A i \in DOMAIN ss : ss[i] \in Seq(S)
  OBVIOUS
<1>2. CASE Len(ss) = 0
  <2>1. ss = <<>>
    BY <1>2
  <2>2. FlattenSeq(ss) = ss
    BY <1>2 DEF FlattenSeq
  <2>3. <<>> \in Seq(S)
    OBVIOUS
  <2> QED
    BY <2>1, <2>2, <2>3
<1>3. CASE Len(ss) # 0
  <2>1. PICK f : Joins(ss, Len(ss), f) /\ FlattenSeq(ss) = f[Len(ss)]
    BY <1>1, <1>3, FlattenJoins
  <2> DEFINE Wrong == {n \in 1..Len(ss) : f[n] \notin Seq(S)}
  <2>2. ASSUME Wrong # {}
        PROVE  FALSE
    <3>1. Wrong \subseteq Nat
      OBVIOUS
    <3>2. PICK n \in Wrong : \A m \in Wrong : n <= m
      BY <2>2, <3>1, LeastIs
    <3>3. n \in 1..Len(ss) /\ f[n] \notin Seq(S)
      BY <3>2
    <3>4. f[n] = IF n = 1 THEN ss[n] ELSE f[n - 1] \o ss[n]
      BY <2>1, <3>3 DEF Joins
    <3>5. ss[n] \in Seq(S)
      BY <1>1, <3>3
    <3>6. n # 1
      BY <3>3, <3>4, <3>5
    <3>7. n - 1 \in 1..Len(ss) /\ ~(n <= n - 1)
      BY <1>1, <3>3, <3>6
    <3>8. f[n - 1] \in Seq(S)
      BY <3>2, <3>7
    <3> QED
      BY <3>3, <3>4, <3>5, <3>6, <3>8
  <2>3. Len(ss) \notin Wrong /\ Len(ss) \in 1..Len(ss)
    BY <1>1, <1>3, <2>2
  <2> QED
    BY <2>1, <2>3
<1> QED
  BY <1>2, <1>3

LEMMA UnmappedArePages ==
  ASSUME NEW pages \in Seq(Page), NEW r \in Spans
  PROVE  UnmappedPages(pages, r) \in Seq(Page)
<1> DEFINE ss == [i \in DOMAIN pages |-> Cut(pages[i], r, <<>>)]
<1>1. DOMAIN pages = 1..Len(pages) /\ Len(pages) \in Nat /\ \A i \in DOMAIN pages : pages[i] \in Page
  OBVIOUS
<1>2. \A i \in DOMAIN pages : Cut(pages[i], r, <<>>) \in Seq(Page)
  BY <1>1, CutUnmaps
<1>3. ss \in Seq(Seq(Page))
  BY <1>1, <1>2
<1>4. UnmappedPages(pages, r) = FlattenSeq(ss)
  BY DEF UnmappedPages
<1> HIDE DEF ss
<1> QED
  BY <1>3, <1>4, FlattenIsSeq

LEMMA ProtectedArePages ==
  ASSUME NEW pages \in Seq(Page), NEW r \in Spans, NEW prot \in Prots
  PROVE  ProtectedPages(pages, r, prot) \in Seq(Page)
<1> DEFINE ss == [i \in DOMAIN pages |-> Recut(pages[i], r, prot)]
<1>1. DOMAIN pages = 1..Len(pages) /\ Len(pages) \in Nat /\ \A i \in DOMAIN pages : pages[i] \in Page
  OBVIOUS
<1>2. \A i \in DOMAIN pages : Recut(pages[i], r, prot) \in Seq(Page)
  BY <1>1, CutProtects
<1>3. ss \in Seq(Seq(Page))
  BY <1>1, <1>2
<1>4. ProtectedPages(pages, r, prot) = FlattenSeq(ss)
  BY DEF ProtectedPages, Recut
<1> HIDE DEF ss
<1> QED
  BY <1>3, <1>4, FlattenIsSeq

LEMMA WrittenArePages ==
  ASSUME NEW pages \in Seq(Page), NEW r \in Spans, NEW bytes \in Seq(Byte), Len(bytes) = Size(r)
  PROVE  WrittenPages(pages, r, bytes) \in Seq(Page)
<1> DEFINE data(k) == WrittenData(pages, k, r, bytes)
<1>1. DOMAIN pages = 1..Len(pages) /\ Len(pages) \in Nat /\ \A i \in DOMAIN pages : pages[i] \in Page
  OBVIOUS
<1>2. r[1] \in Nat /\ r[2] \in Nat /\ Len(bytes) = r[2] - r[1]
  BY DEF Spans, Size
<1>3. ASSUME NEW k \in DOMAIN pages
      PROVE  [pages[k] EXCEPT !.data = data(k)] \in Page
  <2> DEFINE p == pages[k]
  <2>1. p \in Page
    BY <1>1
  <2> HIDE DEF p
  <2>2. p.addr \in Nat /\ p.data \in Seq(Byte) /\ Len(p.data) = p.size /\ DOMAIN p.data = 1..p.size
    BY <2>1, PageHas
  <2>3. ASSUME NEW x \in Nat, r[1] <= x, x < r[2]
        PROVE  bytes[x - r[1] + 1] \in Byte
    BY <1>2, <2>3
  <2>4. \A i \in 1..p.size : p.data[i] \in Byte /\ p.addr + i - 1 \in Nat
    BY <2>2
  <2>5. data(k) = [i \in 1..p.size |->
                     LET x == p.addr + i - 1 IN
                     IF r[1] <= x /\ x < r[2] /\ PageOf(pages, r, x) = k THEN bytes[x - r[1] + 1] ELSE p.data[i]]
    BY <2>2 DEF WrittenData, p
  <2>6. data(k) \in [1..p.size -> Byte]
    BY <2>3, <2>4, <2>5
  <2>7. data(k) \in Seq(Byte) /\ Len(data(k)) = p.size
    <3> HIDE DEF data
    <3>1. p.size \in Nat
      BY <2>1, PageHas
    <3> QED
      BY <2>6, <3>1
  <2> HIDE DEF data
  <2>8. [p EXCEPT !.data = data(k)] \in Page
    BY <2>1, <2>7 DEF Page
  <2> QED
    BY <2>8 DEF p
<1>4. WrittenPages(pages, r, bytes) = [k \in DOMAIN pages |-> [pages[k] EXCEPT !.data = data(k)]]
  BY DEF WrittenPages, WrittenData
<1> HIDE DEF data
<1>5. WrittenPages(pages, r, bytes) \in [1..Len(pages) -> Page]
  BY <1>1, <1>3, <1>4
<1> QED
  BY <1>1, <1>5

LEMMA MappedArePages ==
  ASSUME NEW pages \in Seq(Page), NEW r \in Spans, r[1] < r[2], NEW prot \in Prots
  PROVE  Mapped(pages, r, prot) \in Seq(Page)
<1> DEFINE rest == IF RangeMapped(pages, r) THEN UnmappedPages(pages, r) ELSE pages
           before == {k \in DOMAIN rest : rest[k].addr < r[1]}
           page == [addr |-> r[1], size |-> Size(r), prot |-> prot, data |-> [i \in 1..Size(r) |-> 0]]
<1>1. rest \in Seq(Page)
  BY UnmappedArePages
<1> HIDE DEF rest
<1>2. Len(rest) \in Nat /\ DOMAIN rest = 1..Len(rest)
  BY <1>1
<1>3. page \in Page
  <2>1. r[1] \in Nat /\ r[2] \in Nat /\ Size(r) \in Nat \ {0}
    BY DEF Spans, Size
  <2>2. [i \in 1..Size(r) |-> 0] \in Seq(Byte) /\ Len([i \in 1..Size(r) |-> 0]) = Size(r)
    BY <2>1, TraceAssumption
  <2> QED
    BY <2>1, <2>2 DEF Page
<1>4. Max({0} \cup before) \in 0..Len(rest)
  <2> DEFINE S == {0} \cup before
  <2>1. S \subseteq Nat /\ S # {} /\ \A n \in S : n \in 0..Len(rest) /\ n <= Len(rest)
    BY <1>2
  <2> HIDE DEF S
  <2>2. \E m \in S : \A n \in S : n <= m
    BY <1>2, <2>1, GreatestIs
  <2>3. Max(S) \in S
    BY <2>2 DEF Max
  <2> QED
    BY <2>1, <2>3 DEF S
<1> HIDE DEF before, page
<1>5. InsertAt(rest, Max({0} \cup before) + 1, page) \in Seq(Page)
  <2> DEFINE i == Max({0} \cup before) + 1
  <2>1. i \in 1..(Len(rest) + 1)
    BY <1>2, <1>4
  <2> HIDE DEF i
  <2>2. SubSeq(rest, 1, i - 1) \in Seq(Page) /\ SubSeq(rest, i, Len(rest)) \in Seq(Page)
    BY <1>1, <1>2, <2>1
  <2>3. InsertAt(rest, i, page) = SubSeq(rest, 1, i - 1) \o <<page>> \o SubSeq(rest, i, Len(rest))
    BY DEF InsertAt
  <2>4. <<page>> \in Seq(Page)
    BY <1>3
  <2>5. InsertAt(rest, i, page) \in Seq(Page)
    BY <2>2, <2>3, <2>4
  <2> QED
    BY <2>5 DEF i
<1> QED
  BY <1>5 DEF Mapped, rest, before, page

-----------------------------------------------------------------------------
(* One operation.                                                          *)

\* The call stack stays a sequence of calls, each below the one before.
LEMMA CallsAreCalls ==
  ASSUME NEW stack \in Calls, NEW at0 \in Nat, NEW sp \in Nat
  PROVE  CallsUpdate(stack, at0, sp) \in Calls
<1> DEFINE n == Len(stack)
           S == {0} \cup {k \in DOMAIN stack : sp <= stack[k].sp}
           new == [pc |-> at0, sp |-> sp]
<1>1. stack \in Seq(Call) /\ n \in Nat /\ DOMAIN stack = 1..n
  BY DEF Calls
<1>2. new \in Call /\ new.sp = sp
  BY DEF Call
<1>3. \A i \in 1..n : stack[i] \in Call /\ stack[i].sp \in Nat
  <2>1. \A i \in 1..n : stack[i] \in Call
    BY <1>1
  <2> QED
    BY <2>1 DEF Call
<1>4. \A i, j \in 1..n : i < j => stack[i].sp > stack[j].sp
  BY <1>1 DEF Calls, Falling
<1>5. stack # <<>> => n \in 1..n /\ Last(stack) = stack[n]
  BY <1>1 DEF Last
<1> HIDE DEF n, new
<1>6. ASSUME stack = <<>> \/ sp < Last(stack).sp
      PROVE  Append(stack, new) \in Calls
  <2> DEFINE t == Append(stack, new)
  <2>1. t \in Seq(Call) /\ DOMAIN t = 1..(n + 1) /\ t[n + 1] = new /\ \A i \in 1..n : t[i] = stack[i]
    BY <1>1, <1>2 DEF n
  <2> HIDE DEF t
  <2>2. \A i \in 1..n : stack[i].sp > sp
    <3> SUFFICES ASSUME NEW i \in 1..n
                 PROVE  stack[i].sp > sp
      OBVIOUS
    <3>1. stack # <<>>
      BY <1>1
    <3>2. i \in Nat /\ n \in 1..n /\ (i = n \/ i < n) /\ sp < stack[n].sp /\ stack[n].sp \in Nat /\ stack[i].sp \in Nat
      BY <1>1, <1>3, <1>5, <1>6, <3>1
    <3> QED
      BY <1>4, <3>2
  <2>3. \A i, j \in 1..(n + 1) : i < j => i \in 1..n /\ (j \in 1..n \/ j = n + 1)
    BY <1>1
  <2> QED
    BY <1>2, <1>4, <2>1, <2>2, <2>3 DEF Calls, Falling, t
<1>7. ASSUME stack # <<>>, sp = Last(stack).sp
      PROVE  [stack EXCEPT ![Len(stack)].pc = at0] \in Calls
  <2> DEFINE t == [stack EXCEPT ![Len(stack)].pc = at0]
  <2>1. stack[n] \in Call /\ n \in 1..n
    BY <1>3, <1>5, <1>7
  <2>2. [stack[n] EXCEPT !.pc = at0] \in Call /\ [stack[n] EXCEPT !.pc = at0].sp = stack[n].sp
    BY <2>1 DEF Call
  <2>3. t = [stack EXCEPT ![n] = [stack[n] EXCEPT !.pc = at0]]
    BY DEF n
  <2> HIDE DEF t
  <2>4. t \in Seq(Call) /\ DOMAIN t = 1..n /\ \A i \in 1..n : t[i].sp = stack[i].sp
    BY <1>1, <2>1, <2>2, <2>3
  <2> QED
    BY <1>4, <2>4 DEF Calls, Falling, t
<1>8. SubSeq(stack, 1, Max(S)) \in Calls
  <2>1. S \subseteq Nat /\ S # {} /\ \A k \in S : k \in 0..n /\ k <= n
    BY <1>1
  <2> HIDE DEF S
  <2>2. \E m \in S : \A k \in S : k <= m
    BY <1>1, <2>1, GreatestIs
  <2>3. Max(S) \in S
    BY <2>2 DEF Max
  <2> DEFINE m == Max(S)
             t == SubSeq(stack, 1, m)
  <2>4. m \in 0..n
    BY <2>1, <2>3
  <2> HIDE DEF m
  <2>5. t \in Seq(Call) /\ DOMAIN t = 1..m /\ \A i \in 1..m : t[i] = stack[i] /\ i \in 1..n
    BY <1>1, <2>4 DEF n
  <2> HIDE DEF t
  <2> QED
    <3>1. \A i, j \in 1..m : i < j => t[i].sp > t[j].sp
      BY <1>4, <2>5
    <3> QED
      BY <2>5, <3>1 DEF Calls, Falling, t, m
<1> HIDE DEF S
<1>9. CallsUpdate(stack, at0, sp) =
        IF stack = <<>> \/ sp < Last(stack).sp THEN Append(stack, new)
        ELSE IF sp = Last(stack).sp THEN [stack EXCEPT ![Len(stack)].pc = at0]
        ELSE SubSeq(stack, 1, Max(S))
  BY DEF CallsUpdate, S, new
<1> QED
  BY <1>6, <1>7, <1>8, <1>9, Zenon

LEMMA RememberedArePages ==
  ASSUME NEW pages \in Seq(Page), NEW op \in Calm, op.op \notin {"other", "reg"}
  PROVE  Remembered(pages, op) \in Seq(Page)
<1>1. CASE op \in {MemMapOp(r, p) : r \in {s \in Spans : s[1] < s[2]}, p \in Prots}
  <2>1. op.op = "map" /\ op.range \in Spans /\ op.range[1] < op.range[2] /\ op.prot \in Prots
    BY <1>1 DEF MemMapOp
  <2> QED
    BY <2>1, MappedArePages DEF Remembered
<1>2. CASE op \in {MemUnmapOp(r) : r \in Spans}
  <2>1. op.op = "unmap" /\ op.range \in Spans
    BY <1>2 DEF MemUnmapOp
  <2> QED
    BY <2>1, UnmappedArePages DEF Remembered
<1>3. CASE op \in {MemProtOp(r, p) : r \in Spans, p \in Prots}
  <2>1. op.op = "prot" /\ op.range \in Spans /\ op.prot \in Prots
    BY <1>3 DEF MemProtOp
  <2> QED
    BY <2>1, ProtectedArePages DEF Remembered
<1>4. CASE op \in UNION {{MemWriteOp(r, d) : d \in {s \in Seq(Byte) : Len(s) = Size(r)}} : r \in Spans}
  <2>1. PICK r \in Spans : \E d \in {s \in Seq(Byte) : Len(s) = Size(r)} : op = MemWriteOp(r, d)
    BY <1>4
  <2>2. op.op = "write" /\ op.range \in Spans /\ op.data \in Seq(Byte) /\ Len(op.data) = Size(op.range)
    BY <2>1 DEF MemWriteOp
  <2> QED
    BY <2>2, WrittenArePages DEF Remembered
<1>5. op # Other /\ op \notin {Reg(n, v) : n \in Regs, v \in Values}
  BY DEF Other, Reg
<1> QED
  BY <1>1, <1>2, <1>3, <1>4, <1>5 DEF Calm

\* An operation that waits changes neither pc nor what is counted or waits.
Same(a, b) ==
  /\ a \in ReplayType /\ b \in ReplayType
  /\ b.pc = a.pc /\ b.inscount = a.inscount /\ b.pending = a.pending /\ b.effects = a.effects

LEMMA CalmUpdate ==
  ASSUME NEW r \in ReplayType, NEW op \in Calm
  PROVE  Same(r, Update(r, op))
<1>1. op.op \notin {"jmp", "step"}
  BY DEF Calm, Other, Reg, MemMapOp, MemUnmapOp, MemProtOp, MemWriteOp
<1>2. CASE op.op = "other"
  <2>1. Update(r, op) = r
    BY <1>2 DEF Update
  <2> QED
    BY <2>1 DEF Same
<1>3. CASE op.op = "reg"
  <2>1. op.num \in Regs /\ op.val \in Values /\ op.val \in Nat
    <3>1. op \in {Reg(n, v) : n \in Regs, v \in Values}
      BY <1>3 DEF Calm, Other, Reg, MemMapOp, MemUnmapOp, MemProtOp, MemWriteOp
    <3> QED
      BY <3>1, TraceAssumption DEF Reg
  <2> DEFINE stack == IF op.num = SP THEN CallsUpdate(r.stack, r.pc, op.val) ELSE r.stack
             regs == [r.regs EXCEPT ![op.num] = op.val]
  <2>2. r.stack \in Calls /\ r.pc \in Nat /\ r.regs \in [Regs -> Values]
    BY DEF ReplayType
  <2>3. stack \in Calls /\ regs \in [Regs -> Values]
    BY <2>1, <2>2, CallsAreCalls
  <2>4. Update(r, op) = [r EXCEPT !.regs = regs, !.stack = stack]
    BY <1>3 DEF Update
  <2> HIDE DEF stack, regs
  <2> QED
    BY <2>3, <2>4 DEF ReplayType, Same
<1>4. CASE op.op \notin {"other", "reg"}
  <2>1. Remembered(r.pages, op) \in Seq(Page)
    BY <1>4, RememberedArePages DEF ReplayType
  <2>2. Update(r, op) = [r EXCEPT !.pages = Remembered(r.pages, op)]
    BY <1>1, <1>4 DEF Update
  <2> QED
    BY <2>1, <2>2 DEF ReplayType, Same
<1> QED
  BY <1>2, <1>3, <1>4

Upd == INSTANCE Folding WITH Op <- Update, Keeps <- Same, Fine <- LAMBDA x : x \in Calm

LEMMA CalmUpdates ==
  ASSUME NEW r \in ReplayType, NEW ops \in Seq(Calm)
  PROVE  Same(r, UpdateAll(r, ops))
<1>1. UpdateAll(r, ops) = Upd!Fold(r, ops)
  BY DEF UpdateAll, Upd!Fold, FoldLeft, MapThenFoldSet, Upd!FoldLeft, Upd!MapThenFoldSet, Max, Upd!Max
<1>2. DOMAIN ops = 1..Len(ops) /\ Len(ops) \in Nat /\ \A i \in 1..Len(ops) : ops[i] \in Calm
  OBVIOUS
<1>3. Same(r, r)
  BY DEF Same
<1>4. \A a, x : Same(r, a) /\ x \in Calm => Same(r, Update(a, x))
  <2> SUFFICES ASSUME NEW a, NEW x \in Calm, Same(r, a)
               PROVE  Same(r, Update(a, x))
    OBVIOUS
  <2>1. Same(a, Update(a, x))
    BY CalmUpdate DEF Same
  <2> QED
    BY <2>1 DEF Same
<1>5. Same(r, Upd!Fold(r, ops))
  BY <1>2, <1>3, <1>4, Upd!FoldKeeps
<1> QED
  BY <1>1, <1>5

-----------------------------------------------------------------------------
(* Feeding.                                                                *)

Idle(r) == r \in ReplayType /\ ~r.pending
Stays(a, b) == Idle(a) /\ Idle(b) /\ b.pc = a.pc /\ b.inscount = a.inscount
GoesOn(a, b) == Idle(a) /\ Idle(b) /\ a.inscount <= b.inscount /\ (a.pc # 0 => b.pc # 0)

LEMMA FlushIdle ==
  ASSUME NEW r, Idle(r)
  PROVE  Flush(r) = r
  BY DEF Idle, Flush

\* What waited for a step is applied with it, and the step counted.
LEMMA FlushPending ==
  ASSUME NEW r \in ReplayType, r.pending
  PROVE  Idle(Flush(r)) /\ Flush(r).pc = r.pc + 1 /\ Flush(r).inscount = r.inscount + 1
<1> DEFINE p == Update(r, Step)
           q == [p EXCEPT !.inscount = @ + 1, !.pending = FALSE, !.effects = <<>>]
<1>1. p \in ReplayType /\ p.pc = r.pc + 1 /\ p.inscount = r.inscount
  <2>1. p = [r EXCEPT !.pc = @ + 1]
    BY DEF Update, Step
  <2>2. r.pc + 1 \in Nat
    BY DEF ReplayType
  <2> HIDE DEF p
  <2> QED
    BY <2>1, <2>2 DEF ReplayType
<1>2. q \in ReplayType /\ q.pc = r.pc + 1 /\ q.inscount = r.inscount + 1 /\ q.pending = FALSE
  <2>1. <<>> \in Seq(Calm) /\ p.inscount + 1 \in Nat
    BY <1>1 DEF ReplayType
  <2> HIDE DEF p
  <2> QED
    BY <1>1, <2>1 DEF ReplayType
<1> HIDE DEF q
<1>3. Flush(r) = UpdateAll(q, r.effects)
  BY DEF Flush, q, p
<1>4. r.effects \in Seq(Calm)
  BY DEF ReplayType
<1>5. Same(q, UpdateAll(q, r.effects))
  BY <1>2, <1>4, CalmUpdates
<1> QED
  BY <1>2, <1>3, <1>5 DEF Same, Idle

LEMMA CalmKinds ==
  ASSUME NEW op \in Calm
  PROVE  op.op \in {"other", "reg", "map", "unmap", "prot", "write"}
  BY DEF Calm, Other, Reg, MemMapOp, MemUnmapOp, MemProtOp, MemWriteOp

LEMMA FeedCalm ==
  ASSUME NEW r, Idle(r), NEW op \in Calm
  PROVE  Stays(r, Feed(r, op)) /\ Feed(r, op) = [r EXCEPT !.effects = Append(@, op)]
<1> DEFINE q == [r EXCEPT !.effects = Append(@, op)]
<1>1. q \in ReplayType /\ q.pc = r.pc /\ q.inscount = r.inscount /\ q.pending = r.pending
  <2>1. Append(r.effects, op) \in Seq(Calm)
    BY DEF ReplayType, Idle
  <2> QED
    BY <2>1 DEF ReplayType, Idle
<1>2. FeedOne(r, op) = q
  BY CalmKinds DEF FeedOne
<1>3. Feed(r, op) = Flush(FeedOne(r, op))
  BY CalmKinds DEF Feed
<1> HIDE DEF q
<1>4. Stays(r, q)
  BY <1>1 DEF Stays, Idle
<1>5. Flush(q) = q
  BY <1>4, FlushIdle DEF Stays
<1> QED
  BY <1>2, <1>3, <1>4, <1>5 DEF q

LEMMA FeedStep ==
  ASSUME NEW r, Idle(r)
  PROVE  Idle(Feed(r, Step)) /\ Feed(r, Step).pc = r.pc + 1 /\ Feed(r, Step).inscount = r.inscount + 1
<1> DEFINE q == [r EXCEPT !.pending = TRUE]
<1>1. q \in ReplayType /\ q.pc = r.pc /\ q.inscount = r.inscount /\ q.pending
  BY DEF ReplayType, Idle
<1>2. FeedOne(r, Step) = q
  BY FlushIdle DEF FeedOne, Step
<1>3. Feed(r, Step) = Flush(FeedOne(r, Step))
  BY DEF Feed, Step
<1> HIDE DEF q
<1> QED
  BY <1>1, <1>2, <1>3, FlushPending

LEMMA FeedJmp ==
  ASSUME NEW r, Idle(r), NEW a \in Nat
  PROVE  Idle(Feed(r, Jmp(a))) /\ Feed(r, Jmp(a)).pc = a /\ Feed(r, Jmp(a)).inscount = r.inscount
<1> DEFINE q == [r EXCEPT !.pc = a]
<1>1. q \in ReplayType /\ q.pc = a /\ q.inscount = r.inscount /\ ~q.pending
  BY DEF ReplayType, Idle
<1>2. FeedOne(r, Jmp(a)) = q
  BY FlushIdle DEF FeedOne, Jmp, Update
<1>3. Feed(r, Jmp(a)) = Flush(FeedOne(r, Jmp(a)))
  BY DEF Feed, Jmp
<1> HIDE DEF q
<1>4. Idle(q) /\ Flush(q) = q
  BY <1>1, FlushIdle DEF Idle
<1> QED
  BY <1>1, <1>2, <1>3, <1>4

LEMMA FeedSyscall ==
  ASSUME NEW r, Idle(r), NEW ops \in Seq(Calm)
  PROVE  Stays(r, Feed(r, Syscall(ops))) /\ Feed(r, Syscall(ops)) = UpdateAll(r, ops)
<1>1. FeedOne(r, Syscall(ops)) = UpdateAll(r, ops)
  BY FlushIdle DEF FeedOne, Syscall
<1>2. Feed(r, Syscall(ops)) = Flush(FeedOne(r, Syscall(ops)))
  BY DEF Feed, Syscall
<1>3. Stays(r, UpdateAll(r, ops))
  BY CalmUpdates DEF Idle, Same, Stays
<1>4. Flush(UpdateAll(r, ops)) = UpdateAll(r, ops)
  BY <1>3, FlushIdle DEF Stays
<1> QED
  BY <1>1, <1>2, <1>3, <1>4

LEMMA FeedKeyframe ==
  ASSUME NEW r, Idle(r), NEW ops \in Seq(Calm)
  PROVE  Stays(r, Feed(r, Keyframe(ops))) /\ Feed(r, Keyframe(ops)) = UpdateAll(r, ops)
<1>1. Feed(r, Keyframe(ops)) = UpdateAll(r, ops)
  BY FlushIdle DEF Feed, Keyframe
<1>2. Stays(r, UpdateAll(r, ops))
  BY CalmUpdates DEF Idle, Same, Stays
<1> QED
  BY <1>1, <1>2

LEMMA FeedGoesOn ==
  ASSUME NEW r, Idle(r), NEW op \in Fed
  PROVE  GoesOn(r, Feed(r, op))
<1>0. r.pc \in Nat /\ r.inscount \in Nat
  BY DEF Idle, ReplayType
<1>1. CASE op \in Calm
  BY <1>0, <1>1, FeedCalm DEF Stays, GoesOn
<1>2. CASE op = Step
  BY <1>0, <1>2, FeedStep DEF GoesOn
<1>3. CASE op \in Jumps
  <2>1. PICK a \in Nat \ {0} : op = Jmp(a)
    BY <1>3 DEF Jumps
  <2>2. Idle(Feed(r, op)) /\ Feed(r, op).pc = a /\ Feed(r, op).inscount = r.inscount
    BY <2>1, FeedJmp
  <2> QED
    BY <1>0, <2>2 DEF GoesOn
<1>4. CASE op \in {Syscall(ops) : ops \in Seq(Calm)}
  BY <1>0, <1>4, FeedSyscall DEF Stays, GoesOn
<1> QED
  BY <1>1, <1>2, <1>3, <1>4 DEF Fed

-----------------------------------------------------------------------------
(* Sequences of operations.                                                *)

Calmly == INSTANCE Folding WITH Op <- Feed, Keeps <- Stays, Fine <- LAMBDA x : x \in Calm
Onward == INSTANCE Folding WITH Op <- Feed, Keeps <- GoesOn, Fine <- LAMBDA x : x \in Fed

LEMMA FeedAllIs ==
  ASSUME NEW r, NEW ops
  PROVE  FeedAll(r, ops) = Calmly!Fold(r, ops) /\ FeedAll(r, ops) = Onward!Fold(r, ops)
  BY DEF FeedAll, Calmly!Fold, Onward!Fold, FoldLeft, MapThenFoldSet, Calmly!FoldLeft, Calmly!MapThenFoldSet,
         Onward!FoldLeft, Onward!MapThenFoldSet, Max, Calmly!Max, Onward!Max

LEMMA FeedNone ==
  ASSUME NEW r
  PROVE  FeedAll(r, <<>>) = r
<1>1. DOMAIN <<>> = 1..0
  OBVIOUS
<1> QED
  BY <1>1, FeedAllIs, Calmly!FoldOfNone

LEMMA FeedOneMore ==
  ASSUME NEW r, NEW S, NEW s \in Seq(S), NEW x
  PROVE  FeedAll(r, Append(s, x)) = Feed(FeedAll(r, s), x)
<1> DEFINE u == Append(s, x)
           n == Len(s)
           t == <<x>>
           m == 1
<1>1. n \in Nat /\ DOMAIN s = 1..n /\ DOMAIN u = 1..(n + 1) /\ u[n + 1] = x /\ \A i \in 1..n : u[i] = s[i]
  OBVIOUS
<1>2. DOMAIN t = 1..1 /\ t[1] = x
  OBVIOUS
<1>3. m \in Nat /\ DOMAIN t = 1..m /\ DOMAIN u = 1..(n + m) /\ \A j \in 1..m : u[n + j] = t[j]
  <2>1. \A j \in 1..m : j = 1
    OBVIOUS
  <2> HIDE DEF u, t, n
  <2> QED
    BY <1>1, <1>2, <2>1
<1> HIDE DEF u, n, t, m
<1>4. Calmly!Fold(r, u) = Calmly!Fold(Calmly!Fold(r, s), t)
  <2>1. Calmly!Joined(s, n, t, m, u)
    BY <1>1, <1>3 DEF Calmly!Joined
  <2> QED
    BY <1>1, <1>3, <2>1, Calmly!FoldGoesOn
<1>5. Calmly!Fold(Calmly!Fold(r, s), t) = Feed(Calmly!Fold(r, s), x)
  BY <1>2, Calmly!FoldOfOne
<1> QED
  BY <1>4, <1>5, FeedAllIs DEF u

LEMMA FeedMore ==
  ASSUME NEW r, NEW S, NEW s \in Seq(S), NEW t \in Seq(S)
  PROVE  FeedAll(r, s \o t) = FeedAll(FeedAll(r, s), t)
<1> DEFINE u == s \o t
           n == Len(s)
           m == Len(t)
<1>1. /\ n \in Nat /\ m \in Nat /\ DOMAIN s = 1..n /\ DOMAIN t = 1..m /\ DOMAIN u = 1..(n + m)
      /\ \A i \in 1..n : u[i] = s[i]
      /\ \A j \in 1..m : u[n + j] = t[j]
  OBVIOUS
<1> HIDE DEF u, n, m
<1>2. Calmly!Fold(r, u) = Calmly!Fold(Calmly!Fold(r, s), t)
  <2>1. Calmly!Joined(s, n, t, m, u)
    BY <1>1 DEF Calmly!Joined
  <2> QED
    BY <1>1, <2>1, Calmly!FoldGoesOn
<1> QED
  BY <1>2, FeedAllIs DEF u

LEMMA FeedAllCalm ==
  ASSUME NEW r, Idle(r), NEW s \in Seq(Calm)
  PROVE  Stays(r, FeedAll(r, s))
<1>1. DOMAIN s = 1..Len(s) /\ Len(s) \in Nat /\ \A i \in 1..Len(s) : s[i] \in Calm
  OBVIOUS
<1>2. Stays(r, r)
  BY DEF Stays
<1>3. \A a, x : Stays(r, a) /\ x \in Calm => Stays(r, Feed(a, x))
  <2> SUFFICES ASSUME NEW a, NEW x \in Calm, Stays(r, a)
               PROVE  Stays(r, Feed(a, x))
    OBVIOUS
  <2>1. Stays(a, Feed(a, x))
    BY FeedCalm DEF Stays
  <2> QED
    BY <2>1 DEF Stays
<1>4. Stays(r, Calmly!Fold(r, s))
  BY <1>1, <1>2, <1>3, Calmly!FoldKeeps
<1> QED
  BY <1>4, FeedAllIs

LEMMA FeedAllGoesOn ==
  ASSUME NEW r, Idle(r), NEW s \in Seq(Fed)
  PROVE  GoesOn(r, FeedAll(r, s))
<1>1. DOMAIN s = 1..Len(s) /\ Len(s) \in Nat /\ \A i \in 1..Len(s) : s[i] \in Fed
  OBVIOUS
<1>2. GoesOn(r, r)
  BY DEF GoesOn, Idle, ReplayType
<1>3. \A a, x : GoesOn(r, a) /\ x \in Fed => GoesOn(r, Feed(a, x))
  <2> SUFFICES ASSUME NEW a, NEW x \in Fed, GoesOn(r, a)
               PROVE  GoesOn(r, Feed(a, x))
    OBVIOUS
  <2>1. GoesOn(a, Feed(a, x))
    BY FeedGoesOn DEF GoesOn
  <2>2. r.inscount \in Nat /\ a.inscount \in Nat /\ Feed(a, x).inscount \in Nat
    BY <2>1 DEF GoesOn, Idle, ReplayType
  <2> QED
    BY <2>1, <2>2 DEF GoesOn
<1>4. GoesOn(r, Onward!Fold(r, s))
  BY <1>1, <1>2, <1>3, Onward!FoldKeeps
<1> QED
  BY <1>4, FeedAllIs

-----------------------------------------------------------------------------
(* The recorder.                                                           *)

LEMMA SetToSeqIsSeq ==
  ASSUME NEW S, IsFiniteSet(S)
  PROVE  SetToSeq(S) \in Seq(S)
<1>1. Cardinality(S) \in Nat /\ ExistsBijection(1..Cardinality(S), S)
  BY FS_CardinalityType
<1>2. \E f \in [1..Cardinality(S) -> S] : IsInjective(f)
  BY <1>1 DEF ExistsBijection, Bijection, Injection
<1>3. SetToSeq(S) \in [1..Cardinality(S) -> S]
  BY <1>2 DEF SetToSeq
<1> QED
  BY <1>1, <1>3

LEMMA UpdatesAreCalm ==
  ASSUME NEW regs \in [Regs -> Values], NEW known \in [Regs -> Values]
  PROVE  Updates(regs, known) \in Seq(Calm)
<1> DEFINE changed == SetToSeq({n \in Regs : known[n] # regs[n]})
<1>1. changed \in Seq(Regs)
  <2>1. IsFiniteSet({n \in Regs : known[n] # regs[n]})
    BY TraceAssumption, FS_Subset
  <2>2. changed \in Seq({n \in Regs : known[n] # regs[n]})
    BY <2>1, SetToSeqIsSeq
  <2> HIDE DEF changed
  <2> QED
    BY <2>2
<1> HIDE DEF changed
<1>2. DOMAIN changed = 1..Len(changed) /\ Len(changed) \in Nat /\ \A i \in 1..Len(changed) : changed[i] \in Regs
  BY <1>1
<1>3. \A n \in Regs : Reg(n, regs[n]) \in Calm
  BY DEF Calm
<1>4. [i \in 1..Len(changed) |-> Reg(changed[i], regs[changed[i]])] \in Seq(Calm)
  <2> DEFINE ops == [i \in 1..Len(changed) |-> Reg(changed[i], regs[changed[i]])]
  <2>1. ops \in [1..Len(changed) -> Calm]
    BY <1>2, <1>3
  <2> HIDE DEF ops
  <2>2. ops \in Seq(Calm)
    BY <1>2, <2>1
  <2> QED
    BY <2>2 DEF ops
<1> QED
  BY <1>2, <1>4 DEF Updates, changed

\* What is put while no system call is recorded is sent.
LEMMA PutSends ==
  ASSUME NEW t \in TraceType, ~t.insys, NEW op \in Fed, NEW canAdvance \in BOOLEAN
  PROVE  LET u == Put(t, op, canAdvance)
         IN  /\ u \in TraceType /\ u.sent = Append(t.sent, op)
             /\ u.insys = t.insys /\ u.sysops = t.sysops
             /\ u.step = t.step /\ u.stepAddr = t.stepAddr /\ u.known = t.known
<1> DEFINE Frames == {Frame(ops) : ops \in Seq(Fed)}
<1>1. /\ Append(t.sent, op) \in Seq(Fed) /\ Append(t.frame, op) \in Seq(Fed) /\ <<op>> \in Seq(Fed)
      /\ Append(t.packed, Frame(t.frame)) \in Seq(Frames) /\ t.packed \in Seq(Frames)
  <2>1. t.sent \in Seq(Fed) /\ t.frame \in Seq(Fed) /\ t.packed \in Seq(Frames)
    BY DEF TraceType
  <2>2. Frame(t.frame) \in Frames
    BY <2>1
  <2> HIDE DEF Frames
  <2> QED
    BY <2>1, <2>2
<1>2. CASE t.frame = <<>> \/ canAdvance
  <2> DEFINE packed == IF t.frame = <<>> THEN t.packed ELSE Append(t.packed, Frame(t.frame))
  <2>1. packed \in Seq(Frames)
    BY <1>1
  <2>2. Put(t, op, canAdvance) = [t EXCEPT !.packed = packed, !.frame = <<op>>, !.sent = Append(t.sent, op)]
    BY <1>2 DEF Put
  <2> HIDE DEF packed
  <2> QED
    BY <1>1, <2>1, <2>2 DEF TraceType
<1>3. CASE ~(t.frame = <<>> \/ canAdvance)
  <2>1. Put(t, op, canAdvance) = [t EXCEPT !.frame = Append(t.frame, op), !.sent = Append(t.sent, op)]
    BY <1>3 DEF Put
  <2> QED
    BY <1>1, <2>1 DEF TraceType
<1> QED
  BY <1>2, <1>3

\* Putting operations that wait sends some of them at most.
Kept(b, t) ==
  /\ b \in TraceType /\ t \in TraceType
  /\ t.insys = b.insys /\ t.step = b.step /\ t.stepAddr = b.stepAddr
  /\ \E more \in Seq(Calm) : t.sent = b.sent \o more

LEMMA SentIsFed ==
  ASSUME NEW t \in TraceType
  PROVE  t.sent \in Seq(Fed) /\ t.sent = t.sent \o <<>> /\ \A op : Append(t.sent, op) = t.sent \o <<op>>
<1>1. t.sent \in Seq(Fed)
  BY DEF TraceType
<1> QED
  BY <1>1

LEMMA PutCalm ==
  ASSUME NEW t \in TraceType, NEW op \in Calm
  PROVE  Kept(t, PutOne(t, op))
<1>1. op \in Fed
  BY DEF Fed
<1>2. op # Step
  BY CalmKinds DEF Step
<1>3. CASE ~t.insys
  <2>1. <<op>> \in Seq(Calm)
    OBVIOUS
  <2> DEFINE u == Put(t, op, FALSE)
  <2>2. /\ u \in TraceType /\ u.sent = Append(t.sent, op)
        /\ u.insys = t.insys /\ u.step = t.step /\ u.stepAddr = t.stepAddr
    BY <1>1, <1>3, PutSends
  <2>3. PutOne(t, op) = u
    BY DEF PutOne
  <2> HIDE DEF u
  <2>4. u.sent = t.sent \o <<op>>
    BY <2>2, SentIsFed
  <2> QED
    BY <2>1, <2>2, <2>3, <2>4 DEF Kept
<1>4. CASE t.insys /\ t.frame = <<>>
  <2>1. /\ PutOne(t, op) = [t EXCEPT !.frame = <<op>>, !.sent = Append(t.sent, op)]
        /\ Append(t.sent, op) \in Seq(Fed) /\ <<op>> \in Seq(Fed) /\ <<op>> \in Seq(Calm)
    <3>1. t.sent \in Seq(Fed)
      BY SentIsFed
    <3>2. t = [t EXCEPT !.packed = t.packed]
      BY DEF TraceType
    <3>3. PutOne(t, op) = [t EXCEPT !.packed = t.packed, !.frame = <<op>>, !.sent = Append(t.sent, op)]
      BY <1>4 DEF PutOne, Put
    <3>4. PutOne(t, op) = [t EXCEPT !.frame = <<op>>, !.sent = Append(t.sent, op)]
      BY <3>3 DEF TraceType
    <3> QED
      BY <1>1, <3>1, <3>4
  <2> QED
    BY <2>1, SentIsFed DEF Kept, TraceType
<1>5. CASE t.insys /\ t.frame # <<>>
  <2>1. op.op # "step"
    BY CalmKinds
  <2>2. PutOne(t, op) = [t EXCEPT !.sysops = Append(t.sysops, op)]
    BY <1>5, <2>1 DEF PutOne, Put
  <2>3. Append(t.sysops, op) \in Seq(Calm) /\ <<>> \in Seq(Calm)
    BY DEF TraceType
  <2> QED
    BY <2>2, <2>3, SentIsFed DEF Kept, TraceType
<1> QED
  BY <1>3, <1>4, <1>5 DEF TraceType

LEMMA KeptFurther ==
  ASSUME NEW a, NEW b, NEW c, Kept(a, b), Kept(b, c)
  PROVE  Kept(a, c)
<1>1. PICK m \in Seq(Calm) : b.sent = a.sent \o m
  BY DEF Kept
<1>2. PICK n \in Seq(Calm) : c.sent = b.sent \o n
  BY DEF Kept
<1>3. a.sent \in Seq(Fed)
  BY SentIsFed DEF Kept
<1>4. (a.sent \o m) \o n = a.sent \o (m \o n) /\ m \o n \in Seq(Calm)
  <2> DEFINE s == a.sent
  <2>1. s \in Seq(Fed)
    BY <1>3
  <2> HIDE DEF s
  <2>2. (s \o m) \o n = s \o (m \o n) /\ m \o n \in Seq(Calm)
    BY <2>1
  <2> QED
    BY <2>2 DEF s
<1> QED
  BY <1>1, <1>2, <1>4 DEF Kept

Puts == INSTANCE Folding WITH Op <- PutOne, Keeps <- Kept, Fine <- LAMBDA x : x \in Calm

LEMMA PutAllCalm ==
  ASSUME NEW t \in TraceType, NEW ops \in Seq(Calm)
  PROVE  Kept(t, PutAll(t, ops))
<1>1. PutAll(t, ops) = Puts!Fold(t, ops)
  BY DEF PutAll, Puts!Fold, FoldLeft, MapThenFoldSet, Puts!FoldLeft, Puts!MapThenFoldSet, Max, Puts!Max
<1>2. DOMAIN ops = 1..Len(ops) /\ Len(ops) \in Nat /\ \A i \in 1..Len(ops) : ops[i] \in Calm
  OBVIOUS
<1>3. Kept(t, t)
  <2>1. <<>> \in Seq(Calm)
    OBVIOUS
  <2> QED
    BY <2>1, SentIsFed DEF Kept
<1>4. \A a, x : Kept(t, a) /\ x \in Calm => Kept(t, PutOne(a, x))
  <2> SUFFICES ASSUME NEW a, NEW x \in Calm, Kept(t, a)
               PROVE  Kept(t, PutOne(a, x))
    OBVIOUS
  <2>1. Kept(a, PutOne(a, x))
    BY PutCalm DEF Kept
  <2> QED
    BY <2>1, KeptFurther
<1>5. Kept(t, Puts!Fold(t, ops))
  BY <1>2, <1>3, <1>4, Puts!FoldKeeps
<1> QED
  BY <1>1, <1>5

LEMMA RegUpdateKeeps ==
  ASSUME NEW t \in TraceType, NEW regs \in [Regs -> Values]
  PROVE  Kept(t, RegUpdate(t, regs)) /\ RegUpdate(t, regs).known = regs
<1> DEFINE u == PutAll(t, Updates(regs, t.known))
<1>1. Kept(t, u)
  <2>1. t.known \in [Regs -> Values]
    BY DEF TraceType
  <2> QED
    BY <2>1, UpdatesAreCalm, PutAllCalm
<1>2. RegUpdate(t, regs) = [u EXCEPT !.known = regs]
  BY DEF RegUpdate
<1> HIDE DEF u
<1> QED
  BY <1>1, <1>2 DEF Kept, TraceType

-----------------------------------------------------------------------------
(* What the recorder's calls make of a replay that is fed what they send.  *)

LEMMA KeptFeeds ==
  ASSUME NEW r, Idle(r), NEW t, NEW u, Kept(t, u)
  PROVE  Stays(FeedAll(r, t.sent), FeedAll(r, u.sent))
<1>1. PICK more \in Seq(Calm) : u.sent = t.sent \o more
  BY DEF Kept
<1>2. t.sent \in Seq(Fed) /\ more \in Seq(Fed)
  <2>1. Calm \subseteq Fed
    BY DEF Fed
  <2> QED
    BY <2>1, SentIsFed DEF Kept
<1>3. FeedAll(r, u.sent) = FeedAll(FeedAll(r, t.sent), more)
  BY <1>1, <1>2, FeedMore
<1>4. Idle(FeedAll(r, t.sent))
  BY <1>2, FeedAllGoesOn DEF GoesOn
<1> QED
  BY <1>3, <1>4, FeedAllCalm

LEMMA SentFeeds ==
  ASSUME NEW r, Idle(r), NEW t \in TraceType, NEW u, NEW op, u.sent = Append(t.sent, op)
  PROVE  Idle(FeedAll(r, t.sent)) /\ FeedAll(r, u.sent) = Feed(FeedAll(r, t.sent), op)
<1>1. t.sent \in Seq(Fed)
  BY SentIsFed
<1> QED
  BY <1>1, FeedAllGoesOn, FeedOneMore DEF GoesOn

\* Counts(a, b, n): n steps were fed between the replays a and b.
Counts(a, b, n) == Idle(a) /\ Idle(b) /\ b.inscount = a.inscount + n

\* A step that waits is sent once, with the registers before it.
LEMMA FlushStepSends ==
  ASSUME NEW t \in TraceType, NEW regs \in [Regs -> Values]
  PROVE  LET u == FlushStep(t, regs)
         IN  /\ u \in TraceType /\ ~u.insys /\ ~u.step /\ u.stepAddr = t.stepAddr
             /\ ~t.step /\ ~t.insys => u.sent = t.sent
             /\ \A r : Idle(r) => Counts(FeedAll(r, t.sent), FeedAll(r, u.sent), IF t.step THEN 1 ELSE 0)
<1> DEFINE sys == [t EXCEPT !.insys = FALSE, !.sysops = <<>>]
           with == RegUpdate(sys, regs)
           ready == [with EXCEPT !.step = FALSE]
           done == IF t.step THEN Put(ready, Step, FALSE) ELSE sys
           last == IF t.insys THEN Put(done, Syscall(t.sysops), FALSE) ELSE done
<1>0. FlushStep(t, regs) = last
  BY DEF FlushStep
<1>1. /\ sys \in TraceType /\ ~sys.insys /\ sys.step = t.step /\ sys.stepAddr = t.stepAddr /\ sys.sent = t.sent
      /\ t.sysops \in Seq(Calm) /\ t.insys \in BOOLEAN /\ t.step \in BOOLEAN
  <2>1. <<>> \in Seq(Calm)
    OBVIOUS
  <2> QED
    BY <2>1 DEF TraceType
<1> HIDE DEF sys
<1>2. Kept(sys, with)
  BY <1>1, RegUpdateKeeps
<1> HIDE DEF with
<1>3. ready \in TraceType /\ ~ready.insys /\ ~ready.step /\ ready.stepAddr = t.stepAddr /\ ready.sent = with.sent
  BY <1>1, <1>2 DEF Kept, TraceType
<1> HIDE DEF ready
<1>4. Step \in Fed /\ Syscall(t.sysops) \in Fed
  BY <1>1 DEF Fed
<1>5. /\ done \in TraceType /\ ~done.insys /\ ~done.step /\ done.stepAddr = t.stepAddr
      /\ ~t.step => done = sys
      /\ t.step => done.sent = Append(ready.sent, Step)
  BY <1>1, <1>3, <1>4, PutSends
<1> HIDE DEF done
<1>6. /\ last \in TraceType /\ ~last.insys /\ ~last.step /\ last.stepAddr = t.stepAddr
      /\ ~t.insys => last = done
      /\ t.insys => last.sent = Append(done.sent, Syscall(t.sysops))
  BY <1>1, <1>4, <1>5, PutSends
<1> HIDE DEF last
<1>7. ASSUME NEW r, Idle(r)
      PROVE  Counts(FeedAll(r, t.sent), FeedAll(r, last.sent), IF t.step THEN 1 ELSE 0)
  <2> DEFINE a == FeedAll(r, t.sent)
             b == FeedAll(r, ready.sent)
             c == FeedAll(r, done.sent)
             d == FeedAll(r, last.sent)
  <2>1. Idle(a) /\ a.inscount \in Nat
    <3>1. t.sent \in Seq(Fed)
      BY SentIsFed
    <3>2. Idle(a)
      BY <1>7, <3>1, FeedAllGoesOn DEF GoesOn
    <3> HIDE DEF a
    <3> QED
      BY <3>2 DEF Idle, ReplayType
  <2>2. Stays(a, b)
    BY <1>1, <1>2, <1>3, <1>7, KeptFeeds
  <2>3. Counts(a, c, IF t.step THEN 1 ELSE 0)
    <3>1. CASE t.step
      <4>1. c = Feed(b, Step)
        BY <1>3, <1>5, <1>7, <3>1, SentFeeds
      <4> HIDE DEF a, b, c
      <4>2. Idle(c) /\ c.inscount = b.inscount + 1
        BY <2>2, <4>1, FeedStep DEF Stays
      <4> QED
        BY <2>2, <3>1, <4>2 DEF Stays, Counts
    <3>2. CASE ~t.step
      <4>1. c = a
        BY <1>1, <1>5, <3>2
      <4> HIDE DEF a, c
      <4> QED
        BY <2>1, <3>2, <4>1 DEF Counts
    <3> QED
      BY <3>1, <3>2
  <2>4. Stays(c, d)
    <3>1. CASE t.insys
      <4>1. d = Feed(c, Syscall(t.sysops))
        BY <1>5, <1>6, <1>7, <3>1, SentFeeds
      <4> HIDE DEF c, d
      <4> QED
        BY <1>1, <2>3, <4>1, FeedSyscall DEF Counts
    <3>2. CASE ~t.insys
      <4>1. d = c
        BY <1>6, <3>2
      <4> HIDE DEF c, d
      <4> QED
        BY <2>3, <4>1 DEF Stays, Counts
    <3> QED
      BY <3>1, <3>2
  <2> HIDE DEF a, b, c, d
  <2>5. Counts(a, d, IF t.step THEN 1 ELSE 0)
    BY <2>3, <2>4 DEF Counts, Stays
  <2> QED
    BY <2>5 DEF a, d
<1>8. ~t.step /\ ~t.insys => last.sent = t.sent
  BY <1>1, <1>5, <1>6
<1> QED
  BY <1>0, <1>6, <1>7, <1>8

LEMMA FlushSysSends ==
  ASSUME NEW t \in TraceType
  PROVE  LET u == FlushSys(t)
         IN  /\ u \in TraceType /\ ~u.insys /\ u.step = t.step /\ u.stepAddr = t.stepAddr
             /\ ~t.insys => u = t
             /\ \A r : Idle(r) => Counts(FeedAll(r, t.sent), FeedAll(r, u.sent), 0)
<1> DEFINE sys == [t EXCEPT !.insys = FALSE, !.sysops = <<>>]
           u == FlushSys(t)
<1>1. /\ sys \in TraceType /\ ~sys.insys /\ sys.step = t.step /\ sys.stepAddr = t.stepAddr /\ sys.sent = t.sent
      /\ t.sysops \in Seq(Calm) /\ t.insys \in BOOLEAN
  <2>1. <<>> \in Seq(Calm)
    OBVIOUS
  <2> QED
    BY <2>1 DEF TraceType
<1>2. u = IF t.insys THEN Put(sys, Syscall(t.sysops), FALSE) ELSE t
  BY DEF FlushSys
<1> HIDE DEF sys, u
<1>3. Syscall(t.sysops) \in Fed
  BY <1>1 DEF Fed
<1>4. /\ u \in TraceType /\ ~u.insys /\ u.step = t.step /\ u.stepAddr = t.stepAddr
      /\ t.insys => u.sent = Append(sys.sent, Syscall(t.sysops))
  BY <1>1, <1>2, <1>3, PutSends
<1>5. ASSUME NEW r, Idle(r)
      PROVE  Counts(FeedAll(r, t.sent), FeedAll(r, u.sent), 0)
  <2> DEFINE a == FeedAll(r, t.sent)
             b == FeedAll(r, u.sent)
  <2>1. Idle(a)
    BY <1>5, SentIsFed, FeedAllGoesOn DEF GoesOn
  <2>2. Stays(a, b)
    <3>1. CASE t.insys
      <4>1. b = Feed(a, Syscall(t.sysops))
        BY <1>1, <1>4, <1>5, <3>1, SentFeeds
      <4> HIDE DEF a, b
      <4> QED
        BY <1>1, <2>1, <4>1, FeedSyscall
    <3>2. CASE ~t.insys
      <4>1. b = a
        BY <1>2, <3>2
      <4> HIDE DEF a, b
      <4> QED
        BY <2>1, <4>1 DEF Stays
    <3> QED
      BY <3>1, <3>2
  <2> HIDE DEF a, b
  <2>3. Counts(a, b, 0)
    BY <2>2 DEF Counts, Stays, Idle, ReplayType
  <2> QED
    BY <2>3 DEF a, b
<1> QED
  BY <1>2, <1>4, <1>5 DEF u

-----------------------------------------------------------------------------
(* What the hooks and the kernel are given.                                *)

\* A step that is entered waits from then on, and what waited before it is counted.
LEMMA OnStepSends ==
  ASSUME NEW t \in TraceType, NEW regs \in [Regs -> Values], NEW a \in Nat, a # t.stepAddr
  PROVE  LET u == OnStep(t, a, regs)
         IN  /\ u \in TraceType /\ ~u.insys /\ u.step /\ u.stepAddr = a
             /\ ~t.step /\ ~t.insys => u.sent = t.sent
             /\ \A r : Idle(r) => Counts(FeedAll(r, t.sent), FeedAll(r, u.sent), IF t.step THEN 1 ELSE 0)
<1> DEFINE f == FlushStep(t, regs)
           u == OnStep(t, a, regs)
<1>1. /\ f \in TraceType /\ ~f.insys
      /\ ~t.step /\ ~t.insys => f.sent = t.sent
      /\ \A r : Idle(r) => Counts(FeedAll(r, t.sent), FeedAll(r, f.sent), IF t.step THEN 1 ELSE 0)
  BY FlushStepSends
<1>2. u = [f EXCEPT !.step = TRUE, !.stepAddr = a]
  BY DEF OnStep
<1> HIDE DEF f, u
<1>3. u \in TraceType /\ ~u.insys /\ u.step /\ u.stepAddr = a /\ u.sent = f.sent
  BY <1>1, <1>2 DEF TraceType
<1> QED
  BY <1>1, <1>3 DEF u

\* The code hook after the block hook, when the CPU has been started or has jumped.
LEMMA OnJmpSends ==
  ASSUME NEW t \in TraceType, NEW regs \in [Regs -> Values], NEW a \in Nat \ {0}, ~t.insys,
         IF t.step THEN TRUE ELSE a # t.stepAddr
  PROVE  LET u == OnStep(OnJmp(t, a, regs), a, regs)
         IN  /\ u \in TraceType /\ ~u.insys /\ u.step /\ u.stepAddr = a
             /\ ~t.step => u.sent = Append(t.sent, Jmp(a))
             /\ \A r : Idle(r) => Counts(FeedAll(r, t.sent), FeedAll(r, u.sent),
                                         IF t.step /\ a # t.stepAddr THEN 1 ELSE 0)
<1> DEFINE f == IF t.step /\ a # t.stepAddr THEN FlushStep(t, regs) ELSE t
           j == Put(f, Jmp(a), TRUE)
           u == OnStep(OnJmp(t, a, regs), a, regs)
           n == IF t.step /\ a # t.stepAddr THEN 1 ELSE 0
<1>1. /\ f \in TraceType /\ ~f.insys /\ f.stepAddr = t.stepAddr
      /\ IF t.step /\ a # t.stepAddr THEN ~f.step ELSE f = t
  BY FlushStepSends
<1>2. \A r : Idle(r) => Counts(FeedAll(r, t.sent), FeedAll(r, f.sent), n)
  <2> SUFFICES ASSUME NEW r, Idle(r)
               PROVE  Counts(FeedAll(r, t.sent), FeedAll(r, f.sent), n)
    OBVIOUS
  <2>1. CASE t.step /\ a # t.stepAddr
    BY <2>1, FlushStepSends
  <2>2. CASE ~(t.step /\ a # t.stepAddr)
    <3>1. Idle(FeedAll(r, t.sent))
      BY SentIsFed, FeedAllGoesOn DEF GoesOn
    <3> HIDE DEF f
    <3>2. FeedAll(r, f.sent) = FeedAll(r, t.sent)
      BY <1>1, <2>2
    <3> QED
      BY <2>2, <3>1, <3>2 DEF Counts, Idle, ReplayType
  <2> QED
    BY <2>1, <2>2
<1> HIDE DEF f, n
<1>3. Jmp(a) \in Fed
  BY DEF Fed, Jumps
<1>4. /\ j \in TraceType /\ ~j.insys /\ j.step = f.step /\ j.stepAddr = f.stepAddr
      /\ j.sent = Append(f.sent, Jmp(a))
  <2>1. f \in TraceType /\ ~f.insys /\ TRUE \in BOOLEAN
    BY <1>1
  <2> DEFINE op == Jmp(a)
  <2>2. op \in Fed
    BY <1>3
  <2> HIDE DEF op, j
  <2>3. LET v == Put(f, op, TRUE)
        IN  /\ v \in TraceType /\ v.sent = Append(f.sent, op)
            /\ v.insys = f.insys /\ v.step = f.step /\ v.stepAddr = f.stepAddr
    BY <2>1, <2>2, PutSends
  <2> QED
    BY <2>1, <2>3 DEF j, op
<1>5. \A r : Idle(r) => Counts(FeedAll(r, t.sent), FeedAll(r, j.sent), n)
  <2> SUFFICES ASSUME NEW r, Idle(r)
               PROVE  Counts(FeedAll(r, t.sent), FeedAll(r, j.sent), n)
    OBVIOUS
  <2> DEFINE b == FeedAll(r, f.sent)
             c == FeedAll(r, j.sent)
  <2>1. Idle(b) /\ c = Feed(b, Jmp(a))
    <3>1. f \in TraceType /\ j.sent = Append(f.sent, Jmp(a))
      BY <1>1, <1>4
    <3> DEFINE op == Jmp(a)
    <3> HIDE DEF j, op
    <3>2. j.sent = Append(f.sent, op) /\ f \in TraceType
      BY <3>1 DEF op
    <3>3. Idle(FeedAll(r, f.sent)) /\ FeedAll(r, j.sent) = Feed(FeedAll(r, f.sent), op)
      <4>1. f.sent \in Seq(Fed)
        BY <3>2, SentIsFed
      <4>2. FeedAll(r, Append(f.sent, op)) = Feed(FeedAll(r, f.sent), op)
        BY <4>1, FeedOneMore
      <4>3. Idle(FeedAll(r, f.sent))
        BY <4>1, FeedAllGoesOn DEF GoesOn
      <4> QED
        BY <3>2, <4>2, <4>3
    <3> QED
      BY <3>3 DEF op
  <2>2. Counts(FeedAll(r, t.sent), b, n)
    BY <1>2
  <2> HIDE DEF b, c
  <2>3. Idle(c) /\ c.inscount = b.inscount
    BY <2>1, FeedJmp
  <2>4. Counts(FeedAll(r, t.sent), c, n)
    BY <2>2, <2>3 DEF Counts
  <2> QED
    BY <2>4 DEF c
<1>6. OnJmp(t, a, regs) = j
  BY DEF OnJmp, f
<1> HIDE DEF j
<1>7. CASE t.step /\ a = t.stepAddr
  <2>1. u = j
    BY <1>1, <1>4, <1>6, <1>7 DEF OnStep
  <2>2. t.step = j.step
    BY <1>1, <1>4, <1>7
  <2> QED
    BY <1>1, <1>4, <1>5, <1>7, <2>1, <2>2 DEF n
<1>8. CASE ~(t.step /\ a = t.stepAddr)
  <2>1. a # j.stepAddr /\ ~j.step
    BY <1>1, <1>4, <1>8 DEF TraceType
  <2>2. /\ u \in TraceType /\ ~u.insys /\ u.step /\ u.stepAddr = a
        /\ u.sent = j.sent
    BY <1>4, <1>6, <2>1, OnStepSends
  <2>3. ~t.step => f = t
    BY <1>1
  <2> HIDE DEF u
  <2> QED
    BY <1>4, <1>5, <2>2, <2>3 DEF u, n
<1> QED
  BY <1>7, <1>8

\* What the memory of a machine or of a replay is.
Cell == [prot : Prots, byte : Byte]
Memories == UNION {[D -> Cell] : D \in SUBSET Nat}

LEMMA CellsAreCells ==
  ASSUME NEW pages \in Seq(Page)
  PROVE  Cells(pages) \in Memories
<1> DEFINE D == UNION {Bytes(pages[i].addr, End(pages[i])) : i \in DOMAIN pages}
           holder(x) == CHOOSE i \in DOMAIN pages : Holds(pages[i], x)
<1>1. \A i \in DOMAIN pages : pages[i] \in Page
  OBVIOUS
<1>2. ASSUME NEW x \in D
      PROVE  x \in Nat /\ CellOf(pages[holder(x)], x) \in Cell
  <2>1. PICK i \in DOMAIN pages : x \in Bytes(pages[i].addr, End(pages[i]))
    OBVIOUS
  <2>2. x \in Nat /\ Holds(pages[i], x)
    BY <1>1, <2>1, PageHas DEF Bytes, Holds
  <2> DEFINE h == holder(x)
  <2>3. h \in DOMAIN pages /\ Holds(pages[h], x)
    BY <2>2
  <2> HIDE DEF h
  <2> DEFINE p == pages[h]
  <2>4. p \in Page /\ Holds(p, x)
    BY <1>1, <2>3
  <2> HIDE DEF p
  <2>5. p.prot \in Prots /\ p.data \in Seq(Byte) /\ x - p.addr + 1 \in 1..Len(p.data)
    <3>1. /\ p.addr \in Nat /\ p.size \in Nat /\ End(p) = p.addr + p.size /\ Len(p.data) = p.size
          /\ p.prot \in Prots /\ p.data \in Seq(Byte)
      BY <2>4, PageHas
    <3>2. x >= p.addr /\ x < p.addr + p.size
      BY <2>4, <3>1 DEF Holds
    <3> QED
      BY <2>2, <3>1, <3>2
  <2>6. p.data[x - p.addr + 1] \in Byte
    BY <2>5
  <2>7. CellOf(p, x) \in Cell
    BY <2>5, <2>6 DEF CellOf, Cell
  <2> QED
    BY <2>2, <2>7 DEF p, h
<1>3. Cells(pages) = [x \in D |-> CellOf(pages[holder(x)], x)]
  BY DEF Cells
<1> HIDE DEF D, holder
<1>4. D \in SUBSET Nat /\ [x \in D |-> CellOf(pages[holder(x)], x)] \in [D -> Cell]
  BY <1>2
<1> QED
  BY <1>3, <1>4 DEF Memories

\* Memory that is laid over other memory.
LEMMA OntoIsMemory ==
  ASSUME NEW c \in Memories, NEW d \in Memories
  PROVE  Onto(c, d) \in Memories
<1>1. PICK C \in SUBSET Nat : c \in [C -> Cell]
  BY DEF Memories
<1>2. PICK D \in SUBSET Nat : d \in [D -> Cell]
  BY DEF Memories
<1>3. Onto(c, d) \in [C \cup D -> Cell] /\ C \cup D \in SUBSET Nat
  BY <1>1, <1>2 DEF Onto
<1> QED
  BY <1>3 DEF Memories

\* What is left of a page's bytes without the zeros at both ends.
LEMMA TrimIsSeq ==
  ASSUME NEW s \in Seq(Byte)
  PROVE  Trim(s) \in Seq(Byte)
<1> DEFINE full == {i \in DOMAIN s : s[i] # 0}
<1>1. CASE full = {}
  <2>1. <<>> \in Seq(Byte)
    OBVIOUS
  <2> QED
    BY <1>1, <2>1 DEF Trim
<1>2. CASE full # {}
  <2>1. full \subseteq 1..Len(s) /\ full \subseteq Nat /\ Len(s) \in Nat /\ \A n \in full : n <= Len(s)
    OBVIOUS
  <2> HIDE DEF full
  <2>2. (\E m \in full : \A n \in full : m <= n) /\ (\E m \in full : \A n \in full : n <= m)
    BY <1>2, <2>1, LeastIs, GreatestIs
  <2>3. Min(full) \in full /\ Max(full) \in full
    BY <2>2 DEF Min, Max
  <2>4. Min(full) \in 1..Len(s) /\ Max(full) \in 1..Len(s)
    BY <2>1, <2>3
  <2>5. SubSeq(s, Min(full), Max(full)) \in Seq(Byte)
    BY <2>1, <2>4
  <2>6. Trim(s) = SubSeq(s, Min(full), Max(full))
    BY <1>2 DEF Trim, full
  <2> QED
    BY <2>5, <2>6
<1> QED
  BY <1>1, <1>2

LEMMA KeyframeIs ==
  ASSUME NEW regs \in [Regs -> Values], NEW pages \in Seq(Page)
  PROVE  KeyframeOf(regs, pages) \in Keyframes
<1> DEFINE d(p) == Trim(p.data)
           page(p) == <<MemMapOp(<<p.addr, End(p)>>, p.prot), MemWriteOp(<<p.addr, p.addr + Len(d(p))>>, d(p))>>
           ss == [i \in DOMAIN pages |-> page(pages[i])]
           zeros == [n \in Regs |-> 0]
<1>1. DOMAIN pages = 1..Len(pages) /\ Len(pages) \in Nat /\ \A i \in DOMAIN pages : pages[i] \in Page
  OBVIOUS
<1>2. ASSUME NEW p \in Page
      PROVE  page(p) \in Seq(Calm)
  <2> DEFINE b == Trim(p.data)
  <2>1. /\ p.addr \in Nat /\ End(p) \in Nat /\ p.addr < End(p) /\ p.prot \in Prots
        /\ b \in Seq(Byte)
    BY PageHas, TrimIsSeq
  <2> HIDE DEF b
  <2>2. Len(b) \in Nat
    BY <2>1
  <2> DEFINE r == <<p.addr, End(p)>>
             w == <<p.addr, p.addr + Len(b)>>
  <2>3. r \in {s \in Spans : s[1] < s[2]}
    BY <2>1 DEF Spans
  <2>4. w \in Spans /\ Size(w) = Len(b)
    BY <2>1, <2>2 DEF Spans, Size
  <2>5. page(p) = <<MemMapOp(r, p.prot), MemWriteOp(w, b)>>
    BY DEF b
  <2> HIDE DEF r, w, page
  <2>6. MemMapOp(r, p.prot) \in Calm
    BY <2>1, <2>3 DEF Calm
  <2>7. MemWriteOp(w, b) \in Calm
    BY <2>1, <2>4 DEF Calm
  <2> QED
    BY <2>5, <2>6, <2>7
<1> HIDE DEF page
<1>3. ss \in Seq(Seq(Calm))
  BY <1>1, <1>2
<1>4. FlattenSeq(ss) \in Seq(Calm)
  <2> HIDE DEF ss
  <2> QED
    BY <1>3, FlattenIsSeq
<1>5. Updates(regs, zeros) \in Seq(Calm)
  <2>1. zeros \in [Regs -> Values]
    BY TraceAssumption
  <2> HIDE DEF zeros
  <2> QED
    BY <2>1, UpdatesAreCalm
<1>6. KeyframeOf(regs, pages) = Keyframe(Updates(regs, zeros) \o FlattenSeq(ss))
  BY DEF KeyframeOf, page
<1> HIDE DEF ss, zeros
<1>7. Updates(regs, zeros) \o FlattenSeq(ss) \in Seq(Calm)
  BY <1>4, <1>5
<1> QED
  BY <1>6, <1>7 DEF Keyframes

LEMMA RestoredIsCalm ==
  ASSUME NEW to \in ReplayType
  PROVE  Restored(to) \in Seq(Calm)
<1> DEFINE page(p) == LET r == <<p.addr, End(p)>> IN <<MemUnmapOp(r), MemMapOp(r, p.prot), MemWriteOp(r, p.data)>>
           pages == to.pages
           ss == [k \in DOMAIN pages |-> page(pages[k])]
<1>1. pages \in Seq(Page)
  BY DEF ReplayType
<1> HIDE DEF pages
<1>2. DOMAIN pages = 1..Len(pages) /\ Len(pages) \in Nat /\ \A i \in DOMAIN pages : pages[i] \in Page
  BY <1>1
<1>3. ASSUME NEW p \in Page
      PROVE  page(p) \in Seq(Calm)
  <2> DEFINE r == <<p.addr, End(p)>>
  <2>1. p.prot \in Prots /\ p.data \in Seq(Byte) /\ Len(p.data) = p.size
    BY PageHas
  <2>2. r \in Spans /\ r[1] < r[2] /\ Size(r) = p.size
    BY PageHas DEF Spans, Size
  <2>3. page(p) = <<MemUnmapOp(r), MemMapOp(r, p.prot), MemWriteOp(r, p.data)>>
    OBVIOUS
  <2> HIDE DEF r, page
  <2>4. MemUnmapOp(r) \in Calm
    BY <2>2 DEF Calm
  <2>5. MemMapOp(r, p.prot) \in Calm
    BY <2>1, <2>2 DEF Calm
  <2>6. MemWriteOp(r, p.data) \in Calm
    BY <2>1, <2>2 DEF Calm
  <2> QED
    BY <2>3, <2>4, <2>5, <2>6
<1> HIDE DEF page
<1>4. ss \in Seq(Seq(Calm))
  BY <1>2, <1>3
<1>5. FlattenSeq(ss) \in Seq(Calm)
  <2> HIDE DEF ss
  <2> QED
    BY <1>4, FlattenIsSeq
<1> QED
  BY <1>5 DEF Restored, page, pages

LEMMA KernelWorkIs ==
  ASSUME NEW c \in Memories, NEW r \in Ranges, NEW work \in KernelWork(c, r)
  PROVE  work.cells \in Memories /\ work.ops \in Seq(Calm)
<1> DEFINE n == r[2] - r[1]
<1>1. r \in Nat \X Nat /\ r[1] < r[2] /\ r \in Spans /\ Size(r) = n /\ n \in Nat
  BY TraceAssumption DEF Spans, Size
<1>2. PICK D \in SUBSET Nat : c \in [D -> Cell]
  BY DEF Memories
<1>3. Span(r) \subseteq Nat /\ \A x \in Span(r) : x - r[1] + 1 \in 1..n
  BY <1>1 DEF Span, Bytes
<1> HIDE DEF n
<1>4. ASSUME NEW p \in Prots
      PROVE  LET w == Mapping(c, r, p) IN w.cells \in Memories /\ w.ops \in Seq(Calm)
  <2> DEFINE d == [i \in 1..n |-> 0]
             new == [x \in Span(r) |-> [prot |-> p, byte |-> d[x - r[1] + 1]]]
  <2>1. \A x \in Span(r) : d[x - r[1] + 1] \in Byte
    BY <1>3, TraceAssumption
  <2> HIDE DEF d
  <2>2. new \in [Span(r) -> Cell]
    BY <2>1 DEF Cell
  <2>3. With(c, r, p, d) = Onto(new, c)
    BY DEF With
  <2> HIDE DEF new
  <2>4. MemUnmapOp(r) \in Calm /\ MemMapOp(r, p) \in Calm
    BY <1>1 DEF Calm
  <2>5. <<MemUnmapOp(r), MemMapOp(r, p)>> \in Seq(Calm)
    BY <2>4
  <2>6. Mapping(c, r, p) = [cells |-> With(c, r, p, d), ops |-> <<MemUnmapOp(r), MemMapOp(r, p)>>]
    BY DEF Mapping, d, n
  <2>7. With(c, r, p, d) \in Memories
    <3>1. new \in Memories
      BY <1>3, <2>2 DEF Memories
    <3> QED
      BY <2>3, <3>1, OntoIsMemory
  <2> QED
    BY <2>5, <2>6, <2>7
<1>5. LET w == Unmapping(c, r) IN w.cells \in Memories /\ w.ops \in Seq(Calm)
  <2>1. [x \in DOMAIN c \ Span(r) |-> c[x]] \in [D \ Span(r) -> Cell]
    BY <1>2
  <2>2. [x \in DOMAIN c \ Span(r) |-> c[x]] \in Memories
    BY <2>1 DEF Memories
  <2>3. MemUnmapOp(r) \in Calm
    BY <1>1 DEF Calm
  <2>4. <<MemUnmapOp(r)>> \in Seq(Calm)
    BY <2>3
  <2> QED
    BY <2>2, <2>4 DEF Unmapping
<1>6. ASSUME NEW p \in Prots
      PROVE  LET w == Protecting(c, r, p) IN w.cells \in Memories /\ w.ops \in Seq(Calm)
  <2> DEFINE m == [x \in DOMAIN c |-> IF x \in Span(r) THEN [c[x] EXCEPT !.prot = p] ELSE c[x]]
  <2>1. m \in [D -> Cell]
    BY <1>2 DEF Cell
  <2> HIDE DEF m
  <2>2. m \in Memories
    BY <2>1 DEF Memories
  <2>3. MemProtOp(r, p) \in Calm
    BY <1>1 DEF Calm
  <2>4. <<MemProtOp(r, p)>> \in Seq(Calm)
    BY <2>3
  <2>5. Protecting(c, r, p) = [cells |-> m, ops |-> <<MemProtOp(r, p)>>]
    BY DEF Protecting, m
  <2> QED
    BY <2>2, <2>4, <2>5
<1>7. ASSUME NEW d \in [1..n -> Byte]
      PROVE  LET w == Storing(c, r, d) IN w.cells \in Memories /\ w.ops \in Seq(Calm)
  <2> DEFINE m == [x \in DOMAIN c |-> IF x \in Span(r) THEN [c[x] EXCEPT !.byte = d[x - r[1] + 1]] ELSE c[x]]
  <2>1. m \in [D -> Cell]
    <3>1. \A x \in Span(r) : d[x - r[1] + 1] \in Byte
      BY <1>3
    <3> QED
      BY <1>2, <3>1 DEF Cell
  <2> HIDE DEF m
  <2>2. m \in Memories
    BY <2>1 DEF Memories
  <2>3. d \in Seq(Byte) /\ Len(d) = Size(r)
    BY <1>1
  <2>4. MemWriteOp(r, d) \in Calm
    BY <1>1, <2>3 DEF Calm
  <2>5. <<MemWriteOp(r, d)>> \in Seq(Calm)
    BY <2>4
  <2>6. Storing(c, r, d) = [cells |-> m, ops |-> <<MemWriteOp(r, d)>>]
    BY DEF Storing, m
  <2> QED
    BY <2>2, <2>5, <2>6
<1>8. \/ \E p \in Prots : work = Mapping(c, r, p)
      \/ work = Unmapping(c, r)
      \/ \E p \in Prots : work = Protecting(c, r, p)
      \/ \E d \in [1..n -> Byte] : work = Storing(c, r, d)
  BY DEF KernelWork, n
<1> QED
  BY <1>4, <1>5, <1>6, <1>7, <1>8

LEMMA NewReplayIs == Idle(NewReplay) /\ NewReplay.pc = 0 /\ NewReplay.inscount = 0
<1>1. <<>> \in Seq(Page) /\ <<>> \in Calls /\ <<>> \in Seq(Calm) /\ [n \in Regs |-> 0] \in [Regs -> Values]
  BY TraceAssumption DEF Calls, Falling
<1> QED
  BY <1>1 DEF Idle, NewReplay, ReplayType

-----------------------------------------------------------------------------
(* The invariant.                                                          *)

Machine == [pc : Nat \ {0}, regs : [Regs -> Values], cells : Memories]

\* A log begins with the keyframe, and goes on with the jump to the first instruction.
IsLog(l) ==
  /\ l \in Seq(Fed \cup Keyframes) /\ Len(l) >= 1 /\ l[1] \in Keyframes
  /\ \A i \in 2..Len(l) : l[i] \in Fed
  /\ Len(l) >= 2 => l[2] \in Jumps

TypesOK ==
  /\ machine \in Machine /\ tr \in TraceType /\ tr.sent = <<>>
  /\ Idle(replay) /\ past \in Seq(Machine) /\ rewinds \in Nat /\ again \in BOOLEAN
  /\ at \in {"start", "arrived", "next", "jumped", "stopped", "done"}

\* The replay is the log's, as long as none was cut off it.
LogReplays ==
  /\ IsLog(log)
  /\ Len(log) = 1 => at = "start" /\ ~tr.step
  /\ rewinds = 0 => replay = FeedAll(NewReplay, log)

\* The step that waits is the instruction that Main is behind the hooks of, or the
\* one it did last; they are the same when it came to itself.
AtHook ==
  /\ tr.insys => at \in {"next", "done"} /\ ~again
  /\ again => at # "next"
  /\ at \in {"start", "stopped"} => tr.stepAddr = IF tr.step THEN machine.pc ELSE 0
  /\ at = "arrived" => tr.step /\ tr.stepAddr = machine.pc
  /\ at \in {"next", "jumped"} => tr.step /\ (tr.stepAddr = machine.pc <=> again)

Counted ==
  /\ at # "done" /\ rewinds < 2 => replay.inscount + 1 = Len(past)
  /\ rewinds = 0 /\ at \in {"start", "arrived", "stopped"} /\ ~again => Last(past) = machine

TraceInv == TypesOK /\ LogReplays /\ AtHook /\ Counted

LEMMA InitHolds == Init => TraceInv
<1> SUFFICES ASSUME Init
             PROVE  TraceInv
  OBVIOUS
<1>1. PICK v \in Values : \E pages \in Loaded :
        LET regs == [n \in Regs |-> IF n = SP THEN v ELSE 0]
            kf == KeyframeOf(regs, pages) IN
        /\ machine = [pc |-> 1, regs |-> regs, cells |-> Cells(pages)]
        /\ tr = NewTrace(regs)
        /\ log = <<kf>> /\ replay = Feed(NewReplay, kf)
        /\ at = "start" /\ past = <<machine>> /\ rewinds = 0 /\ again = FALSE
  BY DEF Init
<1> DEFINE regs == [n \in Regs |-> IF n = SP THEN v ELSE 0]
<1>2. PICK pages \in Loaded :
        /\ machine = [pc |-> 1, regs |-> regs, cells |-> Cells(pages)]
        /\ tr = NewTrace(regs)
        /\ log = <<KeyframeOf(regs, pages)>> /\ replay = Feed(NewReplay, KeyframeOf(regs, pages))
        /\ at = "start" /\ past = <<machine>> /\ rewinds = 0 /\ again = FALSE
  BY <1>1
<1>3. regs \in [Regs -> Values]
  BY TraceAssumption
<1> HIDE DEF regs
<1> DEFINE kf == KeyframeOf(regs, pages)
<1>4. pages \in Seq(Page)
  BY TraceAssumption
<1>5. machine \in Machine
  BY <1>2, <1>3, <1>4, CellsAreCells DEF Machine
<1>6. tr \in TraceType /\ tr.sent = <<>> /\ ~tr.insys /\ ~tr.step /\ tr.stepAddr = 0
  <2>1. <<>> \in Seq(Fed) /\ <<>> \in Seq(Calm) /\ <<>> \in Seq({Frame(ops) : ops \in Seq(Fed)})
    OBVIOUS
  <2> QED
    BY <1>2, <1>3, <2>1 DEF NewTrace, TraceType
<1>7. PICK ops \in Seq(Calm) : kf = Keyframe(ops)
  BY <1>3, <1>4, KeyframeIs DEF Keyframes
<1>8. kf \in Keyframes
  BY <1>7 DEF Keyframes
<1>9. Idle(replay) /\ replay.inscount = 0
  BY <1>2, <1>7, NewReplayIs, FeedKeyframe DEF Stays
<1>10. replay = FeedAll(NewReplay, log)
  <2>1. <<>> \in Seq({}) /\ log = Append(<<>>, kf)
    BY <1>2
  <2> HIDE DEF kf
  <2>2. FeedAll(NewReplay, Append(<<>>, kf)) = Feed(FeedAll(NewReplay, <<>>), kf)
    BY <2>1, FeedOneMore
  <2> QED
    BY <1>2, <2>1, <2>2, FeedNone DEF kf
<1>11. IsLog(log) /\ Len(log) = 1
  <2> HIDE DEF kf
  <2>1. log = <<kf>>
    BY <1>2 DEF kf
  <2> QED
    BY <1>8, <2>1 DEF IsLog
<1>12. past \in Seq(Machine) /\ Len(past) = 1 /\ Last(past) = machine
  BY <1>2, <1>5 DEF Last
<1>13. TypesOK
  BY <1>2, <1>5, <1>6, <1>9, <1>12 DEF TypesOK
<1>14. LogReplays
  BY <1>2, <1>6, <1>10, <1>11 DEF LogReplays
<1>15. AtHook
  BY <1>2, <1>6 DEF AtHook
<1>16. Counted
  BY <1>9, <1>12 DEF Counted
<1> QED
  BY <1>13, <1>14, <1>15, <1>16 DEF TraceInv

\* A recorder's call: what it sends is fed and logged.
LEMMA RecordHolds ==
  ASSUME TraceInv, NEW t \in TraceType, Record(t), rewinds' = rewinds,
         IF Len(log) = 1 THEN \E a \in Nat \ {0} : t.sent = <<Jmp(a)>> ELSE TRUE
  PROVE  /\ tr' = [t EXCEPT !.sent = <<>>, !.packed = <<>>] /\ tr' \in TraceType /\ tr'.sent = <<>>
         /\ Idle(replay') /\ replay = FeedAll(replay, tr.sent) /\ replay' = FeedAll(replay, t.sent)
         /\ rewinds' = 0 => replay' = FeedAll(NewReplay, log')
         /\ IsLog(log') /\ (t.sent # <<>> \/ Len(log) # 1 => Len(log') >= 2)
<1>1. tr' = [t EXCEPT !.sent = <<>>, !.packed = <<>>] /\ replay' = FeedAll(replay, t.sent) /\ log' = log \o t.sent
  BY DEF Record
<1>2. tr' \in TraceType /\ tr'.sent = <<>>
  <2>1. <<>> \in Seq(Fed) /\ <<>> \in Seq({Frame(ops) : ops \in Seq(Fed)})
    OBVIOUS
  <2> QED
    BY <1>1, <2>1 DEF TraceType
<1>3. t.sent \in Seq(Fed) /\ Idle(replay) /\ IsLog(log)
  BY SentIsFed DEF TraceInv, TypesOK, LogReplays
<1>4. Idle(replay')
  BY <1>1, <1>3, FeedAllGoesOn DEF GoesOn
<1>5. replay = FeedAll(replay, tr.sent)
  BY FeedNone DEF TraceInv, TypesOK
<1>6. rewinds' = 0 => replay' = FeedAll(NewReplay, log')
  <2>1. log \in Seq(Fed \cup Keyframes) /\ t.sent \in Seq(Fed \cup Keyframes)
    BY <1>3 DEF IsLog
  <2> QED
    BY <1>1, <2>1, FeedMore DEF TraceInv, LogReplays
<1>7. IsLog(log') /\ (t.sent # <<>> \/ Len(log) # 1 => Len(log') >= 2)
  <2> DEFINE s == t.sent
  <2>1. /\ log \in Seq(Fed \cup Keyframes) /\ Len(log) >= 1 /\ log[1] \in Keyframes /\ s \in Seq(Fed)
        /\ \A i \in 2..Len(log) : log[i] \in Fed
        /\ Len(log) >= 2 => log[2] \in Jumps
        /\ Len(log) \in Nat
    BY <1>3 DEF IsLog
  <2>2. log' = log \o s
    BY <1>1
  <2>3. Len(log) = 1 => \E a \in Nat \ {0} : s = <<Jmp(a)>>
    OBVIOUS
  <2> HIDE DEF s
  <2>4. log' \in Seq(Fed \cup Keyframes) /\ Len(log') = Len(log) + Len(s) /\ Len(s) \in Nat
    BY <2>1, <2>2
  <2>5. \A i \in 1..Len(log') : log'[i] = IF i <= Len(log) THEN log[i] ELSE s[i - Len(log)]
    BY <2>1, <2>2, <2>4
  <2>6. log'[1] \in Keyframes
    BY <2>1, <2>4, <2>5
  <2>7. \A i \in 2..Len(log') : log'[i] \in Fed
    BY <2>1, <2>4, <2>5
  <2>8. Len(log') >= 2 => log'[2] \in Jumps
    <3>1. CASE Len(log) = 1
      <4>1. PICK a \in Nat \ {0} : s = <<Jmp(a)>>
        BY <2>3, <3>1
      <4>2. s[1] = Jmp(a)
        BY <4>1
      <4>3. s[1] \in Jumps
        BY <4>2 DEF Jumps
      <4> QED
        BY <2>4, <2>5, <3>1, <4>3
    <3>2. CASE Len(log) # 1
      <4>1. Len(log) \in Nat /\ Len(log) >= 2 /\ log[2] \in Jumps
        <5> DEFINE n == Len(log)
        <5>1. n \in Nat /\ n >= 1 /\ n # 1 /\ (n >= 2 => log[2] \in Jumps)
          BY <2>1, <3>2
        <5> HIDE DEF n
        <5>2. n >= 2
          BY <5>1
        <5> QED
          BY <5>1, <5>2 DEF n
      <4>2. 2 \in 1..Len(log')
        BY <2>4, <4>1
      <4>3. log'[2] = log[2]
        BY <2>5, <4>1, <4>2
      <4> QED
        BY <4>1, <4>3
    <3> QED
      BY <3>1, <3>2
  <2>9. s # <<>> \/ Len(log) # 1 => Len(log') >= 2
    <3>1. s # <<>> => Len(s) >= 1
      BY <2>1
    <3>2. Len(log) \in Nat /\ Len(log) >= 1 /\ Len(s) \in Nat /\ Len(log') = Len(log) + Len(s)
      BY <2>1, <2>4
    <3> DEFINE n == Len(log)
               m == Len(log')
               k == Len(s)
    <3>3. (s # <<>> => k >= 1) /\ n \in Nat /\ n >= 1 /\ k \in Nat /\ m = n + k
      BY <3>1, <3>2
    <3> HIDE DEF n, m, k
    <3>4. s # <<>> \/ n # 1 => m >= 2
      BY <3>3
    <3> QED
      BY <3>4 DEF n, m
  <2> QED
    BY <2>4, <2>6, <2>7, <2>8, <2>9, <2>1 DEF IsLog, s
<1> QED
  BY <1>1, <1>2, <1>4, <1>5, <1>6, <1>7

-----------------------------------------------------------------------------
(* Each action keeps it.                                                   *)

\* The hooks count the step that waited, unless it is this one, and are counted on.
LEMMA ArriveHolds ==
  ASSUME TraceInv, Arrive
  PROVE  TraceInv'
<1> DEFINE t == IF at = "next" THEN tr ELSE OnJmp(tr, machine.pc, machine.regs)
           n == OnStep(t, machine.pc, machine.regs)
           more == IF at = "start" \/ again THEN 0 ELSE 1
<1>1. /\ at \in {"start", "jumped", "next"} /\ Record(n) /\ at' = "arrived"
      /\ past' = (IF at = "start" \/ again THEN past ELSE Append(past, machine))
      /\ machine' = machine /\ rewinds' = rewinds /\ again' = again
  BY DEF Arrive
<1>2. /\ machine \in Machine /\ machine.pc \in Nat \ {0} /\ machine.regs \in [Regs -> Values]
      /\ tr \in TraceType /\ tr.sent = <<>> /\ Idle(replay) /\ past \in Seq(Machine) /\ rewinds \in Nat
      /\ again \in BOOLEAN
  BY DEF TraceInv, TypesOK, Machine
<1>3. /\ at = "start" => ~tr.insys /\ tr.stepAddr = IF tr.step THEN machine.pc ELSE 0
      /\ at = "jumped" => ~tr.insys /\ tr.step /\ (tr.stepAddr = machine.pc <=> again)
      /\ at = "next" => tr.step /\ tr.stepAddr # machine.pc /\ ~again
      /\ Len(log) = 1 => at = "start" /\ ~tr.step
  BY <1>1 DEF TraceInv, AtHook, LogReplays
<1>4. /\ n \in TraceType /\ ~n.insys /\ n.step /\ n.stepAddr = machine.pc
      /\ Counts(FeedAll(replay, tr.sent), FeedAll(replay, n.sent), more)
      /\ Len(log) = 1 => n.sent = Append(tr.sent, Jmp(machine.pc))
  <2>1. CASE at = "next"
    <3>1. n = OnStep(tr, machine.pc, machine.regs) /\ more = 1
      BY <1>3, <2>1
    <3> HIDE DEF n, more
    <3> QED
      BY <1>2, <1>3, <2>1, <3>1, OnStepSends
  <2>2. CASE at \in {"start", "jumped"}
    <3>1. n = OnStep(OnJmp(tr, machine.pc, machine.regs), machine.pc, machine.regs)
      BY <2>2
    <3>2. more = IF tr.step /\ machine.pc # tr.stepAddr THEN 1 ELSE 0
      BY <1>3, <2>2
    <3>3. IF tr.step THEN TRUE ELSE machine.pc # tr.stepAddr
      BY <1>2, <1>3, <2>2
    <3> HIDE DEF n, more
    <3> QED
      BY <1>2, <1>3, <2>2, <3>1, <3>2, <3>3, OnJmpSends
  <2> QED
    BY <1>1, <2>1, <2>2
<1> HIDE DEF t, n
<1>5. IF Len(log) = 1 THEN \E a \in Nat \ {0} : n.sent = <<Jmp(a)>> ELSE TRUE
  <2> DEFINE op == Jmp(machine.pc)
  <2> HIDE DEF op
  <2>1. Append(<<>>, op) = <<op>>
    OBVIOUS
  <2> QED
    BY <1>2, <1>4, <2>1 DEF op
<1>6. /\ tr' = [n EXCEPT !.sent = <<>>, !.packed = <<>>] /\ tr' \in TraceType /\ tr'.sent = <<>>
      /\ Idle(replay') /\ replay = FeedAll(replay, tr.sent) /\ replay' = FeedAll(replay, n.sent)
      /\ rewinds' = 0 => replay' = FeedAll(NewReplay, log')
      /\ IsLog(log') /\ (n.sent # <<>> \/ Len(log) # 1 => Len(log') >= 2)
  BY <1>1, <1>4, <1>5, RecordHolds
<1>7. Counts(replay, replay', more)
  BY <1>4, <1>6
<1>8. Len(log') >= 2
  <2>1. Len(log) = 1 => n.sent # <<>>
    <3>1. \A op : Append(tr.sent, op) # <<>>
      BY <1>2
    <3> QED
      BY <1>4, <3>1
  <2> QED
    BY <1>6, <2>1
<1>9. /\ past' \in Seq(Machine) /\ Len(past') = Len(past) + more /\ Len(past) \in Nat
      /\ at = "start" \/ again => past' = past
      /\ ~(at = "start" \/ again) => Last(past') = machine
  <2>1. Len(past) \in Nat
    BY <1>2
  <2>2. CASE at = "start" \/ again
    BY <1>1, <1>2, <2>1, <2>2
  <2>3. CASE ~(at = "start" \/ again)
    <3> DEFINE p == Append(past, machine)
    <3>1. p \in Seq(Machine) /\ Len(p) = Len(past) + 1 /\ Last(p) = machine
      BY <1>2 DEF Last
    <3> HIDE DEF p
    <3>2. past' = p /\ more = 1
      BY <1>1, <2>3 DEF p
    <3> QED
      BY <2>1, <2>3, <3>1, <3>2
  <2> QED
    BY <2>2, <2>3
<1>10. TypesOK'
  BY <1>1, <1>2, <1>6, <1>9 DEF TypesOK
<1>11. LogReplays'
  <2>1. Len(log') # 1
    BY <1>8
  <2> QED
    BY <1>6, <2>1 DEF LogReplays
<1>12. AtHook'
  <2>1. ~tr'.insys /\ tr'.step /\ tr'.stepAddr = machine'.pc
    BY <1>1, <1>4, <1>6 DEF TraceType
  <2> QED
    BY <1>1, <2>1 DEF AtHook
<1>13. Counted'
  <2>1. rewinds < 2 => replay.inscount + 1 = Len(past)
    BY <1>1 DEF TraceInv, Counted
  <2>2. replay'.inscount = replay.inscount + more /\ replay.inscount \in Nat /\ more \in Nat
    BY <1>7 DEF Counts, Idle, ReplayType
  <2>3. rewinds < 2 => replay'.inscount + 1 = Len(past')
    BY <1>9, <2>1, <2>2
  <2>4. rewinds = 0 /\ ~again => Last(past') = machine'
    BY <1>1, <1>9 DEF TraceInv, Counted
  <2> QED
    BY <1>1, <2>3, <2>4 DEF Counted
<1> QED
  BY <1>10, <1>11, <1>12, <1>13 DEF TraceInv

\* Work records what waits for the step, in a system call or not.
LEMMA WorkKeeps ==
  ASSUME TraceInv, at = "arrived", NEW b \in TraceType, b.sent = <<>>, b.step, b.stepAddr = machine.pc,
         NEW t, Kept(b, t), Record(t), rewinds' = rewinds, past' = past,
         machine' \in Machine, again' \in BOOLEAN,
         IF again' THEN machine'.pc = machine.pc ELSE machine'.pc # machine.pc,
         at' \in {"next", "jumped"}, b.insys => at' = "next", again' => at' = "jumped"
  PROVE  TraceInv'
<1>1. Idle(replay) /\ past \in Seq(Machine) /\ rewinds \in Nat /\ Len(log) # 1
  BY DEF TraceInv, TypesOK, LogReplays
<1>2. t \in TraceType /\ t.insys = b.insys /\ t.step /\ t.stepAddr = machine.pc
  BY DEF Kept
<1>3. /\ tr' = [t EXCEPT !.sent = <<>>, !.packed = <<>>] /\ tr' \in TraceType /\ tr'.sent = <<>>
      /\ Idle(replay') /\ replay' = FeedAll(replay, t.sent)
      /\ rewinds' = 0 => replay' = FeedAll(NewReplay, log')
      /\ IsLog(log') /\ Len(log') >= 2
  BY <1>1, <1>2, RecordHolds
<1>4. Stays(replay, replay')
  <2>1. FeedAll(replay, b.sent) = replay
    BY FeedNone
  <2> QED
    BY <1>1, <1>3, <2>1, KeptFeeds
<1>5. TypesOK'
  BY <1>1, <1>3 DEF TypesOK
<1>6. LogReplays'
  <2> DEFINE n == Len(log')
  <2>1. n >= 2
    BY <1>3
  <2> HIDE DEF n
  <2>2. n # 1
    BY ONLY <2>1
  <2> QED
    BY <1>3, <2>2 DEF LogReplays, n
<1>7. AtHook'
  <2>1. tr'.insys = b.insys /\ tr'.step /\ tr'.stepAddr = machine.pc
    BY <1>2, <1>3 DEF TraceType
  <2> QED
    BY <2>1 DEF AtHook
<1>8. Counted'
  <2>1. rewinds < 2 => replay.inscount + 1 = Len(past)
    BY DEF TraceInv, Counted
  <2> QED
    BY <1>4, <2>1 DEF Counted, Stays
<1> QED
  BY <1>5, <1>6, <1>7, <1>8 DEF TraceInv

LEMMA FetchedIs ==
  ASSUME NEW next, Fetched(next)
  PROVE  /\ at' \in {"next", "jumped"} /\ (next = machine.pc + 1 => at' = "next")
         /\ machine.pc \in Nat /\ next = machine.pc => at' = "jumped"
<1>1. machine.pc \in Nat => machine.pc # machine.pc + 1
  OBVIOUS
<1> QED
  BY <1>1 DEF Fetched

LEMMA WorkHolds ==
  ASSUME TraceInv, Work
  PROVE  TraceInv'
<1>1. at = "arrived" /\ past' = past /\ rewinds' = rewinds
  BY DEF Work
<1>2. /\ tr \in TraceType /\ tr.sent = <<>> /\ tr.step /\ tr.stepAddr = machine.pc /\ ~tr.insys
      /\ machine \in Machine
  BY <1>1 DEF TraceInv, TypesOK, AtHook
<1>3. machine.pc \in Nat /\ machine.regs \in [Regs -> Values] /\ machine.cells \in Memories
  BY <1>2 DEF Machine
<1>4. Kept(tr, tr)
  <2>1. <<>> \in Seq(Calm)
    OBVIOUS
  <2> QED
    BY <1>2, <2>1, SentIsFed DEF Kept
<1>5. PICK next \in Code :
        /\ \/ machine' = [machine EXCEPT !.pc = next] /\ Record(tr)
           \/ \E v \in Values : machine' = [machine EXCEPT !.pc = next, !.regs[SP] = v] /\ Record(tr)
           \/ \E x \in DOMAIN machine.cells, byte \in Byte :
                /\ machine' = [machine EXCEPT !.pc = next, !.cells[x].byte = byte]
                /\ Record(Put(tr, MemWriteOp(<<x, x + 1>>, <<byte>>), FALSE))
        /\ Fetched(next) /\ again' = (next = machine.pc)
  BY DEF Work
<1>6. next \in Nat \ {0}
  BY TraceAssumption
<1>7. at' \in {"next", "jumped"} /\ again' \in BOOLEAN /\ (again' => at' = "jumped")
  BY <1>3, <1>5, FetchedIs
<1>8. CASE machine' = [machine EXCEPT !.pc = next] /\ Record(tr)
  <2>1. machine'.pc = next /\ machine' \in Machine
    BY <1>2, <1>6, <1>8 DEF Machine
  <2>2. again' <=> machine'.pc = machine.pc
    BY <1>5, <2>1
  <2> QED
    BY <1>1, <1>2, <1>4, <1>7, <1>8, <2>1, <2>2, WorkKeeps
<1>9. CASE \E v \in Values : machine' = [machine EXCEPT !.pc = next, !.regs[SP] = v] /\ Record(tr)
  <2>1. PICK v \in Values : machine' = [machine EXCEPT !.pc = next, !.regs[SP] = v] /\ Record(tr)
    BY <1>9
  <2> DEFINE regs == [machine.regs EXCEPT ![SP] = v]
  <2>2. machine' = [machine EXCEPT !.pc = next, !.regs = regs]
    BY <2>1
  <2>3. regs \in [Regs -> Values]
    BY <1>3
  <2> HIDE DEF regs
  <2>4. machine'.pc = next /\ machine' \in Machine
    BY <1>2, <1>6, <2>2, <2>3 DEF Machine
  <2>5. again' <=> machine'.pc = machine.pc
    BY <1>5, <2>4
  <2> QED
    BY <1>1, <1>2, <1>4, <1>7, <2>1, <2>4, <2>5, WorkKeeps
<1>10. CASE \E x \in DOMAIN machine.cells, byte \in Byte :
              /\ machine' = [machine EXCEPT !.pc = next, !.cells[x].byte = byte]
              /\ Record(Put(tr, MemWriteOp(<<x, x + 1>>, <<byte>>), FALSE))
  <2>1. PICK x \in DOMAIN machine.cells, byte \in Byte :
          /\ machine' = [machine EXCEPT !.pc = next, !.cells[x].byte = byte]
          /\ Record(Put(tr, MemWriteOp(<<x, x + 1>>, <<byte>>), FALSE))
    BY <1>10
  <2>2. PICK D \in SUBSET Nat : machine.cells \in [D -> Cell]
    BY <1>3 DEF Memories
  <2> DEFINE cells == [machine.cells EXCEPT ![x].byte = byte]
  <2>3. cells \in [D -> Cell]
    <3>1. x \in D /\ machine.cells[x] \in Cell
      BY <2>1, <2>2
    <3>2. [machine.cells[x] EXCEPT !.byte = byte] \in Cell
      BY <3>1 DEF Cell
    <3>3. cells = [machine.cells EXCEPT ![x] = [machine.cells[x] EXCEPT !.byte = byte]]
      OBVIOUS
    <3> QED
      BY <2>2, <3>1, <3>2, <3>3
  <2>4. cells \in Memories
    BY <2>3 DEF Memories
  <2>5. machine' = [machine EXCEPT !.pc = next, !.cells = cells]
    BY <2>1
  <2> HIDE DEF cells
  <2>6. machine'.pc = next /\ machine' \in Machine
    BY <1>2, <1>6, <2>4, <2>5 DEF Machine
  <2>7. again' <=> machine'.pc = machine.pc
    BY <1>5, <2>6
  <2> DEFINE r == <<x, x + 1>>
             d == <<byte>>
  <2>8. r \in Spans /\ d \in Seq(Byte) /\ Size(r) = Len(d)
    BY <2>1, <2>2 DEF Spans, Size
  <2>9. Record(PutOne(tr, MemWriteOp(r, d)))
    BY <2>1 DEF PutOne
  <2> HIDE DEF r, d
  <2>10. MemWriteOp(r, d) \in Calm
    BY <2>8 DEF Calm
  <2>11. Kept(tr, PutOne(tr, MemWriteOp(r, d)))
    BY <1>2, <2>10, PutCalm
  <2> QED
    BY <1>1, <1>2, <1>7, <2>6, <2>7, <2>9, <2>11, WorkKeeps
<1> QED
  BY <1>5, <1>8, <1>9, <1>10

\* A system call's operations wait, but for one that begins a frame.
LEMMA SyscallHolds ==
  ASSUME TraceInv, SyscallWork
  PROVE  TraceInv'
<1>1. /\ at = "arrived" /\ past' = past /\ rewinds' = rewinds /\ Fetched(machine.pc + 1)
      /\ again' = again /\ ~again /\ again' \in BOOLEAN
  BY DEF SyscallWork, TraceInv, TypesOK
<1>2. /\ tr \in TraceType /\ tr.sent = <<>> /\ tr.step /\ tr.stepAddr = machine.pc /\ ~tr.insys
      /\ machine \in Machine
  BY <1>1 DEF TraceInv, TypesOK, AtHook
<1>3. machine.pc \in Nat /\ machine.regs \in [Regs -> Values] /\ machine.cells \in Memories
  BY <1>2 DEF Machine
<1>4. PICK r \in Ranges, v \in Values, ret \in Values : \E work \in KernelWork(machine.cells, r) :
        LET regs == [machine.regs EXCEPT ![SP] = v] IN
        /\ machine' = [pc |-> machine.pc + 1, regs |-> [regs EXCEPT ![Ret] = ret], cells |-> work.cells]
        /\ Record(OnSysPost(PutAll(OnSysPre(tr), work.ops), regs))
  BY DEF SyscallWork
<1> DEFINE regs == [machine.regs EXCEPT ![SP] = v]
<1>5. PICK work \in KernelWork(machine.cells, r) :
        /\ machine' = [pc |-> machine.pc + 1, regs |-> [regs EXCEPT ![Ret] = ret], cells |-> work.cells]
        /\ Record(OnSysPost(PutAll(OnSysPre(tr), work.ops), regs))
  BY <1>4
<1>6. regs \in [Regs -> Values]
  BY <1>3
<1> HIDE DEF regs
<1>7. work.cells \in Memories /\ work.ops \in Seq(Calm)
  BY <1>3, KernelWorkIs
<1>8. machine' \in Machine /\ machine'.pc # machine.pc
  <2> DEFINE pc == machine.pc + 1
             after == [regs EXCEPT ![Ret] = ret]
  <2>1. pc \in Nat \ {0} /\ pc # machine.pc
    BY <1>3
  <2>2. after \in [Regs -> Values]
    BY <1>6
  <2>3. machine' = [pc |-> pc, regs |-> after, cells |-> work.cells]
    BY <1>5
  <2> HIDE DEF pc, after
  <2> QED
    BY <1>7, <2>1, <2>3, <2>2 DEF Machine
<1> DEFINE b == OnSysPre(tr)
           p == PutAll(b, work.ops)
           t == OnSysPost(p, regs)
<1>9. b \in TraceType /\ b.sent = <<>> /\ b.step /\ b.stepAddr = machine.pc /\ b.insys
  <2>1. <<>> \in Seq(Calm) /\ FlushSys(tr) = tr
    BY <1>2 DEF FlushSys
  <2> QED
    BY <1>2, <2>1 DEF OnSysPre, TraceType
<1> HIDE DEF b
<1>10. Kept(b, p)
  BY <1>7, <1>9, PutAllCalm
<1> HIDE DEF p
<1>11. Kept(p, t)
  <2>1. p \in TraceType /\ p.insys
    BY <1>9, <1>10 DEF Kept
  <2>2. t = RegUpdate(p, regs)
    BY <2>1 DEF OnSysPost
  <2> QED
    BY <1>6, <2>1, <2>2, RegUpdateKeeps
<1>12. Record(t)
  BY <1>5 DEF t, p, b
<1> HIDE DEF t
<1>13. Kept(b, t)
  BY <1>10, <1>11, KeptFurther
<1> QED
  BY <1>1, <1>8, <1>9, <1>12, <1>13, FetchedIs, WorkKeeps

\* OnExit and the last FlushStep.
LEMMA FinishHolds ==
  ASSUME TraceInv, Finish
  PROVE  TraceInv'
<1>1. /\ at = "arrived" /\ at' = "done" /\ past' = past /\ rewinds' = rewinds /\ machine' = machine
      /\ again' = again
  BY DEF Finish
<1>2. /\ tr \in TraceType /\ again \in BOOLEAN /\ machine \in Machine /\ machine.regs \in [Regs -> Values]
      /\ past \in Seq(Machine) /\ rewinds \in Nat /\ Len(log) # 1 /\ ~tr.insys
  BY <1>1 DEF TraceInv, TypesOK, LogReplays, AtHook, Machine
<1> DEFINE b(sys) == IF sys THEN OnSysPre(tr) ELSE tr
           e(sys) == OnExit(b(sys))
           f(sys) == FlushStep(e(sys), machine.regs)
           t(sys) == [f(sys) EXCEPT !.packed = Append(@, Frame(f(sys).frame)), !.frame = <<>>]
<1>3. PICK sys \in BOOLEAN : Record(t(sys))
  BY DEF Finish
<1>4. b(sys) \in TraceType
  <2>1. CASE sys
    <3>1. <<>> \in Seq(Calm) /\ FlushSys(tr) = tr
      BY <1>2 DEF FlushSys
    <3> QED
      BY <1>2, <2>1, <3>1 DEF OnSysPre, TraceType
  <2> QED
    BY <1>2, <2>1
<1> HIDE DEF b
<1>5. e(sys) \in TraceType
  <2>1. Other \in Calm
    BY DEF Calm
  <2>2. PutOne(b(sys), Other) \in TraceType
    BY <1>4, <2>1, PutCalm DEF Kept
  <2>3. FlushSys(PutOne(b(sys), Other)) \in TraceType
    BY <2>2, FlushSysSends
  <2> QED
    BY <2>3 DEF OnExit, PutOne
<1> HIDE DEF e
<1>6. f(sys) \in TraceType /\ ~f(sys).insys
  BY <1>2, <1>5, FlushStepSends
<1> HIDE DEF f
<1>7. t(sys) \in TraceType /\ t(sys).insys = f(sys).insys
  <2> DEFINE Frames == {Frame(ops) : ops \in Seq(Fed)}
             packed == Append(f(sys).packed, Frame(f(sys).frame))
  <2>1. packed \in Seq(Frames) /\ <<>> \in Seq(Fed)
    <3>1. f(sys).packed \in Seq(Frames) /\ f(sys).frame \in Seq(Fed)
      BY <1>6 DEF TraceType
    <3>2. Frame(f(sys).frame) \in Frames
      BY <3>1
    <3> HIDE DEF Frames
    <3> QED
      BY <3>1, <3>2
  <2>2. t(sys) = [f(sys) EXCEPT !.packed = packed, !.frame = <<>>]
    OBVIOUS
  <2> HIDE DEF t, packed
  <2> QED
    BY <1>6, <2>1, <2>2 DEF TraceType
<1> HIDE DEF t
<1>8. /\ tr' = [t(sys) EXCEPT !.sent = <<>>, !.packed = <<>>] /\ tr' \in TraceType /\ tr'.sent = <<>>
      /\ Idle(replay')
      /\ rewinds' = 0 => replay' = FeedAll(NewReplay, log')
      /\ IsLog(log') /\ Len(log') >= 2
      /\ ~t(sys).insys
  BY <1>1, <1>2, <1>3, <1>6, <1>7, RecordHolds
<1>9. TypesOK'
  BY <1>1, <1>2, <1>8 DEF TypesOK
<1>10. LogReplays'
  <2>1. Len(log') >= 2
    BY <1>8
  <2>2. Len(log') # 1
    BY <2>1
  <2> QED
    BY <1>8, <2>2 DEF LogReplays
<1>11. AtHook' /\ Counted'
  <2>1. ~tr'.insys
    BY <1>8 DEF TraceType
  <2> QED
    BY <1>1, <2>1 DEF AtHook, Counted
<1> QED
  BY <1>9, <1>10, <1>11 DEF TraceInv

LEMMA PromptHolds ==
  ASSUME TraceInv, Stop \/ Resume
  PROVE  TraceInv'
<1>1. /\ \/ at = "arrived" /\ at' = "stopped"
         \/ at = "stopped" /\ at' = "start"
      /\ UNCHANGED <<machine, tr, replay, log, past, again, rewinds>>
  BY DEF Stop, Resume
<1>2. TypesOK'
  BY <1>1 DEF TraceInv, TypesOK
<1>3. LogReplays'
  BY <1>1 DEF TraceInv, LogReplays
<1>4. AtHook'
  BY <1>1 DEF TraceInv, AtHook
<1>5. Counted'
  BY <1>1 DEF TraceInv, Counted
<1> QED
  BY <1>2, <1>3, <1>4, <1>5 DEF TraceInv

-----------------------------------------------------------------------------
(* Rewinding.                                                              *)

\* A part of a log after its keyframe.
LEMMA PartIsFed ==
  ASSUME NEW l, IsLog(l), NEW i \in Nat, i >= 2, NEW n \in 0..Len(l)
  PROVE  SubSeq(l, i, n) \in Seq(Fed)
<1>1. l \in Seq(Fed \cup Keyframes) /\ Len(l) \in Nat /\ \A j \in 2..Len(l) : l[j] \in Fed
  BY DEF IsLog
<1> DEFINE m == IF i <= n THEN n - i + 1 ELSE 0
<1>2. SubSeq(l, i, n) = [j \in 1..m |-> l[i + j - 1]] /\ m \in Nat
  BY <1>1
<1>3. \A j \in 1..m : i + j - 1 \in 2..Len(l)
  BY <1>1
<1> HIDE DEF m
<1> DEFINE part == [j \in 1..m |-> l[i + j - 1]]
<1>4. part \in [1..m -> Fed]
  BY <1>1, <1>3
<1>5. SubSeq(l, i, n) = part
  BY <1>2
<1> HIDE DEF part
<1>6. part \in Seq(Fed)
  BY <1>2, <1>4
<1> QED
  BY <1>5, <1>6

LEMMA FeedParts ==
  ASSUME NEW r, NEW S, NEW l \in Seq(S), NEW n \in 0..Len(l), NEW i \in 0..n
  PROVE  FeedAll(r, SubSeq(l, 1, n)) = FeedAll(FeedAll(r, SubSeq(l, 1, i)), SubSeq(l, i + 1, n))
<1> DEFINE s == SubSeq(l, 1, i)
           t == SubSeq(l, i + 1, n)
           u == SubSeq(l, 1, n)
<1>1. s \in Seq(S) /\ t \in Seq(S) /\ u = s \o t
  OBVIOUS
<1> HIDE DEF s, t, u
<1>2. FeedAll(r, s \o t) = FeedAll(FeedAll(r, s), t)
  BY <1>1, FeedMore
<1>3. FeedAll(r, u) = FeedAll(FeedAll(r, s), t)
  BY <1>1, <1>2
<1> QED
  BY <1>3 DEF s, t, u

LEMMA FeedSingle ==
  ASSUME NEW r, NEW x
  PROVE  FeedAll(r, <<x>>) = Feed(r, x)
<1> DEFINE t == <<x>>
<1>1. DOMAIN t = 1..1 /\ t[1] = x
  OBVIOUS
<1> HIDE DEF t
<1>2. Calmly!Fold(r, t) = Feed(r, x)
  BY <1>1, Calmly!FoldOfOne
<1>3. FeedAll(r, t) = Feed(r, x)
  BY <1>2, FeedAllIs
<1> QED
  BY <1>3 DEF t

LEMMA OnePart ==
  ASSUME NEW S, NEW l \in Seq(S), NEW i \in 1..Len(l)
  PROVE  SubSeq(l, i, i) = <<l[i]>>
<1> DEFINE t == SubSeq(l, i, i)
<1>1. t \in Seq(S)
  OBVIOUS
<1>2. Len(t) = 1
  OBVIOUS
<1>3. t[1] = l[i]
  OBVIOUS
<1> HIDE DEF t
<1>4. t = <<t[1]>>
  BY <1>1, <1>2
<1> QED
  BY <1>3, <1>4 DEF t

LEMMA WholePart ==
  ASSUME NEW S, NEW l \in Seq(S)
  PROVE  SubSeq(l, 1, 0) = <<>> /\ SubSeq(l, 1, Len(l)) = l
  OBVIOUS

\* What a log replays to: nothing before its first jump, and then always on.
LEMMA BeginningReplays ==
  ASSUME NEW l, IsLog(l), NEW n \in 0..Len(l)
  PROVE  LET r == FeedAll(NewReplay, SubSeq(l, 1, n)) IN
         /\ Idle(r) /\ r.inscount <= FeedAll(NewReplay, l).inscount
         /\ IF n <= 1 THEN r.pc = 0 /\ r.inscount = 0 ELSE r.pc # 0
<1>1. /\ l \in Seq(Fed \cup Keyframes) /\ Len(l) \in Nat /\ Len(l) >= 1 /\ l[1] \in Keyframes
      /\ Len(l) >= 2 => l[2] \in Jumps
  BY DEF IsLog
<1> DEFINE at0(k) == FeedAll(NewReplay, SubSeq(l, 1, k))
<1>2. at0(0) = NewReplay
  <2>1. SubSeq(l, 1, 0) = <<>>
    BY <1>1, WholePart
  <2> QED
    BY <2>1, FeedNone
<1>3. Idle(at0(1)) /\ at0(1).pc = 0 /\ at0(1).inscount = 0
  <2>1. SubSeq(l, 1, 1) = <<l[1]>>
    BY <1>1, OnePart
  <2>2. at0(1) = Feed(NewReplay, l[1])
    BY <2>1, FeedSingle
  <2>3. PICK ops \in Seq(Calm) : l[1] = Keyframe(ops)
    BY <1>1 DEF Keyframes
  <2> HIDE DEF at0
  <2> QED
    BY <2>2, <2>3, NewReplayIs, FeedKeyframe DEF Stays
<1>4. ASSUME Len(l) >= 2
      PROVE  Idle(at0(2)) /\ at0(2).pc # 0
  <2>1. at0(2) = FeedAll(at0(1), SubSeq(l, 2, 2))
    <3>1. 2 \in 0..Len(l) /\ 1 \in 0..2 /\ 1 + 1 = 2
      BY <1>1, <1>4
    <3> QED
      BY <1>1, <3>1, FeedParts
  <2>2. SubSeq(l, 2, 2) = <<l[2]>>
    BY <1>1, <1>4, OnePart
  <2> HIDE DEF at0
  <2>3. at0(2) = Feed(at0(1), l[2])
    BY <2>1, <2>2, FeedSingle
  <2>4. PICK a \in Nat \ {0} : l[2] = Jmp(a)
    BY <1>1, <1>4 DEF Jumps
  <2>5. Idle(Feed(at0(1), Jmp(a))) /\ Feed(at0(1), Jmp(a)).pc = a
    BY <1>3, FeedJmp
  <2> QED
    BY <2>3, <2>4, <2>5
<1>5. ASSUME NEW k \in 0..n
      PROVE  at0(n) = FeedAll(at0(k), SubSeq(l, k + 1, n))
  BY <1>1, FeedParts
<1>6. Idle(at0(n)) /\ IF n <= 1 THEN at0(n).pc = 0 /\ at0(n).inscount = 0 ELSE at0(n).pc # 0
  <2>1. CASE n = 0
    BY <1>2, <2>1, NewReplayIs
  <2>2. CASE n = 1
    BY <1>3, <2>2
  <2>3. CASE n >= 2
    <3>1. at0(n) = FeedAll(at0(2), SubSeq(l, 3, n)) /\ Len(l) >= 2 /\ n \in Nat
      BY <1>1, <1>5, <2>3
    <3>2. SubSeq(l, 3, n) \in Seq(Fed)
      BY PartIsFed
    <3> HIDE DEF at0
    <3>3. GoesOn(at0(2), at0(n))
      BY <1>4, <3>1, <3>2, FeedAllGoesOn
    <3>4. Idle(at0(n)) /\ at0(n).pc # 0
      BY <1>4, <3>1, <3>3 DEF GoesOn
    <3> QED
      BY <2>3, <3>1, <3>4
  <2> QED
    BY <1>1, <2>1, <2>2, <2>3
<1>7. at0(n).inscount <= FeedAll(NewReplay, l).inscount
  <2>1. at0(Len(l)) = FeedAll(NewReplay, l)
    BY <1>1, WholePart
  <2>2. \A k \in 0..Len(l) : at0(Len(l)) = FeedAll(at0(k), SubSeq(l, k + 1, Len(l)))
    BY <1>1, FeedParts
  <2>3. \A k \in 1..Len(l) : SubSeq(l, k + 1, Len(l)) \in Seq(Fed)
    BY <1>1, PartIsFed
  <2> HIDE DEF at0
  <2>4. \A k \in 1..Len(l) : Idle(at0(k)) => at0(k).inscount <= FeedAll(NewReplay, l).inscount
    <3> SUFFICES ASSUME NEW k \in 1..Len(l), Idle(at0(k))
                 PROVE  at0(k).inscount <= FeedAll(NewReplay, l).inscount
      OBVIOUS
    <3>1. FeedAll(NewReplay, l) = FeedAll(at0(k), SubSeq(l, k + 1, Len(l))) /\ SubSeq(l, k + 1, Len(l)) \in Seq(Fed)
      BY <1>1, <2>1, <2>2, <2>3
    <3> QED
      BY <3>1, FeedAllGoesOn DEF GoesOn
  <2>5. CASE n >= 1
    BY <1>6, <2>4, <2>5
  <2>6. CASE n = 0
    BY <1>1, <1>2, <1>3, <2>4, <2>6, NewReplayIs
  <2> QED
    BY <1>1, <2>5, <2>6
<1> QED
  BY <1>6, <1>7

LEMMA LesserOfTwo ==
  ASSUME NEW a \in Nat, NEW b \in Nat
  PROVE  Min({a, b}) = IF a <= b THEN a ELSE b
<1> DEFINE S == {a, b}
           m == IF a <= b THEN a ELSE b
<1>1. m \in S /\ \A n \in S : m <= n
  OBVIOUS
<1>2. \A x \in S : (\A n \in S : x <= n) => x = m
  OBVIOUS
<1> HIDE DEF S, m
<1>3. Min(S) \in S /\ \A n \in S : Min(S) <= n
  BY <1>1 DEF Min
<1>4. Min(S) = m
  BY <1>2, <1>3
<1> QED
  BY <1>4 DEF S, m

\* A rewind goes to a place behind the first jump: before it nothing is counted, and
\* no instruction's address is there.
LEMMA StopsBehind ==
  ASSUME IsLog(log), Len(log) >= 2, NEW target \in Nat, NEW addr \in Nat,
         NEW seen, seen = Replayed,
         NEW found, found = {i \in DOMAIN log : Found(i, target, addr, seen)},
         NEW stop, stop = IF found = {} THEN Len(log) + 1 ELSE Min(found)
  PROVE  stop \in 3..(Len(log) + 1)
<1>1. Len(log) \in Nat /\ DOMAIN log = 1..Len(log) /\ log[2] \in Jumps
  BY DEF IsLog
<1>2. \A i \in DOMAIN log : seen[i] = FeedAll(NewReplay, SubSeq(log, 1, i - 1))
  BY <1>1 DEF Replayed
<1>3. ASSUME NEW i \in DOMAIN log, i <= 2
      PROVE  seen[i].pc = 0 /\ seen[i].inscount = 0
  <2>1. i - 1 \in 0..Len(log) /\ i - 1 <= 1
    BY <1>1, <1>3
  <2> DEFINE r == FeedAll(NewReplay, SubSeq(log, 1, i - 1))
  <2>2. r.pc = 0 /\ r.inscount = 0
    BY <2>1, BeginningReplays
  <2> QED
    BY <1>2, <2>2
<1>4. ASSUME NEW i \in found
      PROVE  i >= 3
  <2>1. i \in DOMAIN log /\ Found(i, target, addr, seen) /\ i \in Nat
    BY <1>1
  <2> SUFFICES ASSUME i <= 2
               PROVE  FALSE
    BY <2>1
  <2>2. seen[i].pc = 0 /\ seen[i].inscount = 0
    BY <1>3, <2>1
  <2>3. target = 0 /\ addr = 0 /\ i # 1 /\ log[i] \in {Step, Jmp(0)}
    BY <2>1, <2>2 DEF Found
  <2>4. log[2] \in {Step, Jmp(0)}
    BY <1>1, <2>1, <2>3
  <2>5. Step \notin Jumps /\ Jmp(0) \notin Jumps
    BY DEF Step, Jumps, Jmp
  <2> QED
    BY <1>1, <2>4, <2>5
<1>5. found \subseteq Nat /\ \A i \in found : i \in 3..Len(log)
  BY <1>1, <1>4
<1>6. CASE found = {}
  BY <1>1, <1>6
<1>7. CASE found # {}
  <2>1. \E m \in found : \A n \in found : m <= n
    BY <1>5, <1>7, LeastIs
  <2>2. Min(found) \in found
    BY <2>1 DEF Min
  <2> QED
    BY <1>1, <1>5, <1>7, <2>2
<1> QED
  BY <1>6, <1>7

\* A rewind counts as many instructions as the history that it leaves.
LEMMA RewindHolds ==
  ASSUME TraceInv, NEW by \in Nat, NEW addr \in Nat, Rewind(by, addr), rewinds' = rewinds + 1
  PROVE  TraceInv'
<1>0. PICK seen \in {Replayed} : RewindTo(seen, by, addr)
  BY DEF Rewind
<1> DEFINE target == IF by > 0 THEN replay.inscount - by ELSE 0
           found == {i \in DOMAIN log : Found(i, target, addr, seen)}
           stop == IF found = {} THEN Len(log) + 1 ELSE Min(found)
           to == seen[stop]
           t == PutAll(tr, Restored(to))
           regs == [n \in Regs |-> IF replay.regs[n] = to.regs[n] THEN machine.regs[n] ELSE to.regs[n]]
<1>1. /\ at = "stopped" /\ at' = at /\ by <= replay.inscount
      /\ machine' = [pc |-> to.pc, regs |-> regs, cells |-> Onto(Cells(to.pages), machine.cells)]
      /\ tr' = [t EXCEPT !.sent = <<>>, !.step = FALSE, !.stepAddr = 0, !.known = regs]
      /\ log' = SubSeq(log, 1, Min({stop, Len(log)}))
      /\ replay' = [FeedAll(replay, t.sent) EXCEPT !.pages = to.pages, !.regs = to.regs, !.pc = to.pc,
                                                   !.inscount = to.inscount]
      /\ past' = SubSeq(past, 1, Min({to.inscount + 1, Len(past)}))
      /\ again' = FALSE
  BY <1>0 DEF Rewind, RewindTo
<1>2. /\ machine \in Machine /\ tr \in TraceType /\ tr.sent = <<>> /\ ~tr.insys /\ Idle(replay)
      /\ past \in Seq(Machine) /\ rewinds \in Nat
  BY <1>1 DEF TraceInv, TypesOK, AtHook
<1>3. IsLog(log) /\ Len(log) \in Nat /\ Len(log) >= 2 /\ log \in Seq(Fed \cup Keyframes)
  <2>1. IsLog(log) /\ Len(log) # 1
    BY <1>1 DEF TraceInv, LogReplays
  <2>2. Len(log) \in Nat /\ Len(log) >= 1 /\ log \in Seq(Fed \cup Keyframes)
    BY <2>1 DEF IsLog
  <2> DEFINE n == Len(log)
  <2>3. n \in Nat /\ n >= 1 /\ n # 1
    BY <2>1, <2>2
  <2> HIDE DEF n
  <2>4. n >= 2
    BY <2>3
  <2> QED
    BY <2>1, <2>2, <2>4 DEF n
<1>4. stop \in 3..(Len(log) + 1)
  <2>1. target \in Nat
    <3>1. replay.inscount \in Nat
      BY <1>2 DEF Idle, ReplayType
    <3>2. by \in Nat /\ by <= replay.inscount
      BY <1>1
    <3>3. \A n \in Nat : by <= n => n - by \in Nat
      BY <3>2
    <3> QED
      BY ONLY <3>1, <3>2, <3>3, 0 \in Nat
  <2> HIDE DEF target
  <2> QED
    BY <1>0, <1>3, <2>1, StopsBehind
<1> HIDE DEF target, found, stop
<1>5. /\ Idle(to) /\ to.pc \in Nat \ {0} /\ to.inscount \in Nat
      /\ rewinds = 0 => to.inscount <= replay.inscount
  <2> DEFINE n == stop - 1
             r == FeedAll(NewReplay, SubSeq(log, 1, n))
  <2>1. to = r
    BY <1>0, <1>3, <1>4 DEF Replayed
  <2>2. n \in 0..Len(log) /\ ~(n <= 1)
    BY <1>3, <1>4
  <2> HIDE DEF n
  <2>3. Idle(r) /\ r.inscount <= FeedAll(NewReplay, log).inscount /\ r.pc # 0
    BY <1>3, <2>2, BeginningReplays
  <2>4. rewinds = 0 => replay = FeedAll(NewReplay, log)
    BY DEF TraceInv, LogReplays
  <2> HIDE DEF r
  <2>5. r.pc \in Nat /\ r.inscount \in Nat
    BY <2>3 DEF Idle, ReplayType
  <2> HIDE DEF to
  <2> QED
    BY <2>1, <2>3, <2>4, <2>5
<1> HIDE DEF to
<1>6. to.regs \in [Regs -> Values] /\ to.pages \in Seq(Page) /\ to \in ReplayType
  BY <1>5 DEF Idle, ReplayType
<1>7. machine' \in Machine
  <2>1. machine.regs \in [Regs -> Values] /\ machine.cells \in Memories
    BY <1>2 DEF Machine
  <2>2. regs \in [Regs -> Values]
    BY <1>6, <2>1
  <2> HIDE DEF regs
  <2>3. Onto(Cells(to.pages), machine.cells) \in Memories
    BY <1>6, <2>1, CellsAreCells, OntoIsMemory
  <2> QED
    BY <1>1, <1>5, <2>2, <2>3 DEF Machine
<1>8. Kept(tr, t)
  BY <1>2, <1>6, RestoredIsCalm, PutAllCalm
<1> HIDE DEF t
<1>9. tr' \in TraceType /\ tr'.sent = <<>> /\ ~tr'.insys /\ ~tr'.step /\ tr'.stepAddr = 0
  <2>1. regs \in [Regs -> Values] /\ <<>> \in Seq(Fed)
    <3>1. machine.regs \in [Regs -> Values]
      BY <1>2 DEF Machine
    <3> QED
      BY <1>6, <3>1
  <2> HIDE DEF regs
  <2>2. t \in TraceType /\ ~t.insys
    BY <1>2, <1>8 DEF Kept
  <2> QED
    BY <1>1, <2>1, <2>2 DEF TraceType
<1> HIDE DEF regs
<1>10. Idle(replay') /\ replay'.inscount = to.inscount
  <2> DEFINE r == FeedAll(replay, t.sent)
  <2>1. Idle(r)
    BY <1>2, <1>8, KeptFeeds DEF Stays
  <2>2. replay' = [r EXCEPT !.pages = to.pages, !.regs = to.regs, !.pc = to.pc, !.inscount = to.inscount]
    BY <1>1
  <2> HIDE DEF r
  <2> QED
    BY <1>5, <1>6, <2>1, <2>2 DEF Idle, ReplayType
<1>11. past' \in Seq(Machine) /\ (to.inscount + 1 <= Len(past) => Len(past') = to.inscount + 1)
  <2> DEFINE m == Min({to.inscount + 1, Len(past)})
  <2>1. Len(past) \in Nat /\ to.inscount + 1 \in Nat
    BY <1>2, <1>5
  <2>2. m = IF to.inscount + 1 <= Len(past) THEN to.inscount + 1 ELSE Len(past)
    BY <2>1, LesserOfTwo
  <2>3. past' = SubSeq(past, 1, m)
    BY <1>1
  <2> HIDE DEF m
  <2>4. m \in 0..Len(past)
    BY <2>1, <2>2
  <2>5. past' \in Seq(Machine) /\ Len(past') = m
    BY <1>2, <2>3, <2>4
  <2> QED
    BY <2>2, <2>5
<1>12. IsLog(log') /\ Len(log') \in Nat /\ Len(log') >= 2
  <2> DEFINE m == Min({stop, Len(log)})
  <2>1. m \in 2..Len(log) /\ m \in Nat
    <3>1. stop \in Nat /\ Len(log) \in Nat
      BY <1>3, <1>4
    <3>2. m = IF stop <= Len(log) THEN stop ELSE Len(log)
      BY <3>1, LesserOfTwo
    <3> HIDE DEF m
    <3> QED
      BY <1>3, <1>4, <3>2
  <2>2. log' = SubSeq(log, 1, m)
    BY <1>1
  <2> HIDE DEF m
  <2>3. log' \in Seq(Fed \cup Keyframes) /\ Len(log') = m /\ \A i \in 1..m : log'[i] = log[i]
    BY <1>3, <2>1, <2>2
  <2>4. 1 \in 1..m /\ 2 \in 1..m /\ \A i \in 2..m : i \in 1..m /\ i \in 2..Len(log)
    BY <1>3, <2>1
  <2>5. \A i \in 2..Len(log') : log'[i] \in Fed
    BY <1>3, <2>3, <2>4 DEF IsLog
  <2>6. log'[1] \in Keyframes /\ log'[2] \in Jumps
    BY <1>3, <2>3, <2>4 DEF IsLog
  <2>7. Len(log') \in Nat /\ Len(log') >= 2
    BY <2>1, <2>3
  <2> QED
    BY <2>3, <2>5, <2>6, <2>7 DEF IsLog
<1>13. TypesOK'
  <2>1. rewinds' \in Nat
    BY <1>2
  <2> QED
    BY <1>1, <1>7, <1>9, <1>10, <1>11, <2>1 DEF TypesOK
<1>14. LogReplays'
  <2> DEFINE n == Len(log')
  <2>1. n \in Nat /\ n >= 2
    BY <1>12
  <2> HIDE DEF n
  <2>2. n # 1
    BY <2>1
  <2>3. rewinds' # 0
    BY <1>2
  <2> QED
    BY <1>12, <2>2, <2>3 DEF LogReplays, n
<1>15. AtHook'
  BY <1>1, <1>9 DEF AtHook
<1>16. Counted'
  <2>1. ASSUME rewinds = 0
        PROVE  Len(past') = to.inscount + 1
    <3>1. replay.inscount + 1 = Len(past) /\ to.inscount <= replay.inscount /\ replay.inscount \in Nat
      BY <1>1, <1>2, <1>5, <2>1 DEF TraceInv, Counted, Idle, ReplayType
    <3> QED
      BY <1>5, <1>11, <3>1
  <2>2. rewinds' < 2 => rewinds = 0
    BY <1>2
  <2>3. rewinds' # 0
    BY <1>2
  <2> QED
    BY <1>10, <2>1, <2>2, <2>3 DEF Counted
<1> QED
  BY <1>13, <1>14, <1>15, <1>16 DEF TraceInv

LEMMA StepHolds ==
  ASSUME TraceInv, [Next]_vars
  PROVE  TraceInv'
<1>1. CASE Arrive
  BY <1>1, ArriveHolds
<1>2. CASE Work
  BY <1>2, WorkHolds
<1>3. CASE SyscallWork
  BY <1>3, SyscallHolds
<1>4. CASE Finish
  BY <1>4, FinishHolds
<1>5. CASE Stop \/ Resume
  BY <1>5, PromptHolds
<1>6. CASE RewindSome
  <2>1. PICK by \in 0..MaxSteps, addr \in Code \cup {0} : Rewind(by, addr)
    BY <1>6 DEF RewindSome
  <2>2. by \in Nat /\ addr \in Nat
    BY TraceAssumption
  <2>3. rewinds' = rewinds + 1
    BY <2>1 DEF Rewind
  <2> QED
    BY <2>1, <2>2, <2>3, RewindHolds
<1>7. CASE UNCHANGED vars
  <2>1. TypesOK'
    BY <1>7 DEF TraceInv, TypesOK, vars
  <2>2. LogReplays'
    BY <1>7 DEF TraceInv, LogReplays, vars
  <2>3. AtHook'
    BY <1>7 DEF TraceInv, AtHook, vars
  <2>4. Counted'
    BY <1>7 DEF TraceInv, Counted, vars
  <2> QED
    BY <2>1, <2>2, <2>3, <2>4 DEF TraceInv
<1> QED
  BY <1>1, <1>2, <1>3, <1>4, <1>5, <1>6, <1>7 DEF Next

\* The recorder is always where Main is (trace.go:232-310), and before the machine is
\* rewound the replay is what the log replays to (usercorn.go:222-325).
THEOREM TraceInvariant == Spec => []TraceInv
  BY InitHolds, StepHolds, PTL DEF Spec

\* Whatever the program and the kernel do, and wherever Main is stopped and, once,
\* rewound, the replay's count of instructions is how many were done
\* (trace.go:303-310, usercorn.go:222-325).
THEOREM CountedOnce == Spec => []CountsOnce
<1>1. TraceInv => CountsOnce
  BY DEF TraceInv, Counted, CountsOnce
<1> QED
  BY <1>1, TraceInvariant, PTL

-----------------------------------------------------------------------------
(* What waits.                                                             *)

\* A view of a replay is its memory and its registers, all that waiting operations
\* change but the call stack.
ViewType == [pages : Seq(Page), regs : [Regs -> Values]]
View(r) == [pages |-> r.pages, regs |-> r.regs]
Recall(m, op) ==
  [pages |-> IF op.op \in {"other", "reg"} THEN m.pages ELSE Remembered(m.pages, op),
   regs |-> IF op.op = "reg" THEN [m.regs EXCEPT ![op.num] = op.val] ELSE m.regs]
RecallAll(m, ops) == FoldLeft(Recall, m, ops)

\* A replay with its effects applied, and with the operations of a system call.
Held(r) == RecallAll(View(r), r.effects)
Late(r, t) == RecallAll(Held(r), t.sysops)

InView(a, m) == a \in ViewType /\ m \in ViewType
Rec == INSTANCE Folding WITH Op <- Recall, Keeps <- InView, Fine <- LAMBDA x : x \in Calm

LEMMA RegIs ==
  ASSUME NEW op \in Calm, op.op = "reg"
  PROVE  op.num \in Regs /\ op.val \in Values
<1>1. op \in {Reg(n, v) : n \in Regs, v \in Values}
  BY DEF Calm, Other, Reg, MemMapOp, MemUnmapOp, MemProtOp, MemWriteOp
<1> QED
  BY <1>1 DEF Reg

LEMMA RecallIs ==
  ASSUME NEW m \in ViewType, NEW op \in Calm
  PROVE  Recall(m, op) \in ViewType
<1> DEFINE pages == IF op.op \in {"other", "reg"} THEN m.pages ELSE Remembered(m.pages, op)
           regs == IF op.op = "reg" THEN [m.regs EXCEPT ![op.num] = op.val] ELSE m.regs
<1>1. m.pages \in Seq(Page) /\ m.regs \in [Regs -> Values]
  BY DEF ViewType
<1>2. pages \in Seq(Page)
  BY <1>1, RememberedArePages
<1>3. regs \in [Regs -> Values]
  BY <1>1, RegIs
<1>4. Recall(m, op) = [pages |-> pages, regs |-> regs]
  BY DEF Recall
<1> HIDE DEF pages, regs
<1> QED
  BY <1>2, <1>3, <1>4 DEF ViewType

LEMMA ViewIs ==
  ASSUME NEW r \in ReplayType
  PROVE  View(r) \in ViewType
BY DEF View, ViewType, ReplayType

LEMMA UpdateRecalls ==
  ASSUME NEW r \in ReplayType, NEW op \in Calm
  PROVE  View(Update(r, op)) = Recall(View(r), op)
<1>1. op.op \notin {"jmp", "step"}
  BY CalmKinds
<1>2. CASE op.op = "other"
  <2>1. Update(r, op) = r
    BY <1>2 DEF Update
  <2> QED
    BY <1>2, <2>1 DEF Recall, View
<1>3. CASE op.op = "reg"
  <2> DEFINE stack == IF op.num = SP THEN CallsUpdate(r.stack, r.pc, op.val) ELSE r.stack
             regs == [r.regs EXCEPT ![op.num] = op.val]
  <2>1. Update(r, op) = [r EXCEPT !.regs = regs, !.stack = stack]
    BY <1>3 DEF Update
  <2>2. Recall(View(r), op) = [pages |-> r.pages, regs |-> regs]
    BY <1>3 DEF Recall, View
  <2> HIDE DEF regs, stack
  <2> QED
    BY <2>1, <2>2 DEF View, ReplayType
<1>4. CASE op.op \notin {"other", "reg"}
  <2>1. Update(r, op) = [r EXCEPT !.pages = Remembered(r.pages, op)]
    BY <1>1, <1>4 DEF Update
  <2>2. Recall(View(r), op) = [pages |-> Remembered(r.pages, op), regs |-> r.regs]
    BY <1>4 DEF Recall, View
  <2> QED
    BY <2>1, <2>2 DEF View, ReplayType
<1> QED
  BY <1>2, <1>3, <1>4

LEMMA RecallAllIs ==
  ASSUME NEW m, NEW ops
  PROVE  RecallAll(m, ops) = Rec!Fold(m, ops)
BY DEF RecallAll, Rec!Fold, FoldLeft, MapThenFoldSet, Rec!FoldLeft, Rec!MapThenFoldSet, Max, Rec!Max

LEMMA RecallNone ==
  ASSUME NEW m
  PROVE  RecallAll(m, <<>>) = m
<1>1. DOMAIN <<>> = 1..0
  OBVIOUS
<1>2. Rec!Fold(m, <<>>) = m
  BY <1>1, Rec!FoldOfNone
<1> QED
  BY <1>2, RecallAllIs

LEMMA RecallSingle ==
  ASSUME NEW m, NEW x
  PROVE  RecallAll(m, <<x>>) = Recall(m, x)
<1>1. DOMAIN <<x>> = 1..1 /\ <<x>>[1] = x
  OBVIOUS
<1>2. Rec!Fold(m, <<x>>) = Recall(m, <<x>>[1])
  BY <1>1, Rec!FoldOfOne
<1> QED
  BY <1>1, <1>2, RecallAllIs

LEMMA RecallMore ==
  ASSUME NEW m, NEW S, NEW s \in Seq(S), NEW t \in Seq(S)
  PROVE  RecallAll(m, s \o t) = RecallAll(RecallAll(m, s), t)
<1> DEFINE u == s \o t
           i == Len(s)
           j == Len(t)
<1>1. i \in Nat /\ DOMAIN s = 1..i /\ j \in Nat /\ DOMAIN t = 1..j /\ DOMAIN u = 1..(i + j)
  OBVIOUS
<1>2. (\A k \in 1..i : u[k] = s[k]) /\ (\A k \in 1..j : u[i + k] = t[k])
  OBVIOUS
<1> HIDE DEF u, i, j
<1>3. Rec!Fold(m, u) = Rec!Fold(Rec!Fold(m, s), t)
  <2>1. Rec!Joined(s, i, t, j, u)
    BY <1>1, <1>2 DEF Rec!Joined
  <2> QED
    BY <1>1, <2>1, Rec!FoldGoesOn
<1> QED
  BY <1>3, RecallAllIs DEF u

LEMMA RecallOneMore ==
  ASSUME NEW m, NEW S, NEW s \in Seq(S), NEW x \in S
  PROVE  RecallAll(m, Append(s, x)) = Recall(RecallAll(m, s), x)
<1> DEFINE t == <<x>>
<1>1. s \in Seq(S) /\ t \in Seq(S) /\ Append(s, x) = s \o t
  OBVIOUS
<1>2. RecallAll(RecallAll(m, s), t) = Recall(RecallAll(m, s), x)
  BY RecallSingle
<1> HIDE DEF t
<1>3. RecallAll(m, s \o t) = RecallAll(RecallAll(m, s), t)
  BY <1>1, RecallMore
<1> QED
  BY <1>1, <1>2, <1>3

LEMMA RecallAllHas ==
  ASSUME NEW m \in ViewType, NEW ops \in Seq(Calm)
  PROVE  RecallAll(m, ops) \in ViewType
<1> DEFINE n == Len(ops)
<1>1. n \in Nat /\ DOMAIN ops = 1..n /\ \A i \in 1..n : ops[i] \in Calm
  OBVIOUS
<1> HIDE DEF n
<1>2. InView(m, m)
  BY DEF InView
<1>3. \A b, x : InView(m, b) /\ x \in Calm => InView(m, Recall(b, x))
  BY RecallIs DEF InView
<1>4. InView(m, Rec!Fold(m, ops))
  BY <1>1, <1>2, <1>3, Rec!FoldKeeps
<1> QED
  BY <1>4, RecallAllIs DEF InView

LEMMA UpdateAllIs ==
  ASSUME NEW r, NEW ops
  PROVE  UpdateAll(r, ops) = Upd!Fold(r, ops)
BY DEF UpdateAll, Upd!Fold, FoldLeft, MapThenFoldSet, Upd!FoldLeft, Upd!MapThenFoldSet, Max, Upd!Max

\* What is applied to a replay is applied to its view.
LEMMA UpdatesRecall ==
  ASSUME NEW r \in ReplayType, NEW ops \in Seq(Calm)
  PROVE  View(UpdateAll(r, ops)) = RecallAll(View(r), ops)
<1> DEFINE n == Len(ops)
<1>1. n \in Nat /\ DOMAIN ops = 1..n /\ \A i \in 1..n : ops[i] \in Calm
  OBVIOUS
<1> HIDE DEF n
<1>2. PICK h : Upd!Chain(h, r, ops, n) /\ Upd!Fold(r, ops) = h[n]
  BY <1>1, Upd!FoldIsChain
<1>3. \A k \in 0..n : Same(r, h[k])
  <2>1. Same(r, r)
    BY DEF Same
  <2>2. \A a, x : Same(r, a) /\ x \in Calm => Same(r, Update(a, x))
    BY CalmUpdate DEF Same
  <2>3. Upd!Chain(h, r, ops, n)
    BY <1>2
  <2> QED
    BY <1>1, <2>1, <2>2, <2>3, Upd!ChainKeeps
<1>4. h[0] = r /\ \A k \in 0..(n - 1) : h[k + 1] = Update(h[k], ops[k + 1])
  BY <1>2 DEF Upd!Chain
<1> DEFINE g == [k \in 0..n |-> View(h[k])]
<1>5. g[0] = View(r) /\ g[n] = View(h[n])
  BY <1>1, <1>4
<1>6. ASSUME NEW k \in 0..(n - 1)
      PROVE  g[k + 1] = Recall(g[k], ops[k + 1])
  <2>1. k \in 0..n /\ k + 1 \in 0..n /\ k + 1 \in 1..n
    BY <1>1
  <2>2. h[k] \in ReplayType /\ ops[k + 1] \in Calm
    BY <1>1, <1>3, <2>1 DEF Same
  <2>3. g[k + 1] = View(h[k + 1]) /\ g[k] = View(h[k])
    BY <2>1
  <2> HIDE DEF g
  <2> QED
    BY <1>4, <2>2, <2>3, UpdateRecalls
<1> HIDE DEF g
<1>7. Rec!Chain(g, View(r), ops, n)
  BY <1>5, <1>6 DEF Rec!Chain
<1>8. Rec!Fold(View(r), ops) = g[n]
  <2> DEFINE v == View(r)
  <2>1. n \in Nat /\ DOMAIN ops = 1..n /\ Rec!Chain(g, v, ops, n)
    BY <1>1, <1>7
  <2> HIDE DEF v
  <2>2. Rec!Fold(v, ops) = g[n]
    BY <2>1, Rec!FoldIs
  <2> QED
    BY <2>2 DEF v
<1> QED
  BY <1>2, <1>5, <1>8, RecallAllIs, UpdateAllIs

-----------------------------------------------------------------------------
(* What feeding does to what waits.                                        *)

LEMMA CalmViews ==
  ASSUME NEW r, Idle(r), NEW op \in Calm
  PROVE  View(Feed(r, op)) = View(r) /\ Feed(r, op).effects = Append(r.effects, op)
<1>1. Feed(r, op) = [r EXCEPT !.effects = Append(r.effects, op)]
  BY FeedCalm
<1> QED
  BY <1>1 DEF View, Idle, ReplayType

\* A step applies what waits.
LEMMA StepViews ==
  ASSUME NEW r, Idle(r)
  PROVE  View(Feed(r, Step)) = Held(r) /\ Feed(r, Step).effects = <<>>
<1> DEFINE p == [r EXCEPT !.pending = TRUE]
           a == [Update(p, Step) EXCEPT !.inscount = @ + 1, !.pending = FALSE, !.effects = <<>>]
<1>1. r \in ReplayType /\ ~r.pending
  BY DEF Idle
<1>2. Feed(r, Step) = Flush(p)
  BY FlushIdle, <1>1 DEF Feed, FeedOne, Step
<1>3. p \in ReplayType /\ p.pending /\ p.effects = r.effects
  BY <1>1 DEF ReplayType
<1>4. Flush(p) = UpdateAll(a, r.effects)
  BY <1>3 DEF Flush
<1>5. a \in ReplayType /\ View(a) = View(r) /\ a.effects = <<>>
  <2>1. Update(p, Step) = [p EXCEPT !.pc = @ + 1]
    BY DEF Update, Step
  <2>2. <<>> \in Seq(Calm)
    OBVIOUS
  <2>3. r.pc + 1 \in Nat /\ r.inscount + 1 \in Nat
    BY <1>1 DEF ReplayType
  <2>4. a = [r EXCEPT !.pc = @ + 1, !.inscount = @ + 1, !.pending = FALSE, !.effects = <<>>]
    BY <1>1, <2>1 DEF ReplayType
  <2> HIDE DEF a, p
  <2> QED
    BY <1>1, <2>2, <2>3, <2>4 DEF ReplayType, View
<1>6. r.effects \in Seq(Calm)
  BY <1>1 DEF ReplayType
<1> HIDE DEF p, a
<1>7. View(UpdateAll(a, r.effects)) = RecallAll(View(a), r.effects)
  BY <1>5, <1>6, UpdatesRecall
<1>8. UpdateAll(a, r.effects).effects = <<>>
  BY <1>5, <1>6, CalmUpdates DEF Same
<1> QED
  BY <1>2, <1>4, <1>5, <1>7, <1>8 DEF Held

LEMMA JmpViews ==
  ASSUME NEW r, Idle(r), NEW a \in Nat
  PROVE  View(Feed(r, Jmp(a))) = View(r) /\ Feed(r, Jmp(a)).effects = r.effects
<1>1. r \in ReplayType /\ Flush(r) = r
  BY FlushIdle DEF Idle
<1>2. FeedOne(r, Jmp(a)) = [r EXCEPT !.pc = a]
  BY <1>1 DEF FeedOne, Jmp, Update
<1>3. [r EXCEPT !.pc = a] \in ReplayType /\ ~[r EXCEPT !.pc = a].pending
  BY <1>1 DEF Idle, ReplayType
<1>4. Feed(r, Jmp(a)) = [r EXCEPT !.pc = a]
  BY <1>2, <1>3, FlushIdle DEF Feed, Jmp, Idle
<1> QED
  BY <1>1, <1>4 DEF View, ReplayType

LEMMA CallViews ==
  ASSUME NEW r, Idle(r), NEW ops \in Seq(Calm)
  PROVE  /\ View(Feed(r, Syscall(ops))) = RecallAll(View(r), ops) /\ Feed(r, Syscall(ops)).effects = r.effects
         /\ View(Feed(r, Keyframe(ops))) = RecallAll(View(r), ops) /\ Feed(r, Keyframe(ops)).effects = r.effects
<1>1. r \in ReplayType
  BY DEF Idle
<1>2. Feed(r, Syscall(ops)) = UpdateAll(r, ops) /\ Feed(r, Keyframe(ops)) = UpdateAll(r, ops)
  BY FeedSyscall, FeedKeyframe
<1>3. View(UpdateAll(r, ops)) = RecallAll(View(r), ops) /\ UpdateAll(r, ops).effects = r.effects
  BY <1>1, UpdatesRecall, CalmUpdates DEF Same
<1> QED
  BY <1>2, <1>3

LEMMA ViewsAre ==
  ASSUME NEW r, Idle(r)
  PROVE  View(r) \in ViewType /\ Held(r) \in ViewType /\ r.effects \in Seq(Calm)
<1>1. r \in ReplayType /\ r.effects \in Seq(Calm)
  BY DEF Idle, ReplayType
<1> QED
  BY <1>1, ViewIs, RecallAllHas DEF Held

-----------------------------------------------------------------------------
(* The recorder: operations that wait, wherever they wait, come last.      *)

Ready(t) == t \in TraceType /\ IF t.insys THEN t.frame # <<>> ELSE t.sysops = <<>>
Now(r, t) == FeedAll(r, t.sent)
LateOn(m, r, t) == RecallAll(RecallAll(m, Now(r, t).effects), t.sysops)

LEMMA PutWaits ==
  ASSUME NEW t, Ready(t), NEW op \in Calm
  PROVE  LET u == PutOne(t, op)
         IN  /\ Ready(u) /\ Kept(t, u) /\ u.frame # <<>> /\ u.known = t.known
             /\ t.insys => u.sysops = Append(t.sysops, op) /\ u.sent = t.sent
             /\ ~t.insys => u.sysops = <<>> /\ t.sysops = <<>> /\ u.sent = Append(t.sent, op)
<1> DEFINE u == PutOne(t, op)
<1>1. t \in TraceType /\ Kept(t, u) /\ u \in TraceType /\ u.insys = t.insys
  BY PutCalm DEF Ready, Kept
<1>2. op \in Fed /\ op.op # "step"
  BY CalmKinds DEF Fed
<1>3. CASE t.insys
  <2>1. u = [t EXCEPT !.sysops = Append(t.sysops, op)]
    BY <1>2, <1>3 DEF Ready, PutOne, Put
  <2> HIDE DEF u
  <2>2. u.frame = t.frame /\ u.sysops = Append(t.sysops, op) /\ u.sent = t.sent /\ u.known = t.known
    BY <1>1, <2>1 DEF TraceType
  <2> QED
    BY <1>1, <1>3, <2>2 DEF Ready, u
<1>4. CASE ~t.insys
  <2>1. u.sent = Append(t.sent, op) /\ u.sysops = t.sysops /\ u.known = t.known
    BY <1>1, <1>2, <1>4, PutSends DEF PutOne
  <2>2. u.frame # <<>>
    <3>1. t.frame \in Seq(Fed)
      BY <1>1 DEF TraceType
    <3>2. CASE t.frame = <<>>
      <4>1. u.frame = <<op>>
        BY <1>1, <1>4, <3>2 DEF PutOne, Put, TraceType
      <4> QED
        BY <4>1
    <3>3. CASE t.frame # <<>>
      <4>1. u.frame = Append(t.frame, op)
        BY <1>1, <1>4, <3>3 DEF PutOne, Put, TraceType
      <4>2. Append(t.frame, op) # <<>>
        BY <1>2, <3>1
      <4> QED
        BY <4>1, <4>2
    <3> QED
      BY <3>2, <3>3
  <2>3. t.sysops = <<>>
    BY <1>4 DEF Ready
  <2> QED
    BY <1>1, <1>4, <2>1, <2>2, <2>3 DEF Ready
<1> QED
  BY <1>3, <1>4

LEMMA NowIs ==
  ASSUME NEW r, Idle(r), NEW t \in TraceType
  PROVE  /\ Idle(Now(r, t)) /\ Now(r, t) \in ReplayType /\ View(Now(r, t)) \in ViewType
         /\ Now(r, t).effects \in Seq(Calm) /\ Held(Now(r, t)) \in ViewType
         /\ t.sysops \in Seq(Calm)
<1>1. t.sent \in Seq(Fed) /\ t.sysops \in Seq(Calm)
  BY DEF TraceType
<1>2. Idle(Now(r, t))
  BY <1>1, FeedAllGoesOn DEF GoesOn, Now
<1> QED
  BY <1>1, <1>2, ViewsAre DEF Idle

LEMMA LateIs ==
  ASSUME NEW r, Idle(r), NEW t \in TraceType
  PROVE  /\ Late(Now(r, t), t) = LateOn(View(Now(r, t)), r, t)
         /\ Late(Now(r, t), t) \in ViewType
         /\ \A m \in ViewType : LateOn(m, r, t) \in ViewType
         /\ t.sysops = <<>> => Late(Now(r, t), t) = Held(Now(r, t))
<1>1. Now(r, t).effects \in Seq(Calm) /\ t.sysops \in Seq(Calm) /\ View(Now(r, t)) \in ViewType
  BY NowIs
<1>2. \A m \in ViewType : LateOn(m, r, t) \in ViewType
  BY <1>1, RecallAllHas DEF LateOn
<1> QED
  BY <1>1, <1>2, RecallNone DEF Late, LateOn, Held

LEMMA PutLate ==
  ASSUME NEW r, Idle(r), NEW t, Ready(t), NEW op \in Calm, NEW m \in ViewType
  PROVE  LET u == PutOne(t, op)
         IN  /\ View(Now(r, u)) = View(Now(r, t))
             /\ LateOn(m, r, u) = Recall(LateOn(m, r, t), op)
<1> DEFINE u == PutOne(t, op)
           a == Now(r, t)
           e == a.effects
<1>1. /\ Ready(u)
      /\ t.insys => u.sysops = Append(t.sysops, op) /\ u.sent = t.sent
      /\ ~t.insys => u.sysops = <<>> /\ t.sysops = <<>> /\ u.sent = Append(t.sent, op)
  BY PutWaits
<1>2. t \in TraceType /\ Idle(a) /\ e \in Seq(Calm) /\ t.sysops \in Seq(Calm)
  BY NowIs DEF Ready
<1> HIDE DEF u, a, e
<1>3. LateOn(m, r, t) = RecallAll(RecallAll(m, e), t.sysops)
  BY DEF LateOn, a, e
<1>4. CASE t.insys
  <2>1. Now(r, u) = a
    BY <1>1, <1>4 DEF Now, a
  <2>2. RecallAll(RecallAll(m, e), Append(t.sysops, op)) = Recall(RecallAll(RecallAll(m, e), t.sysops), op)
    BY <1>2, RecallOneMore
  <2> QED
    BY <1>1, <1>3, <1>4, <2>1, <2>2 DEF LateOn, u, a, e
<1>5. CASE ~t.insys
  <2>1. Now(r, u) = Feed(a, op)
    BY <1>1, <1>2, <1>5, SentFeeds DEF Now, a
  <2>2. View(Now(r, u)) = View(a) /\ Now(r, u).effects = Append(e, op)
    BY <1>2, <2>1, CalmViews DEF e
  <2>3. RecallAll(m, Append(e, op)) = Recall(RecallAll(m, e), op)
    BY <1>2, RecallOneMore
  <2> QED
    BY <1>1, <1>3, <1>5, <2>2, <2>3, RecallNone DEF LateOn, u, a
<1> QED
  BY <1>4, <1>5

Waits(b, t) ==
  /\ Ready(b) /\ Ready(t) /\ Kept(b, t) /\ t.known = b.known
  /\ b.insys => t.sent = b.sent
Wait == INSTANCE Folding WITH Op <- PutOne, Keeps <- Waits, Fine <- LAMBDA x : x \in Calm

LEMMA PutAllIs ==
  ASSUME NEW t, NEW ops
  PROVE  PutAll(t, ops) = Wait!Fold(t, ops)
BY DEF PutAll, Wait!Fold, FoldLeft, MapThenFoldSet, Wait!FoldLeft, Wait!MapThenFoldSet, Max, Wait!Max

LEMMA WaitsFurther ==
  ASSUME NEW b, NEW t, Waits(b, t), NEW op \in Calm
  PROVE  Waits(b, PutOne(t, op))
<1>1. /\ Ready(PutOne(t, op)) /\ Kept(t, PutOne(t, op)) /\ PutOne(t, op).known = t.known
      /\ t.insys => PutOne(t, op).sent = t.sent
  BY PutWaits DEF Waits
<1>2. Kept(b, PutOne(t, op))
  BY <1>1, KeptFurther DEF Waits
<1>3. t.insys = b.insys
  BY DEF Waits, Kept
<1> QED
  BY <1>1, <1>2, <1>3 DEF Waits

LEMMA WaitsFirst ==
  ASSUME NEW t, Ready(t)
  PROVE  Waits(t, t)
<1>1. t \in TraceType /\ t.sent = t.sent \o <<>> /\ <<>> \in Seq(Calm)
  BY SentIsFed DEF Ready
<1> QED
  BY <1>1 DEF Waits, Kept

LEMMA PutAllLate ==
  ASSUME NEW r, Idle(r), NEW t, Ready(t), NEW ops \in Seq(Calm), NEW m \in ViewType
  PROVE  LET u == PutAll(t, ops)
         IN  /\ Waits(t, u) /\ View(Now(r, u)) = View(Now(r, t))
             /\ LateOn(m, r, u) = RecallAll(LateOn(m, r, t), ops)
<1> DEFINE n == Len(ops)
           x == LateOn(m, r, t)
<1>1. n \in Nat /\ DOMAIN ops = 1..n /\ \A i \in 1..n : ops[i] \in Calm
  OBVIOUS
<1> HIDE DEF n, x
<1>2. PICK h : Wait!Chain(h, t, ops, n) /\ Wait!Fold(t, ops) = h[n]
  BY <1>1, Wait!FoldIsChain
<1>3. \A k \in 0..n : Waits(t, h[k])
  <2>1. Wait!Chain(h, t, ops, n) /\ Waits(t, t)
    BY <1>2, WaitsFirst
  <2>2. \A a, op : Waits(t, a) /\ op \in Calm => Waits(t, PutOne(a, op))
    BY WaitsFurther
  <2> QED
    BY <1>1, <2>1, <2>2, Wait!ChainKeeps
<1>4. h[0] = t /\ \A k \in 0..(n - 1) : h[k + 1] = PutOne(h[k], ops[k + 1])
  BY <1>2 DEF Wait!Chain
<1>5. ASSUME NEW k \in 0..(n - 1)
      PROVE  View(Now(r, h[k + 1])) = View(Now(r, h[k])) /\ LateOn(m, r, h[k + 1]) = Recall(LateOn(m, r, h[k]), ops[k + 1])
  <2>1. k \in 0..n /\ k + 1 \in 1..n
    BY <1>1
  <2>2. Ready(h[k]) /\ ops[k + 1] \in Calm /\ h[k + 1] = PutOne(h[k], ops[k + 1])
    BY <1>1, <1>3, <1>4, <2>1 DEF Waits
  <2> QED
    BY <2>2, PutLate
<1> DEFINE g == [k \in 0..n |-> LateOn(m, r, h[k])]
<1>6. g[0] = x /\ g[n] = LateOn(m, r, h[n]) /\ \A k \in 0..(n - 1) : g[k + 1] = Recall(g[k], ops[k + 1])
  <2>1. \A k \in 0..(n - 1) : k \in 0..n /\ k + 1 \in 0..n
    BY <1>1
  <2> QED
    BY <1>1, <1>4, <1>5, <2>1 DEF x
<1> HIDE DEF g
<1>7. Rec!Chain(g, x, ops, n)
  BY <1>6 DEF Rec!Chain
<1>8. Rec!Fold(x, ops) = g[n]
  BY <1>1, <1>7, Rec!FoldIs
<1>9. \A k \in 0..n : View(Now(r, h[k])) = View(Now(r, t))
  <2> DEFINE Bad == {k \in 0..n : View(Now(r, h[k])) # View(Now(r, t))}
  <2> SUFFICES ASSUME Bad # {}
               PROVE  FALSE
    OBVIOUS
  <2>1. PICK k \in Bad : \A j \in Bad : k <= j
    <3>1. Bad \subseteq Nat
      OBVIOUS
    <3> HIDE DEF Bad
    <3> QED
      BY <3>1, LeastIs
  <2>2. k # 0
    BY <1>4
  <2>3. k - 1 \in 0..n /\ k - 1 \in 0..(n - 1) /\ k - 1 \notin Bad /\ (k - 1) + 1 = k
    BY <1>1, <2>1, <2>2
  <2> QED
    BY <1>5, <2>1, <2>3
<1>10. n \in 0..n
  BY <1>1
<1> QED
  BY <1>2, <1>3, <1>6, <1>8, <1>9, <1>10, PutAllIs, RecallAllIs DEF x

-----------------------------------------------------------------------------
(* Registers are put as they changed, in whatever order.                   *)

LEMMA SetToSeqHasAll ==
  ASSUME NEW S, IsFiniteSet(S)
  PROVE  SetToSeq(S) \in Seq(S) /\ \A x \in S : \E i \in 1..Len(SetToSeq(S)) : SetToSeq(S)[i] = x
<1> DEFINE n == Cardinality(S)
           q == SetToSeq(S)
           D == 1..n
<1>1. n \in Nat /\ ExistsBijection(D, S)
  BY FS_CardinalityType
<1>2. \E f \in [D -> S] : IsInjective(f)
  BY <1>1 DEF ExistsBijection, Bijection, Injection
<1>3. q \in [D -> S] /\ IsInjective(q)
  BY <1>2 DEF SetToSeq
<1>4. IsFiniteSet(D) /\ Cardinality(D) = n
  BY <1>1, FS_Interval
<1> HIDE DEF q
<1>5. q \in Injection(D, S)
  BY <1>3 DEF Injection
<1> HIDE DEF D, n
<1>6. q \in Surjection(D, S)
  BY <1>4, <1>5, FS_Injection DEF n
<1>7. \A x \in S : \E i \in D : q[i] = x
  BY <1>6 DEF Surjection
<1>8. q \in Seq(S) /\ Len(q) = n
  BY <1>1, <1>3 DEF D
<1> QED
  BY <1>7, <1>8 DEF q, D

Renewed(m, regs, known) ==
  [pages |-> m.pages, regs |-> [n \in Regs |-> IF known[n] # regs[n] THEN regs[n] ELSE m.regs[n]]]

LEMMA UpdatesRenew ==
  ASSUME NEW regs \in [Regs -> Values], NEW known \in [Regs -> Values], NEW m \in ViewType
  PROVE  RecallAll(m, Updates(regs, known)) = Renewed(m, regs, known)
<1> DEFINE S == {x \in Regs : known[x] # regs[x]}
           q == SetToSeq(S)
           n == Len(q)
           ops == Updates(regs, known)
<1>1. IsFiniteSet(S)
  BY TraceAssumption, FS_Subset
<1>2. q \in Seq(S) /\ \A x \in S : \E i \in 1..Len(q) : q[i] = x
  BY <1>1, SetToSeqHasAll
<1>3. ops = [i \in DOMAIN q |-> Reg(q[i], regs[q[i]])]
  BY DEF Updates
<1> HIDE DEF ops, q
<1>4. n \in Nat /\ DOMAIN q = 1..n /\ \A i \in 1..n : q[i] \in S
  BY <1>2
<1> HIDE DEF n
<1>5. DOMAIN ops = 1..n /\ \A i \in 1..n : ops[i] = Reg(q[i], regs[q[i]])
  BY <1>3, <1>4
<1> DEFINE new(k) == [x \in Regs |-> IF \E i \in 1..k : q[i] = x THEN regs[x] ELSE m.regs[x]]
           g == [k \in 0..n |-> [pages |-> m.pages, regs |-> new(k)]]
<1>6. m.regs \in [Regs -> Values] /\ m = [pages |-> m.pages, regs |-> m.regs]
  BY DEF ViewType
<1>7. g[0] = m
  <2>1. new(0) = m.regs
    BY <1>6
  <2>2. g[0] = [pages |-> m.pages, regs |-> new(0)]
    BY <1>4
  <2> QED
    BY <1>6, <2>1, <2>2
<1>8. ASSUME NEW k \in 0..(n - 1)
      PROVE  g[k + 1] = Recall(g[k], ops[k + 1])
  <2>1. k \in 0..n /\ k + 1 \in 0..n /\ k + 1 \in 1..n /\ k \in Nat
    BY <1>4
  <2> DEFINE a == new(k)
             b == new(k + 1)
             x == q[k + 1]
  <2>2. g[k] = [pages |-> m.pages, regs |-> a] /\ g[k + 1] = [pages |-> m.pages, regs |-> b]
    BY <2>1
  <2>3. ops[k + 1] = Reg(x, regs[x]) /\ x \in Regs
    BY <1>4, <1>5, <2>1
  <2>4. b = [a EXCEPT ![x] = regs[x]]
    <3>1. \A y \in Regs : (\E i \in 1..(k + 1) : q[i] = y) <=> (\E i \in 1..k : q[i] = y) \/ y = x
      <4>1. \A i \in 1..(k + 1) : i \in 1..k \/ i = k + 1
        BY <2>1
      <4>2. \A i \in 1..k : i \in 1..(k + 1)
        BY <2>1
      <4>3. k + 1 \in 1..(k + 1)
        BY <2>1
      <4> QED
        BY <4>1, <4>2, <4>3
    <3> HIDE DEF x
    <3>2. \A y \in Regs : b[y] = [a EXCEPT ![x] = regs[x]][y]
      BY <3>1
    <3> QED
      BY <3>2
  <2> HIDE DEF g, a, b, x
  <2> QED
    BY <2>2, <2>3, <2>4 DEF Recall, Reg
<1>9. g[n] = Renewed(m, regs, known)
  <2>1. \A x \in Regs : (\E i \in 1..n : q[i] = x) <=> known[x] # regs[x]
    BY <1>2, <1>4 DEF n
  <2>2. new(n) = [x \in Regs |-> IF known[x] # regs[x] THEN regs[x] ELSE m.regs[x]]
    BY <2>1
  <2>3. g[n] = [pages |-> m.pages, regs |-> new(n)]
    BY <1>4
  <2> QED
    BY <2>2, <2>3 DEF Renewed
<1> HIDE DEF g
<1>10. Rec!Chain(g, m, ops, n)
  BY <1>7, <1>8 DEF Rec!Chain
<1>11. Rec!Fold(m, ops) = g[n]
  BY <1>4, <1>5, <1>10, Rec!FoldIs
<1> QED
  BY <1>9, <1>11, RecallAllIs DEF ops

\* A register that none of some operations sets may be set before or behind them.
SetRet(m, v) == [pages |-> m.pages, regs |-> [m.regs EXCEPT ![Ret] = v]]
NoRet(ops) == \A i \in DOMAIN ops : ops[i].op = "reg" => ops[i].num # Ret

LEMMA SetRetFirst ==
  ASSUME NEW m \in ViewType, NEW v \in Values, NEW ops \in Seq(Calm), NoRet(ops)
  PROVE  RecallAll(SetRet(m, v), ops) = SetRet(RecallAll(m, ops), v)
<1> DEFINE n == Len(ops)
<1>1. n \in Nat /\ DOMAIN ops = 1..n /\ \A i \in 1..n : ops[i] \in Calm
  OBVIOUS
<1> HIDE DEF n
<1>2. PICK h : Rec!Chain(h, m, ops, n) /\ Rec!Fold(m, ops) = h[n]
  BY <1>1, Rec!FoldIsChain
<1>3. \A k \in 0..n : InView(m, h[k])
  <2>1. Rec!Chain(h, m, ops, n) /\ InView(m, m)
    BY <1>2 DEF InView
  <2>2. \A a, op : InView(m, a) /\ op \in Calm => InView(m, Recall(a, op))
    BY RecallIs DEF InView
  <2> QED
    BY <1>1, <2>1, <2>2, Rec!ChainKeeps
<1>4. h[0] = m /\ \A k \in 0..(n - 1) : h[k + 1] = Recall(h[k], ops[k + 1])
  BY <1>2 DEF Rec!Chain
<1> DEFINE g == [k \in 0..n |-> SetRet(h[k], v)]
           b == SetRet(m, v)
<1>5. g[0] = b /\ g[n] = SetRet(h[n], v)
  BY <1>1, <1>4
<1>6. ASSUME NEW k \in 0..(n - 1)
      PROVE  g[k + 1] = Recall(g[k], ops[k + 1])
  <2>1. k \in 0..n /\ k + 1 \in 0..n /\ k + 1 \in 1..n
    BY <1>1
  <2> DEFINE a == h[k]
             op == ops[k + 1]
  <2>2. a \in ViewType /\ op \in Calm /\ (op.op = "reg" => op.num # Ret)
    BY <1>1, <1>3, <2>1 DEF InView, NoRet
  <2>3. g[k + 1] = SetRet(Recall(a, op), v) /\ g[k] = SetRet(a, v)
    BY <1>4, <2>1
  <2> HIDE DEF g, a, op
  <2>4. a.regs \in [Regs -> Values] /\ Ret \in Regs
    BY <2>2, TraceAssumption DEF ViewType
  <2>5. CASE op.op = "reg"
    <3>1. op.num \in Regs /\ op.num # Ret
      BY <2>2, <2>5, RegIs
    <3>2. [[a.regs EXCEPT ![op.num] = op.val] EXCEPT ![Ret] = v] = [[a.regs EXCEPT ![Ret] = v] EXCEPT ![op.num] = op.val]
      BY <2>4, <3>1
    <3>3. Recall(a, op) = [pages |-> a.pages, regs |-> [a.regs EXCEPT ![op.num] = op.val]]
      BY <2>5 DEF Recall
    <3>4. SetRet(Recall(a, op), v) = [pages |-> a.pages, regs |-> [[a.regs EXCEPT ![op.num] = op.val] EXCEPT ![Ret] = v]]
      BY <3>3 DEF SetRet
    <3>5. Recall(SetRet(a, v), op) = [pages |-> a.pages, regs |-> [[a.regs EXCEPT ![Ret] = v] EXCEPT ![op.num] = op.val]]
      BY <2>5 DEF Recall, SetRet
    <3>6. SetRet(Recall(a, op), v) = Recall(SetRet(a, v), op)
      BY <3>2, <3>4, <3>5
    <3> QED
      BY <2>3, <3>6 DEF op
  <2>6. CASE op.op # "reg"
    BY <2>3, <2>6 DEF Recall, SetRet, op
  <2> QED
    BY <2>5, <2>6
<1> HIDE DEF g, b
<1>7. Rec!Chain(g, b, ops, n)
  BY <1>5, <1>6 DEF Rec!Chain
<1>8. Rec!Fold(b, ops) = g[n]
  BY <1>1, <1>7, Rec!FoldIs
<1> QED
  BY <1>2, <1>5, <1>8, RecallAllIs DEF b

-----------------------------------------------------------------------------
(* A replay on its way: its pages are apart after each operation.          *)

InParts(r, t) == \A i \in 0..Len(t.sent) : Apart(FeedAll(r, SubSeq(t.sent, 1, i)).pages)
Orderly(r, t) == InParts(r, t) /\ Apart(Held(Now(r, t)).pages) /\ Apart(Late(Now(r, t), t).pages)

LEMMA JoinedIs ==
  ASSUME NEW S, NEW s \in Seq(S), NEW t \in Seq(S)
  PROVE  /\ s \o t \in Seq(S) /\ Len(s \o t) = Len(s) + Len(t) /\ Len(s) \in Nat /\ Len(t) \in Nat
         /\ \A i \in 1..Len(s) : (s \o t)[i] = s[i]
         /\ \A i \in 1..Len(t) : (s \o t)[Len(s) + i] = t[i]
OBVIOUS

LEMMA BeginningOf ==
  ASSUME NEW S, NEW s \in Seq(S), NEW t \in Seq(S), NEW i \in 0..Len(s \o t)
  PROVE  IF i <= Len(s) THEN i \in 0..Len(s) /\ SubSeq(s \o t, 1, i) = SubSeq(s, 1, i)
         ELSE i - Len(s) \in 0..Len(t) /\ SubSeq(s \o t, 1, i) = s \o SubSeq(t, 1, i - Len(s))
<1> DEFINE u == s \o t
           n == Len(s)
           m == Len(t)
<1>1. /\ n \in Nat /\ m \in Nat /\ Len(u) = n + m /\ u \in Seq(S)
      /\ \A k \in 1..n : u[k] = s[k]
      /\ \A k \in 1..m : u[n + k] = t[k]
  OBVIOUS
<1>2. CASE i <= n
  <2>1. i \in 0..n
    BY <1>1, <1>2
  <2>2. SubSeq(u, 1, i) = [k \in 1..i |-> u[k]] /\ SubSeq(s, 1, i) = [k \in 1..i |-> s[k]]
    BY <1>1, <2>1
  <2>3. \A k \in 1..i : u[k] = s[k]
    BY <1>1, <2>1
  <2> HIDE DEF u, n
  <2>4. SubSeq(u, 1, i) = SubSeq(s, 1, i)
    BY <2>2, <2>3
  <2> QED
    BY <1>2, <2>1, <2>4 DEF u, n
<1>3. CASE ~(i <= n)
  <2> DEFINE j == i - n
             v == SubSeq(t, 1, j)
             w == s \o v
  <2>1. j \in 0..m /\ i = n + j /\ i \in Nat
    BY <1>1, <1>3
  <2> HIDE DEF j
  <2>2. v \in Seq(S) /\ Len(v) = j /\ \A k \in 1..j : v[k] = t[k]
    BY <1>1, <2>1
  <2> HIDE DEF v
  <2>3. w \in Seq(S) /\ Len(w) = i /\ (\A k \in 1..n : w[k] = s[k]) /\ \A k \in 1..j : w[n + k] = v[k]
    <3>1. s \in Seq(S) /\ v \in Seq(S) /\ Len(s) = n
      BY <2>2
    <3>0. /\ s \o v \in Seq(S) /\ Len(s \o v) = Len(s) + Len(v)
          /\ \A k \in 1..Len(s) : (s \o v)[k] = s[k]
          /\ \A k \in 1..Len(v) : (s \o v)[Len(s) + k] = v[k]
      BY <3>1, JoinedIs
    <3>2. w \in Seq(S) /\ Len(w) = n + j /\ (\A k \in 1..n : w[k] = s[k]) /\ \A k \in 1..j : w[n + k] = v[k]
      BY <2>2, <3>0
    <3> HIDE DEF w, n
    <3> QED
      BY <2>1, <3>2
  <2>4. SubSeq(u, 1, i) \in Seq(S) /\ Len(SubSeq(u, 1, i)) = i /\ \A k \in 1..i : SubSeq(u, 1, i)[k] = u[k]
    BY <1>1, <2>1
  <2>5. \A k \in 1..i : u[k] = w[k]
    <3>1. \A k \in 1..i : k \in 1..n \/ (k - n \in 1..j /\ k = n + (k - n))
      BY <1>1, <2>1
    <3>2. \A k \in 1..j : u[n + k] = t[k] /\ w[n + k] = t[k]
      BY <1>1, <2>1, <2>2, <2>3
    <3>3. \A k \in 1..n : u[k] = s[k] /\ w[k] = s[k]
      BY <1>1, <2>3
    <3> HIDE DEF u, w, n
    <3> QED
      BY <3>1, <3>2, <3>3
  <2> HIDE DEF u, w
  <2>6. SubSeq(u, 1, i) = w
    BY <2>3, <2>4, <2>5
  <2> QED
    BY <1>3, <2>1, <2>6 DEF u, v, w, n, m, j
<1> QED
  BY <1>2, <1>3

Unseen(a, b) == Idle(a) /\ Idle(b) /\ View(b) = View(a)
Hidden == INSTANCE Folding WITH Op <- Feed, Keeps <- Unseen, Fine <- LAMBDA x : x \in Calm

LEMMA CalmAllViews ==
  ASSUME NEW r, Idle(r), NEW s \in Seq(Calm)
  PROVE  View(FeedAll(r, s)) = View(r)
<1> DEFINE n == Len(s)
<1>1. n \in Nat /\ DOMAIN s = 1..n /\ \A i \in 1..n : s[i] \in Calm
  OBVIOUS
<1> HIDE DEF n
<1>2. Unseen(r, r)
  BY DEF Unseen
<1>3. \A b, x : Unseen(r, b) /\ x \in Calm => Unseen(r, Feed(b, x))
  BY CalmViews, FeedCalm DEF Unseen, Stays
<1>4. Unseen(r, Hidden!Fold(r, s))
  BY <1>1, <1>2, <1>3, Hidden!FoldKeeps
<1>5. FeedAll(r, s) = Hidden!Fold(r, s)
  BY DEF FeedAll, Hidden!Fold, FoldLeft, MapThenFoldSet, Hidden!FoldLeft, Hidden!MapThenFoldSet, Max, Hidden!Max
<1> QED
  BY <1>4, <1>5 DEF Unseen

LEMMA PartsEnd ==
  ASSUME NEW r, NEW t \in TraceType, InParts(r, t)
  PROVE  Apart(Now(r, t).pages)
<1>1. t.sent \in Seq(Fed) /\ Len(t.sent) \in 0..Len(t.sent)
  BY SentIsFed
<1>2. SubSeq(t.sent, 1, Len(t.sent)) = t.sent
  BY <1>1, WholePart
<1> QED
  BY <1>1, <1>2 DEF InParts, Now

LEMMA PartsGrow ==
  ASSUME NEW r, Idle(r), NEW t \in TraceType, InParts(r, t), NEW u, NEW op \in Fed,
         u.sent = Append(t.sent, op), Apart(Now(r, u).pages)
  PROVE  InParts(r, u)
<1> DEFINE s == t.sent
           x == <<op>>
<1>1. s \in Seq(Fed) /\ x \in Seq(Fed) /\ u.sent = s \o x /\ Len(x) = 1 /\ Len(s) \in Nat
  BY SentIsFed
<1> HIDE DEF s, x
<1>2. SUFFICES ASSUME NEW i \in 0..Len(s \o x)
               PROVE  Apart(FeedAll(r, SubSeq(s \o x, 1, i)).pages)
  BY <1>1 DEF InParts
<1>3. CASE i <= Len(s)
  <2>1. i \in 0..Len(s) /\ SubSeq(s \o x, 1, i) = SubSeq(s, 1, i)
    BY <1>1, <1>3, BeginningOf
  <2> QED
    BY <2>1 DEF InParts, s
<1>4. CASE ~(i <= Len(s))
  <2>1. i = Len(s \o x)
    <3>1. Len(s \o x) = Len(s) + Len(x)
      BY <1>1, JoinedIs
    <3> QED
      BY <1>1, <1>4, <3>1
  <2>2. SubSeq(s \o x, 1, Len(s \o x)) = s \o x
    <3>1. s \o x \in Seq(Fed)
      BY <1>1
    <3> QED
      BY <3>1, WholePart
  <2> QED
    BY <1>1, <2>1, <2>2 DEF Now
<1> QED
  BY <1>3, <1>4

LEMMA KeptInParts ==
  ASSUME NEW r, Idle(r), NEW t, NEW u, Kept(t, u), InParts(r, t)
  PROVE  InParts(r, u)
<1>1. PICK x \in Seq(Calm) : u.sent = t.sent \o x
  BY DEF Kept
<1> DEFINE s == t.sent
<1>2. t \in TraceType /\ s \in Seq(Fed) /\ x \in Seq(Fed)
  <2>1. Calm \subseteq Fed
    BY DEF Fed
  <2> QED
    BY <2>1, SentIsFed DEF Kept
<1>3. Apart(FeedAll(r, s).pages) /\ Idle(FeedAll(r, s))
  BY <1>2, PartsEnd, NowIs DEF Now
<1>4. u.sent = s \o x
  BY <1>1
<1>5. \A i \in 0..Len(s) : Apart(FeedAll(r, SubSeq(s, 1, i)).pages)
  BY DEF InParts
<1> HIDE DEF s
<1>6. SUFFICES ASSUME NEW i \in 0..Len(s \o x)
               PROVE  Apart(FeedAll(r, SubSeq(s \o x, 1, i)).pages)
  BY <1>4 DEF InParts
<1>7. CASE i <= Len(s)
  <2>1. i \in 0..Len(s) /\ SubSeq(s \o x, 1, i) = SubSeq(s, 1, i)
    BY <1>2, <1>7, BeginningOf
  <2> QED
    BY <1>5, <2>1
<1>8. CASE ~(i <= Len(s))
  <2> DEFINE v == SubSeq(x, 1, i - Len(s))
  <2>1. i - Len(s) \in 0..Len(x) /\ SubSeq(s \o x, 1, i) = s \o v
    BY <1>2, <1>8, BeginningOf
  <2>2. v \in Seq(Calm) /\ v \in Seq(Fed)
    BY <1>2, <2>1
  <2> HIDE DEF v
  <2>3. FeedAll(r, s \o v) = FeedAll(FeedAll(r, s), v)
    BY <1>2, <2>2, FeedMore
  <2>4. View(FeedAll(FeedAll(r, s), v)) = View(FeedAll(r, s))
    BY <1>3, <2>2, CalmAllViews
  <2> QED
    BY <1>3, <2>1, <2>3, <2>4 DEF View
<1> QED
  BY <1>7, <1>8

-----------------------------------------------------------------------------
(* The recorder's calls.                                                   *)

Spares(b, t) == Waits(b, t) /\ (NoRet(b.sysops) => NoRet(t.sysops))
Spare == INSTANCE Folding WITH Op <- PutOne, Keeps <- Spares,
  Fine <- LAMBDA x : x \in Calm /\ (x.op = "reg" => x.num # Ret)

LEMMA PutsSpare ==
  ASSUME NEW t, Ready(t), NEW ops \in Seq(Calm), NoRet(ops), NoRet(t.sysops)
  PROVE  NoRet(PutAll(t, ops).sysops)
<1> DEFINE n == Len(ops)
<1>1. n \in Nat /\ DOMAIN ops = 1..n /\ \A i \in 1..n : ops[i] \in Calm /\ (ops[i].op = "reg" => ops[i].num # Ret)
  BY DEF NoRet
<1> HIDE DEF n
<1>2. Spares(t, t)
  BY WaitsFirst DEF Spares
<1>3. ASSUME NEW a, NEW op, Spares(t, a), op \in Calm, op.op = "reg" => op.num # Ret
      PROVE  Spares(t, PutOne(a, op))
  <2> DEFINE u == PutOne(a, op)
  <2>0. Waits(t, a)
    BY <1>3 DEF Spares
  <2>1. Waits(t, u) /\ Ready(a) /\ a.sysops \in Seq(Calm)
    <3>1. Waits(t, u)
      BY <1>3, <2>0, WaitsFurther
    <3>2. Ready(a)
      BY <2>0 DEF Waits
    <3> QED
      BY <3>1, <3>2 DEF Ready, TraceType
  <2>2. u.sysops = Append(a.sysops, op) \/ u.sysops = <<>>
    BY <1>3, <2>1, PutWaits
  <2> HIDE DEF u
  <2>3. NoRet(a.sysops)
    BY <1>3 DEF Spares
  <2>4. NoRet(u.sysops)
    <3>1. NoRet(<<>>)
      BY DEF NoRet
    <3>2. NoRet(Append(a.sysops, op))
      <4> DEFINE s == a.sysops
                 v == Append(s, op)
      <4>1. DOMAIN v = 1..(Len(s) + 1) /\ v[Len(s) + 1] = op /\ DOMAIN s = 1..Len(s) /\ Len(s) \in Nat /\ \A i \in 1..Len(s) : v[i] = s[i]
        BY <2>1
      <4>2. \A i \in 1..(Len(s) + 1) : i \in 1..Len(s) \/ i = Len(s) + 1
        BY <4>1
      <4>3. NoRet(s)
        BY <2>3
      <4> HIDE DEF s, v
      <4>4. NoRet(v)
        BY <1>3, <4>1, <4>2, <4>3 DEF NoRet
      <4> QED
        BY <4>4 DEF v, s
    <3> QED
      BY <2>2, <3>1, <3>2
  <2> QED
    BY <2>1, <2>4 DEF Spares, u
<1>4. \A a, op : Spares(t, a) /\ (op \in Calm /\ (op.op = "reg" => op.num # Ret)) => Spares(t, PutOne(a, op))
  BY <1>3
<1>5. Spares(t, Spare!Fold(t, ops))
  BY <1>1, <1>2, <1>4, Spare!FoldKeeps
<1>6. PutAll(t, ops) = Spare!Fold(t, ops)
  BY DEF PutAll, Spare!Fold, FoldLeft, MapThenFoldSet, Spare!FoldLeft, Spare!MapThenFoldSet, Max, Spare!Max
<1> QED
  BY <1>5, <1>6 DEF Spares

\* The registers that changed are put behind what waits.
LEMMA RegUpdateLate ==
  ASSUME NEW r, Idle(r), NEW t, Ready(t), NEW regs \in [Regs -> Values]
  PROVE  LET u == RegUpdate(t, regs)
         IN  /\ Ready(u) /\ Kept(t, u) /\ u.insys = t.insys /\ u.known = regs
             /\ View(Now(r, u)) = View(Now(r, t))
             /\ Late(Now(r, u), u) = Renewed(Late(Now(r, t), t), regs, t.known)
             /\ Orderly(r, t) => Orderly(r, u)
<1> DEFINE ops == Updates(regs, t.known)
           p == PutAll(t, ops)
           u == RegUpdate(t, regs)
           m == View(Now(r, t))
<1>1. t \in TraceType /\ t.known \in [Regs -> Values] /\ m \in ViewType
  BY NowIs DEF Ready, TraceType
<1>2. ops \in Seq(Calm)
  BY <1>1, UpdatesAreCalm
<1>3. Waits(t, p) /\ View(Now(r, p)) = m /\ LateOn(m, r, p) = RecallAll(LateOn(m, r, t), ops)
  BY <1>1, <1>2, PutAllLate
<1>4. u = [p EXCEPT !.known = regs]
  BY DEF RegUpdate
<1>5. RecallAll(LateOn(m, r, t), ops) = Renewed(LateOn(m, r, t), regs, t.known)
  BY <1>1, UpdatesRenew, LateIs
<1> HIDE DEF p, ops, u
<1>6. /\ u \in TraceType /\ u.sent = p.sent /\ u.sysops = p.sysops /\ u.insys = p.insys /\ u.frame = p.frame
      /\ u.known = regs /\ p \in TraceType
  <2>1. p \in TraceType
    BY <1>3 DEF Waits, Ready
  <2> QED
    BY <1>4, <2>1 DEF TraceType
<1>7. Ready(u) /\ Kept(t, u) /\ u.insys = t.insys
  <2>1. Ready(p) /\ Kept(t, p)
    BY <1>3 DEF Waits
  <2>2. Ready(u)
    BY <1>6, <2>1 DEF Ready
  <2>3. u = [u EXCEPT !.step = p.step]
    BY <1>4, <1>6 DEF TraceType
  <2>4. u.step = p.step /\ u.stepAddr = p.stepAddr
    BY <1>4, <1>6 DEF TraceType
  <2> QED
    BY <1>6, <2>1, <2>2, <2>4 DEF Kept
<1>8. Now(r, u) = Now(r, p)
  BY <1>6 DEF Now
<1>9. Late(Now(r, u), u) = LateOn(m, r, p)
  <2>1. Late(Now(r, u), u) = LateOn(View(Now(r, u)), r, u)
    BY <1>6, LateIs
  <2>2. LateOn(m, r, u) = LateOn(m, r, p)
    BY <1>6, <1>8 DEF LateOn
  <2> QED
    BY <1>3, <1>8, <2>1, <2>2
<1>10. Late(Now(r, t), t) = LateOn(m, r, t)
  BY <1>1, LateIs
<1>11. Late(Now(r, u), u) = Renewed(Late(Now(r, t), t), regs, t.known)
  BY <1>3, <1>5, <1>9, <1>10
<1>12. Late(Now(r, u), u).pages = Late(Now(r, t), t).pages
  BY <1>11 DEF Renewed
<1>13. ASSUME Orderly(r, t)
       PROVE  Orderly(r, u)
  <2>1. InParts(r, u)
    BY <1>7, <1>13, KeptInParts DEF Orderly
  <2>2. Apart(Held(Now(r, u)).pages)
    <3>1. CASE t.insys
      <4>1. Now(r, u) = Now(r, t)
        BY <1>3, <1>6, <3>1 DEF Waits, Now
      <4> QED
        BY <1>13, <4>1 DEF Orderly
    <3>2. CASE ~t.insys
      <4>1. u.sysops = <<>>
        BY <1>7, <3>2 DEF Ready
      <4>2. Held(Now(r, u)) = Late(Now(r, u), u)
        BY <1>6, <4>1, LateIs
      <4> QED
        BY <1>12, <1>13, <4>2 DEF Orderly
    <3> QED
      BY <3>1, <3>2
  <2> QED
    BY <1>12, <1>13, <2>1, <2>2 DEF Orderly
<1> QED
  BY <1>3, <1>6, <1>7, <1>8, <1>11, <1>13 DEF u

\* What is sent behind what waits, when no system call is recorded.
LEMMA SentBehind ==
  ASSUME NEW r, Idle(r), NEW t, Ready(t), ~t.insys, NEW op \in Fed, NEW canAdvance \in BOOLEAN
  PROVE  LET u == Put(t, op, canAdvance)
         IN  /\ Ready(u) /\ ~u.insys /\ u.sysops = <<>> /\ u.frame # <<>>
             /\ u.step = t.step /\ u.stepAddr = t.stepAddr /\ u.known = t.known
             /\ Now(r, u) = Feed(Now(r, t), op) /\ Idle(Now(r, u))
             /\ InParts(r, t) /\ Apart(Now(r, u).pages) => InParts(r, u)
<1> DEFINE u == Put(t, op, canAdvance)
<1>1. t \in TraceType /\ t.sysops = <<>> /\ t.frame \in Seq(Fed)
  BY DEF Ready, TraceType
<1>2. /\ u \in TraceType /\ u.sent = Append(t.sent, op) /\ ~u.insys /\ u.sysops = <<>>
      /\ u.step = t.step /\ u.stepAddr = t.stepAddr /\ u.known = t.known
  BY <1>1, PutSends
<1>3. u.frame # <<>>
  <2>1. u.frame = <<op>> \/ u.frame = Append(t.frame, op)
    <3>1. CASE t.frame = <<>> \/ canAdvance
      <4>1. u.frame = <<op>>
        BY <1>1, <3>1 DEF Put, TraceType
      <4> QED
        BY <4>1
    <3>2. CASE ~(t.frame = <<>> \/ canAdvance)
      <4>1. u.frame = Append(t.frame, op)
        BY <1>1, <3>2 DEF Put, TraceType
      <4> QED
        BY <4>1
    <3> QED
      BY <3>1, <3>2
  <2>2. Append(t.frame, op) # <<>>
    BY <1>1
  <2> HIDE DEF u
  <2> QED
    BY <2>1, <2>2
<1> HIDE DEF u
<1>4. Now(r, u) = Feed(Now(r, t), op)
  <2>0. u.sent = Append(t.sent, op)
    BY <1>2
  <2>1. FeedAll(r, u.sent) = Feed(FeedAll(r, t.sent), op)
    <3>1. t.sent \in Seq(Fed)
      BY <1>1 DEF TraceType
    <3>2. FeedAll(r, Append(t.sent, op)) = Feed(FeedAll(r, t.sent), op)
      BY <3>1, FeedOneMore
    <3> QED
      BY <2>0, <3>2
  <2> QED
    BY <2>1 DEF Now
<1>5. Idle(Now(r, u))
  BY <1>2, NowIs
<1>6. InParts(r, t) /\ Apart(Now(r, u).pages) => InParts(r, u)
  BY <1>1, <1>2, PartsGrow
<1> QED
  BY <1>2, <1>3, <1>4, <1>5, <1>6 DEF Ready, u

\* When the step is sent, the replay has all that waited, and then the registers
\* are those that it is sent with, if it had those that were known: what a system call
\* leaves behind its hooks is the register it returns in.
LEMMA FlushStepLate ==
  ASSUME NEW r, Idle(r), NEW t, Ready(t), t.step, NEW regs \in [Regs -> Values],
         NoRet(t.sysops), t.insys => \A n \in Regs \ {Ret} : t.known[n] = regs[n]
  PROVE  LET u == FlushStep(t, regs)
         IN  /\ Ready(u) /\ ~u.insys /\ u.sysops = <<>> /\ u.frame # <<>> /\ u.known = regs
             /\ Now(r, u).effects = <<>>
             /\ Late(Now(r, t), t).regs = t.known => Now(r, u).regs = regs
             /\ Now(r, u).pages = Late(Now(r, t), t).pages
             /\ Orderly(r, t) => InParts(r, u)
<1> DEFINE sys == [t EXCEPT !.insys = FALSE, !.sysops = <<>>]
           with == RegUpdate(sys, regs)
           ready == [with EXCEPT !.step = FALSE]
           done == Put(ready, Step, FALSE)
           u == FlushStep(t, regs)
           a == Now(r, t)
           m == Held(a)
<1>0. u = IF t.insys THEN Put(done, Syscall(t.sysops), FALSE) ELSE done
  BY DEF FlushStep
<1>1. /\ t \in TraceType /\ sys \in TraceType /\ ~sys.insys /\ sys.sysops = <<>> /\ sys.sent = t.sent
      /\ sys.known = t.known /\ t.sysops \in Seq(Calm) /\ t.insys \in BOOLEAN /\ t.known \in [Regs -> Values]
  <2>1. <<>> \in Seq(Calm)
    OBVIOUS
  <2> QED
    BY <2>1 DEF Ready, TraceType
<1> HIDE DEF sys
<1>2. Ready(sys) /\ Now(r, sys) = a
  BY <1>1 DEF Ready, Now
<1>3. Late(Now(r, sys), sys) = m /\ m \in ViewType /\ Idle(a)
  BY <1>1, <1>2, LateIs, NowIs
<1>4. /\ Ready(with) /\ ~with.insys /\ with.known = regs
      /\ Late(Now(r, with), with) = Renewed(m, regs, t.known)
      /\ Orderly(r, sys) => Orderly(r, with)
  BY <1>1, <1>2, <1>3, RegUpdateLate
<1> HIDE DEF with
<1>5. /\ Ready(ready) /\ ~ready.insys /\ ready.known = regs /\ ready.sent = with.sent /\ ready.sysops = <<>>
      /\ with \in TraceType /\ with.sysops = <<>> /\ ready \in TraceType
  <2>1. with \in TraceType /\ with.sysops = <<>>
    BY <1>4 DEF Ready
  <2>2. ready \in TraceType /\ ready.insys = with.insys /\ ready.known = regs /\ ready.sent = with.sent /\ ready.sysops = <<>>
    BY <1>4, <2>1 DEF TraceType
  <2> QED
    BY <1>4, <2>1, <2>2 DEF Ready
<1> HIDE DEF ready
<1>6. Held(Now(r, ready)) = Renewed(m, regs, t.known) /\ Idle(Now(r, ready))
  <2>1. Now(r, ready) = Now(r, with)
    BY <1>5 DEF Now
  <2>2. Late(Now(r, with), with) = Held(Now(r, with))
    BY <1>5, LateIs
  <2> QED
    BY <1>4, <1>5, <2>1, <2>2, NowIs
<1>7. /\ Ready(done) /\ ~done.insys /\ done.sysops = <<>> /\ done.frame # <<>> /\ done.known = regs
      /\ Now(r, done) = Feed(Now(r, ready), Step) /\ Idle(Now(r, done))
      /\ InParts(r, ready) /\ Apart(Now(r, done).pages) => InParts(r, done)
  <2>1. Step \in Fed /\ FALSE \in BOOLEAN /\ Ready(ready) /\ ~ready.insys
    BY <1>5 DEF Fed
  <2>2. LET d == Put(ready, Step, FALSE)
        IN  /\ Ready(d) /\ ~d.insys /\ d.sysops = <<>> /\ d.frame # <<>>
            /\ d.step = ready.step /\ d.stepAddr = ready.stepAddr /\ d.known = ready.known
            /\ Now(r, d) = Feed(Now(r, ready), Step) /\ Idle(Now(r, d))
            /\ InParts(r, ready) /\ Apart(Now(r, d).pages) => InParts(r, d)
    BY <2>1, SentBehind
  <2> QED
    BY <1>5, <2>2
<1> HIDE DEF done
<1>8. View(Now(r, done)) = Renewed(m, regs, t.known) /\ Now(r, done).effects = <<>>
  BY <1>6, <1>7, StepViews
<1>9. Orderly(r, t) => InParts(r, done)
  <2> SUFFICES ASSUME Orderly(r, t)
               PROVE  InParts(r, done)
    OBVIOUS
  <2>1. Orderly(r, sys)
    BY <1>1, <1>2, <1>3 DEF Orderly, InParts, Now
  <2>2. InParts(r, ready)
    BY <1>4, <1>5, <2>1 DEF Orderly, InParts
  <2>3. Now(r, done).pages = m.pages
    BY <1>8 DEF View, Renewed
  <2> QED
    BY <1>7, <2>2, <2>3 DEF Orderly
<1>10. CASE ~t.insys
  <2>1. u = done /\ t.sysops = <<>> /\ Late(a, t) = m
    BY <1>0, <1>1, <1>10, LateIs DEF Ready
  <2>2. /\ Renewed(m, regs, t.known).pages = m.pages
        /\ m.regs = t.known => Renewed(m, regs, t.known).regs = regs
    BY <1>1 DEF Renewed
  <2>3. Now(r, done).pages = m.pages /\ (Late(a, t).regs = t.known => Now(r, done).regs = regs)
    BY <1>8, <2>1, <2>2 DEF View
  <2> HIDE DEF u
  <2> QED
    BY <1>7, <1>8, <1>9, <2>1, <2>3 DEF u, a
<1>11. CASE t.insys
  <2> DEFINE v == View(Now(r, done))
             w == RecallAll(v, t.sysops)
  <2>1. Syscall(t.sysops) \in Fed
    BY <1>1 DEF Fed
  <2>2. /\ Ready(u) /\ ~u.insys /\ u.sysops = <<>> /\ u.frame # <<>> /\ u.known = regs
        /\ Now(r, u) = Feed(Now(r, done), Syscall(t.sysops)) /\ Idle(Now(r, u))
        /\ InParts(r, done) /\ Apart(Now(r, u).pages) => InParts(r, u)
    <3> DEFINE op == Syscall(t.sysops)
    <3>1. op \in Fed /\ FALSE \in BOOLEAN /\ Ready(done) /\ ~done.insys /\ done.known = regs
      BY <1>7, <2>1
    <3>2. u = Put(done, op, FALSE)
      BY <1>0, <1>11
    <3> HIDE DEF op, u
    <3>3. LET d == Put(done, op, FALSE)
          IN  /\ Ready(d) /\ ~d.insys /\ d.sysops = <<>> /\ d.frame # <<>>
              /\ d.step = done.step /\ d.stepAddr = done.stepAddr /\ d.known = done.known
              /\ Now(r, d) = Feed(Now(r, done), op) /\ Idle(Now(r, d))
              /\ InParts(r, done) /\ Apart(Now(r, d).pages) => InParts(r, d)
      BY <3>1, SentBehind
    <3>4. /\ Ready(u) /\ ~u.insys /\ u.sysops = <<>> /\ u.frame # <<>> /\ u.known = done.known
          /\ Now(r, u) = Feed(Now(r, done), op) /\ Idle(Now(r, u))
          /\ InParts(r, done) /\ Apart(Now(r, u).pages) => InParts(r, u)
      BY <3>2, <3>3
    <3> QED
      BY <3>1, <3>4 DEF op
  <2> HIDE DEF u
  <2>3. View(Now(r, u)) = w /\ Now(r, u).effects = <<>>
    BY <1>1, <1>7, <1>8, <2>2, CallViews
  <2>4. Late(a, t) = RecallAll(m, t.sysops)
    BY DEF Late
  <2>5. m.regs \in [Regs -> Values] /\ regs[Ret] \in Values /\ Ret \in Regs
    BY <1>3, TraceAssumption DEF ViewType
  <2>6. \A n \in Regs : n # Ret => t.known[n] = regs[n]
    BY <1>11
  <2>7. /\ w.pages = RecallAll(m, t.sysops).pages
        /\ RecallAll(m, t.sysops).regs = t.known => w.regs = regs
    <3>1. CASE t.known[Ret] = regs[Ret]
      <4>1. t.known = regs
        BY <1>1, <2>6, <3>1
      <4>2. v = m
        <5>1. Renewed(m, regs, t.known) = [pages |-> m.pages, regs |-> m.regs]
          BY <2>5, <4>1 DEF Renewed
        <5> QED
          BY <1>3, <1>8, <5>1 DEF ViewType
      <4> QED
        BY <2>4, <4>1, <4>2 DEF a
    <3>2. CASE t.known[Ret] # regs[Ret]
      <4>1. v = SetRet(m, regs[Ret])
        <5>1. [n \in Regs |-> IF t.known[n] # regs[n] THEN regs[n] ELSE m.regs[n]] = [m.regs EXCEPT ![Ret] = regs[Ret]]
          BY <2>5, <2>6, <3>2
        <5> QED
          BY <1>8, <5>1 DEF Renewed, SetRet
      <4>2. w = SetRet(RecallAll(m, t.sysops), regs[Ret])
        BY <1>1, <1>3, <2>5, <4>1, SetRetFirst
      <4>3. [t.known EXCEPT ![Ret] = regs[Ret]] = regs
        BY <1>1, <2>6
      <4> QED
        BY <4>2, <4>3 DEF SetRet
    <3> QED
      BY <3>1, <3>2
  <2> HIDE DEF v, w, m, a
  <2>8. Now(r, u).pages = Late(a, t).pages /\ (Late(a, t).regs = t.known => Now(r, u).regs = regs)
    BY <2>3, <2>4, <2>7 DEF View
  <2>9. Orderly(r, t) => InParts(r, u)
    BY <1>9, <2>2, <2>8 DEF Orderly, a
  <2> QED
    BY <2>2, <2>3, <2>8, <2>9 DEF u, a
<1> QED
  BY <1>1, <1>10, <1>11

-----------------------------------------------------------------------------
(* The cells that operations on memory leave.                              *)

Done(c, op) ==
  CASE op.op = "map" -> With(c, op.range, op.prot, [i \in 1..(op.range[2] - op.range[1]) |-> 0])
    [] op.op = "unmap" -> Unmapping(c, op.range).cells
    [] op.op = "prot" -> Protecting(c, op.range, op.prot).cells
    [] op.op = "write" -> Storing(c, op.range, op.data).cells
    [] OTHER -> c

\* What replays follow: ranges that are mapped or unmapped as a whole.
Tame(c, op) ==
  /\ op.op \in {"map", "unmap", "prot"} => op.range[1] < op.range[2]
  /\ op.op \in {"map", "unmap"} => Tidy(c, op.range)
  /\ op.op \in {"prot", "write"} => Span(op.range) \subseteq DOMAIN c

IsFun(c) == c = [x \in DOMAIN c |-> c[x]]

LEMMA CellsAre ==
  ASSUME NEW pages
  PROVE  IsFun(Cells(pages))
BY DEF Cells, IsFun

LEMMA InsertedApart ==
  ASSUME NEW s \in Seq(Page), Apart(s), NEW p \in Page,
         \A q \in Range(s), x \in Nat : ~(Holds(q, x) /\ Holds(p, x))
  PROVE  LET t == InsertAt(s, Max({0} \cup {k \in DOMAIN s : s[k].addr < p.addr}) + 1, p)
         IN  t \in Seq(Page) /\ Apart(t) /\ \A q : q \in Range(t) <=> q \in Range(s) \/ q = p
<1> DEFINE before == {k \in DOMAIN s : s[k].addr < p.addr}
           S == {0} \cup before
           m == Max(S)
           n == Len(s)
           a == SubSeq(s, 1, m)
           z == SubSeq(s, m + 1, n)
<1>1. n \in Nat /\ DOMAIN s = 1..n
  OBVIOUS
<1>2. m \in S /\ (\A k \in S : k <= m) /\ m \in 0..n
  <2>1. S \subseteq Nat /\ S # {} /\ \A k \in S : k \in 0..n /\ k <= n
    BY <1>1
  <2> HIDE DEF S
  <2>2. \E b \in S : \A k \in S : k <= b
    BY <1>1, <2>1, GreatestIs
  <2>3. Max(S) \in S /\ \A k \in S : k <= Max(S)
    BY <2>2 DEF Max
  <2> QED
    BY <2>1, <2>3
<1>3. \A k \in 1..n : /\ s[k] \in Page /\ s[k] \in Range(s) /\ s[k].addr \in Nat /\ End(s[k]) \in Nat
                      /\ s[k].addr < End(s[k])
  <2> SUFFICES ASSUME NEW k \in 1..n
               PROVE  /\ s[k] \in Page /\ s[k] \in Range(s) /\ s[k].addr \in Nat /\ End(s[k]) \in Nat
                      /\ s[k].addr < End(s[k])
    OBVIOUS
  <2>1. s[k] \in Page /\ s[k] \in Range(s)
    BY <1>1 DEF Range
  <2> QED
    BY <2>1, PageHas
<1>4. p.addr \in Nat /\ End(p) \in Nat /\ p.addr < End(p)
  BY PageHas
<1>5. \A k \in 1..n : Below(s[k], p) \/ Below(p, s[k])
  <2> SUFFICES ASSUME NEW k \in 1..n
               PROVE  Below(s[k], p) \/ Below(p, s[k])
    OBVIOUS
  <2>1. ~(Holds(s[k], s[k].addr) /\ Holds(p, s[k].addr)) /\ ~(Holds(s[k], p.addr) /\ Holds(p, p.addr))
    BY <1>3, <1>4
  <2>2. s[k].addr \in Nat /\ End(s[k]) \in Nat /\ s[k].addr < End(s[k])
    BY <1>3
  <2> QED
    BY <1>4, <2>1, <2>2 DEF Holds, Below
<1>6. \A k \in 1..n : k <= m => Below(s[k], p)
  <2> SUFFICES ASSUME NEW k \in 1..n, k <= m
               PROVE  Below(s[k], p)
    OBVIOUS
  <2>1. m \in before /\ m \in 1..n
    BY <1>1, <1>2
  <2> HIDE DEF m
  <2>2. s[m].addr < p.addr /\ s[m].addr \in Nat
    BY <1>3, <2>1
  <2>3. k = m \/ Below(s[k], s[m])
    <3>1. k = m \/ k < m
      BY <2>1
    <3> QED
      BY <1>1, <2>1, <3>1 DEF Apart
  <2>4. s[k].addr < p.addr
    <3>1. s[k].addr \in Nat /\ End(s[k]) \in Nat /\ s[k].addr < End(s[k])
      BY <1>3
    <3>2. s[k].addr = s[m].addr \/ End(s[k]) <= s[m].addr
      BY <2>3 DEF Below
    <3> QED
      BY <1>4, <2>2, <3>1, <3>2
  <2>5. ~Below(p, s[k])
    BY <1>3, <1>4, <2>4 DEF Below
  <2> QED
    BY <1>5, <2>5
<1>7. \A k \in 1..n : k > m => Below(p, s[k])
  <2> SUFFICES ASSUME NEW k \in 1..n, k > m
               PROVE  Below(p, s[k])
    OBVIOUS
  <2>1. k \notin before
    <3>1. k \notin S
      BY <1>2
    <3> QED
      BY <3>1
  <2>2. ~(s[k].addr < p.addr)
    BY <1>1, <2>1
  <2>3. ~Below(s[k], p)
    BY <1>3, <1>4, <2>2 DEF Below
  <2> QED
    BY <1>5, <2>3
<1> HIDE DEF m
<1>8. /\ a \in Seq(Page) /\ Len(a) = m /\ z \in Seq(Page) /\ Len(z) = n - m
      /\ (\A i \in 1..m : a[i] = s[i]) /\ \A i \in 1..(n - m) : z[i] = s[m + i]
  <2>1. s \in Seq(Page) /\ Len(s) = n /\ m \in 0..n /\ n \in Nat
    BY <1>1, <1>2
  <2> HIDE DEF n
  <2>2. a \in Seq(Page) /\ Len(a) = m /\ \A i \in 1..m : a[i] = s[i]
    BY <2>1
  <2>3. z \in Seq(Page) /\ Len(z) = n - m /\ \A i \in 1..(n - m) : z[i] = s[(m + 1) + i - 1]
    BY <2>1
  <2>4. \A i \in 1..(n - m) : (m + 1) + i - 1 = m + i
    BY <2>1
  <2> QED
    BY <2>2, <2>3, <2>4
<1> HIDE DEF a, z
<1>9. m \in Nat /\ m <= n /\ DOMAIN a = 1..m /\ DOMAIN z = 1..(n - m)
  BY <1>1, <1>2, <1>8
<1>10. \A i \in 1..m : i \in 1..n /\ i <= m
  BY <1>1, <1>9
<1>11. \A i \in 1..(n - m) : m + i \in 1..n /\ m + i > m
  BY <1>1, <1>9
<1>12. \A k \in 1..n : (k \in 1..m) \/ (k - m \in 1..(n - m) /\ m + (k - m) = k)
  BY <1>1, <1>9
<1>13. Apart(a) /\ Apart(z)
  <2>1. \A i, j \in 1..m : i < j => Below(a[i], a[j])
    BY <1>1, <1>8, <1>10 DEF Apart
  <2>2. \A i, j \in 1..(n - m) : i < j => m + i < m + j
    BY <1>9
  <2>3. \A i, j \in 1..(n - m) : i < j => Below(z[i], z[j])
    BY <1>1, <1>8, <1>11, <2>2 DEF Apart
  <2> QED
    BY <1>9, <2>1, <2>3 DEF Apart
<1>14. \A q : q \in Range(a) <=> \E i \in 1..m : q = s[i]
  BY <1>8, <1>9 DEF Range
<1>15. \A q : q \in Range(z) <=> \E i \in 1..(n - m) : q = s[m + i]
  <2>1. \A q : q \in Range(z) <=> \E i \in 1..(n - m) : q = z[i]
    BY <1>9 DEF Range
  <2>2. \A i \in 1..(n - m) : z[i] = s[m + i]
    BY <1>8
  <2> QED
    BY <2>1, <2>2
<1>16. \A q : q \in Range(s) <=> \E i \in 1..n : q = s[i]
  BY <1>1 DEF Range
<1>17. \A q : q \in Range(s) <=> q \in Range(a) \/ q \in Range(z)
  BY <1>10, <1>11, <1>12, <1>14, <1>15, <1>16
<1>18. \A q \in Range(a) : Below(q, p)
  BY <1>6, <1>10, <1>14
<1>19. \A q \in Range(z) : Below(p, q)
  BY <1>7, <1>11, <1>15
<1> DEFINE b == <<p>>
           u == a \o b
<1>20. b \in Seq(Page) /\ Apart(b) /\ Range(b) = {p}
  BY ShortLists
<1> HIDE DEF b
<1>21. u \in Seq(Page) /\ Range(u) = Range(a) \cup {p} /\ Apart(u)
  BY <1>8, <1>13, <1>18, <1>20, RangeOfJoin, JoinApart
<1> HIDE DEF u
<1>22. \A q \in Range(u), w \in Range(z) : Below(q, w)
  <2>1. \A q \in Range(a), w \in Range(z) : Below(q, w)
    <3> SUFFICES ASSUME NEW q \in Range(a), NEW w \in Range(z)
                 PROVE  Below(q, w)
      OBVIOUS
    <3>1. PICK i \in 1..n : q = s[i]
      BY <1>10, <1>14
    <3>2. PICK j \in 1..n : w = s[j]
      BY <1>11, <1>15
    <3>3. Below(q, p) /\ Below(p, w)
      BY <1>18, <1>19
    <3> QED
      BY <1>3, <1>4, <3>1, <3>2, <3>3 DEF Below
  <2> QED
    BY <1>19, <1>21, <2>1
<1>23. u \o z \in Seq(Page) /\ Range(u \o z) = Range(u) \cup Range(z) /\ Apart(u \o z)
  BY <1>8, <1>13, <1>21, <1>22, RangeOfJoin, JoinApart
<1>24. InsertAt(s, m + 1, p) = u \o z
  <2>1. (m + 1) - 1 = m
    BY <1>9
  <2>2. InsertAt(s, m + 1, p) = SubSeq(s, 1, (m + 1) - 1) \o <<p>> \o SubSeq(s, m + 1, Len(s))
    BY DEF InsertAt
  <2> QED
    BY <2>1, <2>2 DEF u, a, b, z, n
<1>25. \A q : q \in Range(u \o z) <=> q \in Range(s) \/ q = p
  BY <1>17, <1>21, <1>23
<1> QED
  BY <1>23, <1>24, <1>25 DEF m

LEMMA SpanIs ==
  ASSUME NEW r \in Spans
  PROVE  /\ r[1] \in Nat /\ r[2] \in Nat /\ Size(r) = r[2] - r[1] /\ Size(r) \in Nat /\ Span(r) = Bytes(r[1], r[2])
         /\ \A x \in Nat : x \in Span(r) <=> r[1] <= x /\ x < r[2]
         /\ \A x \in Span(r) : x \in Nat
         /\ r[1] < r[2] => r[1] \in Span(r) /\ Size(r) > 0
BY DEF Spans, Size, Span, Bytes

\* What is mapped as a whole, or not at all, is unmapped as the code expects.
LEMMA UnmapTells ==
  ASSUME NEW pages \in Seq(Page), Apart(pages), NEW r \in Spans, r[1] < r[2], Tidy(Cells(pages), r)
  PROVE  LET rest == IF RangeMapped(pages, r) THEN UnmappedPages(pages, r) ELSE pages
         IN  rest \in Seq(Page) /\ Apart(rest) /\ Cells(rest) = Unmapping(Cells(pages), r).cells
<1> DEFINE c == Cells(pages)
           F == UnmappedCells(pages, r)
           rest == IF RangeMapped(pages, r) THEN UnmappedPages(pages, r) ELSE pages
<1>1. Span(r) = Bytes(r[1], r[2]) /\ r[1] \in Span(r)
  BY SpanIs
<1>2. RangeMapped(pages, r) <=> r[1] \in DOMAIN c /\ Span(r) \subseteq DOMAIN c
  BY <1>1, MappedIsMapped
<1>3. F = [x \in DOMAIN c \ Span(r) |-> c[x]] /\ IsFun(F) /\ IsFun(c) /\ F = Unmapping(c, r).cells
  BY <1>1, CellsAre DEF UnmappedCells, IsFun, Unmapping
<1>4. CASE RangeMapped(pages, r)
  <2>1. UnmappedPages(pages, r) \in Seq(Page) /\ Apart(UnmappedPages(pages, r)) /\ Reveals(UnmappedPages(pages, r), F)
    BY UnmapReveals
  <2> DEFINE s == UnmappedPages(pages, r)
  <2> HIDE DEF F, s
  <2>2. Cells(s) = F
    BY <1>3, <2>1, RevealedIs DEF IsFun, s
  <2> QED
    BY <1>3, <1>4, <2>1, <2>2 DEF s
<1>5. CASE ~RangeMapped(pages, r)
  <2>1. Span(r) \cap DOMAIN c = {}
    BY <1>1, <1>2, <1>5 DEF Tidy
  <2>2. F = c
    <3>1. DOMAIN c \ Span(r) = DOMAIN c
      BY <2>1
    <3> QED
      BY <1>3, <3>1 DEF IsFun
  <2> QED
    BY <1>3, <1>5, <2>2
<1> QED
  BY <1>4, <1>5

LEMMA MapTells ==
  ASSUME NEW pages \in Seq(Page), Apart(pages), NEW r \in Spans, r[1] < r[2], Tidy(Cells(pages), r), NEW prot \in Prots
  PROVE  LET after == Mapped(pages, r, prot)
         IN  /\ after \in Seq(Page) /\ Apart(after)
             /\ Cells(after) = With(Cells(pages), r, prot, [i \in 1..(r[2] - r[1]) |-> 0])
<1> DEFINE c == Cells(pages)
           rest == IF RangeMapped(pages, r) THEN UnmappedPages(pages, r) ELSE pages
           d == [i \in 1..Size(r) |-> 0]
           p == [addr |-> r[1], size |-> Size(r), prot |-> prot, data |-> d]
           after == Mapped(pages, r, prot)
           F == With(c, r, prot, [i \in 1..(r[2] - r[1]) |-> 0])
<1>1. /\ r[1] \in Nat /\ r[2] \in Nat /\ Size(r) = r[2] - r[1] /\ Size(r) \in Nat /\ r[1] \in Span(r) /\ Size(r) > 0
      /\ \A x \in Nat : x \in Span(r) <=> r[1] <= x /\ x < r[2]
      /\ \A x \in Span(r) : x \in Nat
  BY SpanIs
<1>2. rest \in Seq(Page) /\ Apart(rest) /\ Cells(rest) = Unmapping(c, r).cells
  BY UnmapTells
<1>3. after = InsertAt(rest, Max({0} \cup {k \in DOMAIN rest : rest[k].addr < p.addr}) + 1, p)
  BY DEF Mapped
<1> HIDE DEF rest, after
<1>4. d \in Seq(Byte) /\ Len(d) = Size(r) /\ \A i \in 1..Size(r) : d[i] = 0
  BY <1>1, TraceAssumption
<1> HIDE DEF d
<1>5. /\ p \in Page /\ p.addr = r[1] /\ End(p) = r[2] /\ p.prot = prot /\ p.data = d
      /\ \A x \in Nat : Holds(p, x) <=> x \in Span(r)
  <2>1. p \in Page
    BY <1>1, <1>4 DEF Page
  <2>2. End(p) = r[2]
    BY <1>1 DEF End
  <2> QED
    BY <1>1, <2>1, <2>2 DEF Holds
<1> HIDE DEF p
<1>6. Reveals(rest, Cells(rest))
  BY <1>2, ListsReveal
<1>7. /\ DOMAIN Cells(rest) = DOMAIN c \ Span(r)
      /\ \A x \in DOMAIN c \ Span(r) : Cells(rest)[x] = c[x]
  BY <1>2 DEF Unmapping
<1>8. \A q \in Range(rest), x \in Nat : ~(Holds(q, x) /\ Holds(p, x))
  BY <1>5, <1>6, <1>7 DEF Reveals
<1>9. after \in Seq(Page) /\ Apart(after) /\ \A q : q \in Range(after) <=> q \in Range(rest) \/ q = p
  BY <1>2, <1>3, <1>5, <1>8, InsertedApart
<1>10. /\ DOMAIN F = Span(r) \cup DOMAIN c /\ IsFun(F)
       /\ \A x \in Span(r) : F[x] = [prot |-> prot, byte |-> 0]
       /\ \A x \in DOMAIN c \ Span(r) : F[x] = c[x]
  <2> DEFINE z == [i \in 1..(r[2] - r[1]) |-> 0]
             G == [x \in Span(r) |-> [prot |-> prot, byte |-> z[x - r[1] + 1]]]
  <2>1. F = [x \in Span(r) \cup DOMAIN c |-> IF x \in Span(r) THEN G[x] ELSE c[x]]
    BY DEF With, Onto
  <2>2. \A x \in Span(r) : G[x] = [prot |-> prot, byte |-> 0]
    <3> SUFFICES ASSUME NEW x \in Span(r)
                 PROVE  G[x] = [prot |-> prot, byte |-> 0]
      OBVIOUS
    <3>1. x - r[1] + 1 \in 1..(r[2] - r[1])
      BY <1>1
    <3>2. z[x - r[1] + 1] = 0
      BY <3>1
    <3> HIDE DEF z
    <3> QED
      BY <3>2
  <2> HIDE DEF G, F
  <2> QED
    BY <2>1, <2>2 DEF IsFun
<1> HIDE DEF F
<1>11. \A x \in Nat : Holds(p, x) => x \in DOMAIN F /\ F[x] = CellOf(p, x)
  <2> SUFFICES ASSUME NEW x \in Nat, Holds(p, x)
               PROVE  x \in DOMAIN F /\ F[x] = CellOf(p, x)
    OBVIOUS
  <2>1. x \in Span(r) /\ x - r[1] + 1 \in 1..Size(r)
    BY <1>1, <1>5
  <2>2. CellOf(p, x) = [prot |-> prot, byte |-> 0]
    BY <1>4, <1>5, <2>1 DEF CellOf
  <2> QED
    BY <1>10, <2>1, <2>2
<1>12. Reveals(after, F)
  <2>1. ASSUME NEW q \in Range(after), NEW x \in Nat, Holds(q, x)
        PROVE  x \in DOMAIN F /\ F[x] = CellOf(q, x)
    <3>1. CASE q = p
      BY <1>11, <2>1, <3>1
    <3>2. CASE q # p
      <4>1. q \in Range(rest)
        BY <1>9, <3>2
      <4>2. x \in DOMAIN Cells(rest) /\ Cells(rest)[x] = CellOf(q, x)
        BY <1>6, <2>1, <4>1 DEF Reveals
      <4> QED
        BY <1>7, <1>10, <4>2
    <3> QED
      BY <3>1, <3>2
  <2>2. ASSUME NEW x \in DOMAIN F
        PROVE  x \in Nat /\ \E q \in Range(after) : Holds(q, x)
    <3>1. CASE x \in Span(r)
      BY <1>1, <1>5, <1>9, <3>1
    <3>2. CASE x \notin Span(r)
      <4>1. x \in DOMAIN Cells(rest)
        BY <1>7, <1>10, <2>2, <3>2
      <4>2. x \in Nat /\ \E q \in Range(rest) : Holds(q, x)
        BY <1>6, <4>1 DEF Reveals
      <4> QED
        BY <1>9, <4>2
    <3> QED
      BY <3>1, <3>2
  <2> QED
    BY <2>1, <2>2 DEF Reveals
<1>13. Cells(after) = F
  BY <1>9, <1>10, <1>12, RevealedIs DEF IsFun
<1> QED
  BY <1>9, <1>13 DEF after, F

LEMMA ProtectTells ==
  ASSUME NEW pages \in Seq(Page), Apart(pages), NEW r \in Spans, NEW prot \in Prots
  PROVE  /\ ProtectedPages(pages, r, prot) \in Seq(Page) /\ Apart(ProtectedPages(pages, r, prot))
         /\ Cells(ProtectedPages(pages, r, prot)) = Protecting(Cells(pages), r, prot).cells
<1> DEFINE F == ProtectedCells(pages, r, prot)
           s == ProtectedPages(pages, r, prot)
<1>1. F = Protecting(Cells(pages), r, prot).cells /\ IsFun(F)
  BY SpanIs DEF ProtectedCells, Reprotected, Protecting, IsFun
<1>2. s \in Seq(Page) /\ Apart(s) /\ Reveals(s, F)
  BY ProtectReveals
<1> HIDE DEF F, s
<1>3. Cells(s) = F
  BY <1>1, <1>2, RevealedIs DEF IsFun
<1> QED
  BY <1>1, <1>2, <1>3 DEF s

LEMMA WriteTells ==
  ASSUME NEW pages \in Seq(Page), Apart(pages), NEW r \in Spans, Span(r) \subseteq DOMAIN Cells(pages),
         NEW d \in Seq(Byte), Len(d) = Size(r)
  PROVE  LET after == IF RangeMapped(pages, r) THEN WrittenPages(pages, r, d) ELSE pages
         IN  after \in Seq(Page) /\ Apart(after) /\ Cells(after) = Storing(Cells(pages), r, d).cells
<1> DEFINE c == Cells(pages)
           F == WrittenCells(pages, r, d)
           s == WrittenPages(pages, r, d)
<1>1. Span(r) = Bytes(r[1], r[2]) /\ r[1] \in Nat /\ r[2] \in Nat /\ (r[1] < r[2] => r[1] \in Span(r))
  BY SpanIs
<1>2. F = Storing(c, r, d).cells /\ IsFun(F) /\ IsFun(c)
  BY <1>1, CellsAre DEF WrittenCells, Storing, IsFun
<1>3. CASE RangeMapped(pages, r)
  <2>1. d \in [1..Size(r) -> Byte]
    BY SpanIs
  <2>2. s \in Seq(Page) /\ Apart(s) /\ Reveals(s, F)
    BY <1>3, <2>1, WriteReveals
  <2> HIDE DEF F, s
  <2>3. Cells(s) = F
    BY <1>2, <2>2, RevealedIs DEF IsFun
  <2> QED
    BY <1>2, <1>3, <2>2, <2>3 DEF s
<1>4. CASE ~RangeMapped(pages, r)
  <2>1. ~(r[1] \in DOMAIN c /\ Span(r) \subseteq DOMAIN c)
    BY <1>1, <1>4, MappedIsMapped
  <2>2. ~(r[1] < r[2])
    BY <1>1, <2>1
  <2>3. Span(r) = {}
    BY <1>1, <2>2 DEF Bytes
  <2>4. Storing(c, r, d).cells = [x \in DOMAIN c |-> c[x]]
    BY <2>3 DEF Storing
  <2> QED
    BY <1>2, <1>4, <2>4 DEF IsFun
<1> QED
  BY <1>3, <1>4

LEMMA OperationIs ==
  ASSUME NEW op \in Calm
  PROVE  /\ op.op \in {"other", "reg", "map", "unmap", "prot", "write"}
         /\ op.op \in {"map", "unmap", "prot", "write"} => op.range \in Spans
         /\ op.op \in {"map", "prot"} => op.prot \in Prots
         /\ op.op = "write" => op.data \in Seq(Byte) /\ Len(op.data) = Size(op.range)
<1>1. CASE op \in {MemMapOp(r, p) : r \in {s \in Spans : s[1] < s[2]}, p \in Prots}
  BY <1>1 DEF MemMapOp
<1>2. CASE op \in {MemUnmapOp(r) : r \in Spans}
  BY <1>2 DEF MemUnmapOp
<1>3. CASE op \in {MemProtOp(r, p) : r \in Spans, p \in Prots}
  BY <1>3 DEF MemProtOp
<1>4. CASE op \in UNION {{MemWriteOp(r, d) : d \in {s \in Seq(Byte) : Len(s) = Size(r)}} : r \in Spans}
  <2>1. PICK r \in Spans : \E d \in {s \in Seq(Byte) : Len(s) = Size(r)} : op = MemWriteOp(r, d)
    BY <1>4
  <2> QED
    BY <2>1 DEF MemWriteOp
<1>5. CASE op = Other
  BY <1>5 DEF Other
<1>6. CASE op \in {Reg(n, v) : n \in Regs, v \in Values}
  BY <1>6 DEF Reg
<1> QED
  BY <1>1, <1>2, <1>3, <1>4, <1>5, <1>6 DEF Calm

\* A tame operation leaves the cells that it says.
LEMMA RecallTells ==
  ASSUME NEW m \in ViewType, Apart(m.pages), NEW op \in Calm, Tame(Cells(m.pages), op)
  PROVE  /\ Recall(m, op) \in ViewType /\ Apart(Recall(m, op).pages)
         /\ Cells(Recall(m, op).pages) = Done(Cells(m.pages), op)
<1> DEFINE s == m.pages
           c == Cells(s)
           r == op.range
           u == Recall(m, op).pages
<1>1. s \in Seq(Page) /\ Recall(m, op) \in ViewType
  BY RecallIs DEF ViewType
<1>2. u = IF op.op \in {"other", "reg"} THEN s ELSE Remembered(s, op)
  BY DEF Recall
<1> HIDE DEF u, s
<1>3. CASE op.op \in {"other", "reg"}
  BY <1>1, <1>2, <1>3 DEF Done, s, u
<1>4. CASE op.op = "map"
  <2>1. r \in Spans /\ op.prot \in Prots /\ r[1] < r[2] /\ Tidy(c, r)
    BY <1>4, OperationIs DEF Tame, s
  <2>2. u = Mapped(s, r, op.prot) /\ Done(c, op) = With(c, r, op.prot, [i \in 1..(r[2] - r[1]) |-> 0])
    BY <1>2, <1>4 DEF Remembered, Done
  <2> HIDE DEF r
  <2>3. u \in Seq(Page) /\ Apart(u) /\ Cells(u) = Done(c, op)
    BY <1>1, <2>1, <2>2, MapTells DEF s
  <2> QED
    BY <1>1, <2>3 DEF u, s
<1>5. CASE op.op = "unmap"
  <2>1. r \in Spans /\ r[1] < r[2] /\ Tidy(c, r)
    BY <1>5, OperationIs DEF Tame, s
  <2>2. u = (IF RangeMapped(s, r) THEN UnmappedPages(s, r) ELSE s) /\ Done(c, op) = Unmapping(c, r).cells
    BY <1>2, <1>5 DEF Remembered, Done
  <2> HIDE DEF r
  <2>3. u \in Seq(Page) /\ Apart(u) /\ Cells(u) = Done(c, op)
    BY <1>1, <2>1, <2>2, UnmapTells DEF s
  <2> QED
    BY <1>1, <2>3 DEF u, s
<1>6. CASE op.op = "prot"
  <2>1. r \in Spans /\ op.prot \in Prots /\ r[1] < r[2] /\ Span(r) \subseteq DOMAIN c
    BY <1>6, OperationIs DEF Tame, s
  <2>2. RangeMapped(s, r)
    <3>1. r[1] \in Span(r) /\ Span(r) = Bytes(r[1], r[2])
      BY <2>1, SpanIs
    <3> QED
      BY <1>1, <2>1, <3>1, MappedIsMapped DEF s
  <2>3. u = ProtectedPages(s, r, op.prot) /\ Done(c, op) = Protecting(c, r, op.prot).cells
    BY <1>2, <1>6, <2>2 DEF Remembered, Done
  <2> HIDE DEF r
  <2>4. u \in Seq(Page) /\ Apart(u) /\ Cells(u) = Done(c, op)
    BY <1>1, <2>1, <2>3, ProtectTells DEF s
  <2> QED
    BY <1>1, <2>4 DEF u, s
<1>7. CASE op.op = "write"
  <2>1. r \in Spans /\ op.data \in Seq(Byte) /\ Len(op.data) = Size(r) /\ Span(r) \subseteq DOMAIN c
    BY <1>7, OperationIs DEF Tame, s
  <2>2. u = (IF RangeMapped(s, r) THEN WrittenPages(s, r, op.data) ELSE s) /\ Done(c, op) = Storing(c, r, op.data).cells
    BY <1>2, <1>7 DEF Remembered, Done
  <2> HIDE DEF r
  <2>3. u \in Seq(Page) /\ Apart(u) /\ Cells(u) = Done(c, op)
    BY <1>1, <2>1, <2>2, WriteTells DEF s
  <2> QED
    BY <1>1, <2>3 DEF u, s
<1> QED
  BY <1>3, <1>4, <1>5, <1>6, <1>7, OperationIs

-----------------------------------------------------------------------------
(* Several operations.                                                     *)

LEMMA RecallTwo ==
  ASSUME NEW m, NEW a \in Calm, NEW b \in Calm
  PROVE  <<a, b>> \in Seq(Calm) /\ RecallAll(m, <<a, b>>) = Recall(Recall(m, a), b)
<1> DEFINE s == <<a>>
<1>1. s \in Seq(Calm) /\ <<a, b>> = Append(s, b)
  OBVIOUS
<1>2. RecallAll(m, s) = Recall(m, a)
  BY RecallSingle
<1> HIDE DEF s
<1>3. RecallAll(m, Append(s, b)) = Recall(RecallAll(m, s), b)
  BY <1>1, RecallOneMore
<1>4. Append(s, b) \in Seq(Calm)
  BY <1>1
<1> QED
  BY <1>1, <1>2, <1>3, <1>4

LEMMA RecallThree ==
  ASSUME NEW m, NEW a \in Calm, NEW b \in Calm, NEW c \in Calm
  PROVE  <<a, b, c>> \in Seq(Calm) /\ RecallAll(m, <<a, b, c>>) = Recall(Recall(Recall(m, a), b), c)
<1> DEFINE s == <<a, b>>
<1>1. <<a, b, c>> = Append(s, c)
  OBVIOUS
<1>2. s \in Seq(Calm) /\ RecallAll(m, s) = Recall(Recall(m, a), b)
  BY RecallTwo
<1> HIDE DEF s
<1>3. RecallAll(m, Append(s, c)) = Recall(RecallAll(m, s), c)
  BY <1>2, RecallOneMore
<1>4. Append(s, c) \in Seq(Calm)
  BY <1>2
<1> QED
  BY <1>1, <1>2, <1>3, <1>4

\* Operations on memory change no register.
NoReg(ops) == \A i \in DOMAIN ops : ops[i].op # "reg"
SameRegs(a, b) == b.regs = a.regs
Plain == INSTANCE Folding WITH Op <- Recall, Keeps <- SameRegs, Fine <- LAMBDA x : x.op # "reg"

LEMMA RegsStay ==
  ASSUME NEW m, NEW ops \in Seq(Calm), NoReg(ops)
  PROVE  RecallAll(m, ops).regs = m.regs
<1> DEFINE n == Len(ops)
<1>1. n \in Nat /\ DOMAIN ops = 1..n /\ \A i \in 1..n : ops[i].op # "reg"
  BY DEF NoReg
<1> HIDE DEF n
<1>2. SameRegs(m, m)
  BY DEF SameRegs
<1>3. \A b, x : SameRegs(m, b) /\ x.op # "reg" => SameRegs(m, Recall(b, x))
  BY DEF SameRegs, Recall
<1>4. SameRegs(m, Plain!Fold(m, ops))
  BY <1>1, <1>2, <1>3, Plain!FoldKeeps
<1>5. RecallAll(m, ops) = Plain!Fold(m, ops)
  BY DEF RecallAll, Plain!Fold, FoldLeft, MapThenFoldSet, Plain!FoldLeft, Plain!MapThenFoldSet, Max, Plain!Max
<1> QED
  BY <1>4, <1>5 DEF SameRegs

\* Sequences of operations, one behind the other.
Steps(g, m, ss) ==
  /\ g[0] = m /\ \A k \in 0..Len(ss) : g[k] \in ViewType
  /\ \A k \in 0..(Len(ss) - 1) : g[k + 1] = RecallAll(g[k], ss[k + 1])

LEMMA RecallFlat ==
  ASSUME NEW m \in ViewType, NEW ss \in Seq(Seq(Calm))
  PROVE  /\ FlattenSeq(ss) \in Seq(Calm)
         /\ \E g : Steps(g, m, ss) /\ RecallAll(m, FlattenSeq(ss)) = g[Len(ss)]
<1> DEFINE n == Len(ss)
<1>1. n \in Nat /\ DOMAIN ss = 1..n /\ \A i \in 1..n : ss[i] \in Seq(Calm)
  OBVIOUS
<1>2. FlattenSeq(ss) \in Seq(Calm)
  BY FlattenIsSeq
<1>3. CASE n = 0
  <2> DEFINE g == [k \in 0..0 |-> m]
  <2>1. FlattenSeq(ss) = <<>>
    <3>1. ss = <<>>
      BY <1>3
    <3> QED
      BY <1>3, <3>1 DEF FlattenSeq
  <2>2. g[0] = m
    OBVIOUS
  <2> HIDE DEF g
  <2>3. Steps(g, m, ss)
    BY <1>1, <1>3, <2>2 DEF Steps
  <2>4. RecallAll(m, FlattenSeq(ss)) = g[Len(ss)]
    BY <1>3, <2>1, <2>2, RecallNone
  <2> QED
    BY <1>2, <2>3, <2>4
<1>4. CASE n # 0
  <2>1. PICK f : Joins(ss, Len(ss), f) /\ FlattenSeq(ss) = f[Len(ss)]
    BY <1>1, <1>4, FlattenJoins
  <2>2. \A i \in 1..n : f[i] = IF i = 1 THEN ss[i] ELSE f[i - 1] \o ss[i]
    BY <2>1 DEF Joins
  <2> HIDE DEF n
  <2>3. \A i \in 1..n : f[i] \in Seq(Calm)
    <3> DEFINE Wrong == {i \in 1..n : f[i] \notin Seq(Calm)}
    <3> SUFFICES ASSUME Wrong # {}
                 PROVE  FALSE
      OBVIOUS
    <3>1. PICK k \in Wrong : \A j \in Wrong : k <= j
      <4>1. Wrong \subseteq Nat
        OBVIOUS
      <4> HIDE DEF Wrong
      <4> QED
        BY <4>1, LeastIs
    <3>2. k \in 1..n /\ f[k] \notin Seq(Calm) /\ ss[k] \in Seq(Calm)
      BY <1>1, <3>1
    <3>3. k # 1
      BY <2>2, <3>2
    <3>4. k - 1 \in 1..n /\ ~(k <= k - 1)
      BY <1>1, <3>2, <3>3
    <3>5. f[k - 1] \in Seq(Calm)
      BY <3>1, <3>4
    <3>6. f[k - 1] \o ss[k] \in Seq(Calm)
      BY <3>2, <3>5
    <3> QED
      BY <2>2, <3>2, <3>3, <3>6
  <2> DEFINE g == [k \in 0..n |-> IF k = 0 THEN m ELSE RecallAll(m, f[k])]
  <2>4. g[0] = m /\ \A k \in 1..n : g[k] = RecallAll(m, f[k])
    BY <1>1
  <2> HIDE DEF g
  <2>5. \A k \in 0..n : g[k] \in ViewType
    <3>1. \A k \in 1..n : g[k] \in ViewType
      BY <2>3, <2>4, RecallAllHas
    <3>2. \A k \in 0..n : k = 0 \/ k \in 1..n
      BY <1>1
    <3> QED
      BY <2>4, <3>1, <3>2
  <2>6. ASSUME NEW k \in 0..(n - 1)
        PROVE  g[k + 1] = RecallAll(g[k], ss[k + 1])
    <3>1. k + 1 \in 1..n /\ (k = 0 \/ (k \in 1..n /\ k + 1 # 1)) /\ (k + 1) - 1 = k
      BY <1>1
    <3>2. g[k + 1] = RecallAll(m, f[k + 1])
      BY <2>4, <3>1
    <3>3. CASE k = 0
      BY <2>2, <2>4, <3>1, <3>2, <3>3
    <3>4. CASE k # 0
      <4>1. k \in 1..n /\ g[k] = RecallAll(m, f[k]) /\ f[k] \in Seq(Calm) /\ ss[k + 1] \in Seq(Calm)
        BY <1>1, <2>3, <2>4, <3>1, <3>4
      <4>2. f[k + 1] = f[k] \o ss[k + 1]
        BY <2>2, <3>1, <3>4
      <4>3. RecallAll(m, f[k] \o ss[k + 1]) = RecallAll(RecallAll(m, f[k]), ss[k + 1])
        BY <4>1, RecallMore
      <4> QED
        BY <3>2, <4>1, <4>2, <4>3
    <3> QED
      BY <3>3, <3>4
  <2>7. Steps(g, m, ss)
    BY <2>4, <2>5, <2>6 DEF Steps, n
  <2>8. RecallAll(m, FlattenSeq(ss)) = g[Len(ss)]
    <3>1. n \in 1..n
      BY <1>1, <1>4 DEF n
    <3> QED
      BY <2>1, <2>4, <3>1 DEF n
  <2> QED
    BY <1>2, <2>7, <2>8
<1> QED
  BY <1>3, <1>4

-----------------------------------------------------------------------------
(* What programs and kernels do, and what a rewind restores.               *)

Shown(m, c) == m \in ViewType /\ Apart(m.pages) /\ Cells(m.pages) = c

LEMMA ShownNext ==
  ASSUME NEW m, NEW c, Shown(m, c), NEW op \in Calm, Tame(c, op)
  PROVE  Shown(Recall(m, op), Done(c, op))
BY RecallTells DEF Shown

LEMMA RangeOperations ==
  ASSUME NEW r \in Spans, r[1] < r[2], NEW p \in Prots
  PROVE  MemUnmapOp(r) \in Calm /\ MemMapOp(r, p) \in Calm /\ MemProtOp(r, p) \in Calm
BY DEF Calm

LEMMA WritesAreCalm ==
  ASSUME NEW r \in Spans, NEW d \in Seq(Byte), Len(d) = Size(r)
  PROVE  MemWriteOp(r, d) \in Calm
<1>1. MemWriteOp(r, d) \in {MemWriteOp(r, e) : e \in {s \in Seq(Byte) : Len(s) = Size(r)}}
  OBVIOUS
<1> QED
  BY <1>1 DEF Calm

\* What is unmapped first is mapped as it would have been.
LEMMA MapAgain ==
  ASSUME NEW c, NEW r \in Spans, NEW p, NEW d
  PROVE  With(Unmapping(c, r).cells, r, p, d) = With(c, r, p, d)
<1> DEFINE a == Unmapping(c, r).cells
           b == [x \in Span(r) |-> [prot |-> p, byte |-> d[x - r[1] + 1]]]
<1>1. DOMAIN a = DOMAIN c \ Span(r) /\ \A x \in DOMAIN c \ Span(r) : a[x] = c[x]
  BY DEF Unmapping
<1>2. DOMAIN b = Span(r)
  OBVIOUS
<1> HIDE DEF a, b
<1>3. Onto(b, a) = Onto(b, c)
  BY <1>1, <1>2 DEF Onto
<1> QED
  BY <1>3 DEF With, a, b

LEMMA MappingShown ==
  ASSUME NEW m, NEW c, Shown(m, c), NEW r \in Spans, r[1] < r[2], Tidy(c, r), NEW p \in Prots
  PROVE  /\ Mapping(c, r, p).ops \in Seq(Calm) /\ NoReg(Mapping(c, r, p).ops)
         /\ Shown(RecallAll(m, Mapping(c, r, p).ops), Mapping(c, r, p).cells)
<1> DEFINE a == MemUnmapOp(r)
           b == MemMapOp(r, p)
           z == [i \in 1..(r[2] - r[1]) |-> 0]
<1>1. a \in Calm /\ b \in Calm
  BY RangeOperations
<1>2. Mapping(c, r, p).ops = <<a, b>> /\ Mapping(c, r, p).cells = With(c, r, p, z)
  BY DEF Mapping
<1>3. a.op = "unmap" /\ a.range = r /\ b.op = "map" /\ b.range = r /\ b.prot = p
  BY DEF MemUnmapOp, MemMapOp
<1> HIDE DEF a, b
<1>4. Done(c, a) = Unmapping(c, r).cells /\ \A d : Done(d, b) = With(d, r, p, z)
  BY <1>3 DEF Done
<1> HIDE DEF z
<1>5. Tame(c, a) /\ Tame(Done(c, a), b)
  <2>1. Span(r) \cap DOMAIN Unmapping(c, r).cells = {}
    BY DEF Unmapping
  <2> QED
    BY <1>3, <1>4, <2>1 DEF Tame, Tidy
<1>6. Shown(Recall(Recall(m, a), b), Done(Done(c, a), b))
  <2>1. Shown(Recall(m, a), Done(c, a))
    BY <1>1, <1>5, ShownNext
  <2> QED
    BY <1>1, <1>5, <2>1, ShownNext
<1>7. Done(Done(c, a), b) = With(c, r, p, z)
  BY <1>4, MapAgain
<1>8. NoReg(<<a, b>>)
  BY <1>3 DEF NoReg
<1> QED
  BY <1>1, <1>2, <1>6, <1>7, <1>8, RecallTwo

LEMMA OneShown ==
  ASSUME NEW m, NEW c, Shown(m, c), NEW op \in Calm, Tame(c, op), op.op # "reg"
  PROVE  <<op>> \in Seq(Calm) /\ NoReg(<<op>>) /\ Shown(RecallAll(m, <<op>>), Done(c, op))
<1>1. Shown(RecallAll(m, <<op>>), Done(c, op))
  BY RecallSingle, ShownNext
<1> QED
  BY <1>1 DEF NoReg

\* A kernel's work.
LEMMA KernelShown ==
  ASSUME NEW m, NEW c, Shown(m, c), NEW r \in Spans, r[1] < r[2], Tidy(c, r), NEW work \in KernelWork(c, r)
  PROVE  work.ops \in Seq(Calm) /\ NoReg(work.ops) /\ Shown(RecallAll(m, work.ops), work.cells)
<1>1. CASE work \in {Mapping(c, r, p) : p \in Prots}
  BY <1>1, MappingShown
<1>2. CASE work = Unmapping(c, r)
  <2> DEFINE op == MemUnmapOp(r)
  <2>1. op \in Calm /\ op.op = "unmap" /\ op.range = r
    BY DEF Calm, MemUnmapOp
  <2>2. work.ops = <<op>>
    BY <1>2 DEF Unmapping
  <2> HIDE DEF op
  <2>3. Tame(c, op) /\ Done(c, op) = work.cells
    BY <1>2, <2>1 DEF Tame, Done
  <2> QED
    BY <2>1, <2>2, <2>3, OneShown
<1>3. CASE Span(r) \subseteq DOMAIN c /\ work \in {Protecting(c, r, p) : p \in Prots}
  <2>1. PICK p \in Prots : work = Protecting(c, r, p)
    BY <1>3
  <2> DEFINE op == MemProtOp(r, p)
  <2>2. op \in Calm /\ op.op = "prot" /\ op.range = r /\ op.prot = p
    BY RangeOperations DEF MemProtOp
  <2>3. work.ops = <<op>>
    BY <2>1 DEF Protecting
  <2> HIDE DEF op
  <2>4. Tame(c, op) /\ Done(c, op) = work.cells
    BY <1>3, <2>1, <2>2 DEF Tame, Done
  <2> QED
    BY <2>2, <2>3, <2>4, OneShown
<1>4. CASE Span(r) \subseteq DOMAIN c /\ work \in {Storing(c, r, d) : d \in [1..(r[2] - r[1]) -> Byte]}
  <2>1. PICK d \in [1..(r[2] - r[1]) -> Byte] : work = Storing(c, r, d)
    BY <1>4
  <2> DEFINE op == MemWriteOp(r, d)
  <2>2. op \in Calm /\ op.op = "write" /\ op.range = r /\ op.data = d
    <3>1. Size(r) = r[2] - r[1] /\ Size(r) \in Nat
      BY SpanIs
    <3>2. d \in Seq(Byte) /\ Len(d) = Size(r)
      BY <3>1
    <3> QED
      BY <3>2, WritesAreCalm DEF MemWriteOp
  <2>3. work.ops = <<op>>
    BY <2>1 DEF Storing
  <2> HIDE DEF op
  <2>4. Tame(c, op) /\ Done(c, op) = work.cells
    BY <1>4, <2>1, <2>2 DEF Tame, Done
  <2> QED
    BY <2>2, <2>3, <2>4, OneShown
<1> QED
  BY <1>1, <1>2, <1>3, <1>4 DEF KernelWork

\* An instruction's write.
LEMMA ByteShown ==
  ASSUME NEW m, NEW c, Shown(m, c), NEW x \in DOMAIN c, NEW b \in Byte
  PROVE  LET op == MemWriteOp(<<x, x + 1>>, <<b>>)
         IN  op \in Calm /\ op.op # "reg" /\ Shown(Recall(m, op), [c EXCEPT ![x].byte = b])
<1> DEFINE r == <<x, x + 1>>
           d == <<b>>
           op == MemWriteOp(r, d)
<1>1. m.pages \in Seq(Page) /\ Apart(m.pages) /\ c = Cells(m.pages) /\ IsFun(c)
  BY CellsAre DEF Shown, ViewType
<1>2. x \in Nat
  BY <1>1, PagesReveal
<1>3. r \in Spans /\ d \in Seq(Byte) /\ Len(d) = Size(r) /\ d[1] = b
  BY <1>2 DEF Spans, Size
<1>4. op \in Calm
  BY <1>3, WritesAreCalm
<1>5. op.op = "write" /\ op.range = r /\ op.data = d /\ r[1] = x
  BY DEF MemWriteOp
<1>6. Span(r) = {x}
  BY <1>2 DEF Span, Bytes
<1> HIDE DEF op, r, d
<1>7. Tame(c, op)
  BY <1>5, <1>6 DEF Tame
<1>8. Done(c, op) = [y \in DOMAIN c |-> IF y \in Span(r) THEN [c[y] EXCEPT !.byte = d[y - r[1] + 1]] ELSE c[y]]
  BY <1>5 DEF Done, Storing
<1>9. Done(c, op) = [y \in DOMAIN c |-> IF y = x THEN [c[x] EXCEPT !.byte = b] ELSE c[y]]
  <2>1. x - r[1] + 1 = 1
    BY <1>2, <1>5
  <2>2. ASSUME NEW y \in DOMAIN c
        PROVE  (IF y \in Span(r) THEN [c[y] EXCEPT !.byte = d[y - r[1] + 1]] ELSE c[y])
                 = IF y = x THEN [c[x] EXCEPT !.byte = b] ELSE c[y]
    BY <1>3, <1>6, <2>1
  <2> QED
    BY <1>8, <2>2
<1>10. [c EXCEPT ![x].byte = b] = [y \in DOMAIN c |-> IF y = x THEN [c[x] EXCEPT !.byte = b] ELSE c[y]]
  OBVIOUS
<1>11. Shown(Recall(m, op), Done(c, op))
  BY <1>4, <1>7, ShownNext
<1> QED
  BY <1>4, <1>5, <1>9, <1>10, <1>11 DEF op, r, d

LEMMA WithIs ==
  ASSUME NEW c, NEW r \in Spans, NEW p, NEW d
  PROVE  /\ DOMAIN With(c, r, p, d) = Span(r) \cup DOMAIN c
         /\ \A x \in Span(r) : With(c, r, p, d)[x] = [prot |-> p, byte |-> d[x - r[1] + 1]]
         /\ \A x \in DOMAIN c \ Span(r) : With(c, r, p, d)[x] = c[x]
<1> DEFINE b == [x \in Span(r) |-> [prot |-> p, byte |-> d[x - r[1] + 1]]]
<1>1. DOMAIN b = Span(r) /\ \A x \in Span(r) : b[x] = [prot |-> p, byte |-> d[x - r[1] + 1]]
  OBVIOUS
<1>2. With(c, r, p, d) = Onto(b, c)
  BY DEF With
<1> HIDE DEF b
<1> QED
  BY <1>1, <1>2 DEF Onto

LEMMA StoringIs ==
  ASSUME NEW c, NEW r, NEW d
  PROVE  /\ DOMAIN Storing(c, r, d).cells = DOMAIN c /\ IsFun(Storing(c, r, d).cells)
         /\ \A x \in DOMAIN c :
              Storing(c, r, d).cells[x] = IF x \in Span(r) THEN [c[x] EXCEPT !.byte = d[x - r[1] + 1]] ELSE c[x]
BY DEF Storing, IsFun

\* A page that is mapped, with what it had written over it.
PageSpan(p) == <<p.addr, End(p)>>
DataSpan(p, d) == <<p.addr, p.addr + Len(d)>>
Blank(c, p) == With(c, PageSpan(p), p.prot, [i \in 1..(PageSpan(p)[2] - PageSpan(p)[1]) |-> 0])
Refilled(c, p, d) == Storing(Blank(c, p), DataSpan(p, d), d).cells

\* d is what the page has, up to the zeros at its end.
Fits(p, d) ==
  /\ d \in Seq(Byte) /\ Len(d) <= p.size
  /\ \A i \in 1..p.size : p.data[i] = IF i <= Len(d) THEN d[i] ELSE 0
IsBack(p, c, d) ==
  /\ PageSpan(p) \in Spans /\ PageSpan(p)[1] < PageSpan(p)[2]
  /\ DataSpan(p, d) \in Spans /\ Size(DataSpan(p, d)) = Len(d)
  /\ Span(DataSpan(p, d)) \subseteq DOMAIN Blank(c, p)
  /\ \A x \in Nat : x \in Span(PageSpan(p)) <=> Holds(p, x)
  /\ DOMAIN Refilled(c, p, d) = Span(PageSpan(p)) \cup DOMAIN c /\ IsFun(Refilled(c, p, d))
  /\ \A x \in Span(PageSpan(p)) : x \in Nat /\ Refilled(c, p, d)[x] = CellOf(p, x)
  /\ \A x \in DOMAIN c \ Span(PageSpan(p)) : Refilled(c, p, d)[x] = c[x]

LEMMA PageIsBack ==
  ASSUME NEW p \in Page, NEW c, NEW d, Fits(p, d)
  PROVE  IsBack(p, c, d)
<1> DEFINE r == PageSpan(p)
           w == DataSpan(p, d)
           z == [i \in 1..(r[2] - r[1]) |-> 0]
           b == Blank(c, p)
           s == Refilled(c, p, d)
<1>1. /\ p.addr \in Nat /\ End(p) \in Nat /\ p.addr < End(p) /\ End(p) = p.addr + p.size /\ p.size \in Nat
      /\ Len(d) \in Nat /\ Len(d) <= p.size
      /\ \A i \in 1..p.size : p.data[i] = IF i <= Len(d) THEN d[i] ELSE 0
  BY PageHas DEF Fits
<1>2. /\ r \in Spans /\ r[1] < r[2] /\ w \in Spans /\ Size(w) = Len(d) /\ r[1] = p.addr /\ r[2] = End(p)
      /\ w[1] = p.addr /\ w[2] = p.addr + Len(d)
  BY <1>1 DEF Spans, Size, PageSpan, DataSpan
<1>a. b = With(c, r, p.prot, z) /\ s = Storing(b, w, d).cells
  BY DEF Blank, Refilled
<1> HIDE DEF r, w, b, s
<1>3. /\ \A x \in Nat : (x \in Span(r) <=> p.addr <= x /\ x < End(p)) /\ (x \in Span(w) <=> p.addr <= x /\ x < p.addr + Len(d))
      /\ \A x \in Span(r) : x \in Nat
      /\ \A x \in Span(w) : x \in Nat
  BY <1>2, SpanIs
<1>5. \A x \in Span(r) : z[x - r[1] + 1] = 0
  BY <1>1, <1>2, <1>3
<1> HIDE DEF z
<1>4. /\ DOMAIN b = Span(r) \cup DOMAIN c
      /\ \A x \in Span(r) : b[x] = [prot |-> p.prot, byte |-> z[x - r[1] + 1]]
      /\ \A x \in DOMAIN c \ Span(r) : b[x] = c[x]
  BY <1>2, <1>a DEF With, Onto
<1>6. /\ DOMAIN s = DOMAIN b /\ IsFun(s)
      /\ \A x \in DOMAIN b : s[x] = IF x \in Span(w) THEN [b[x] EXCEPT !.byte = d[x - w[1] + 1]] ELSE b[x]
  BY <1>a, StoringIs
<1>7. Span(w) \subseteq Span(r)
  BY <1>1, <1>3
<1>8. ASSUME NEW x \in Span(r)
      PROVE  x \in Nat /\ s[x] = CellOf(p, x)
  <2> DEFINE i == x - p.addr + 1
  <2>1. x \in Nat /\ p.addr <= x /\ x < End(p)
    BY <1>3
  <2>2. i \in 1..p.size /\ (x \in Span(w) <=> i <= Len(d))
    BY <1>1, <1>3, <2>1
  <2>3. x - w[1] + 1 = i
    BY <1>2
  <2> HIDE DEF i
  <2>4. b[x] = [prot |-> p.prot, byte |-> 0]
    BY <1>4, <1>5
  <2>5. s[x] = IF x \in Span(w) THEN [b[x] EXCEPT !.byte = d[i]] ELSE b[x]
    BY <1>4, <1>6, <2>3
  <2>6. s[x] = [prot |-> p.prot, byte |-> p.data[i]]
    BY <1>1, <2>2, <2>4, <2>5
  <2> QED
    BY <2>1, <2>6 DEF CellOf, i
<1>9. \A x \in DOMAIN c \ Span(r) : s[x] = c[x]
  BY <1>4, <1>6, <1>7
<1> QED
  BY <1>1, <1>2, <1>3, <1>4, <1>6, <1>7, <1>8, <1>9 DEF r, w, b, s, Holds, IsBack

\* What a rewind records of a page shows the page as it was.
RestoredPage(p) ==
  LET r == <<p.addr, End(p)>> IN <<MemUnmapOp(r), MemMapOp(r, p.prot), MemWriteOp(r, p.data)>>

LEMMA PageRestored ==
  ASSUME NEW m, NEW c, Shown(m, c), NEW p \in Page,
         \A x \in Nat : Holds(p, x) => x \in DOMAIN c /\ c[x] = CellOf(p, x)
  PROVE  RestoredPage(p) \in Seq(Calm) /\ Shown(RecallAll(m, RestoredPage(p)), c)
<1> DEFINE r == PageSpan(p)
           w == DataSpan(p, p.data)
           z == [i \in 1..(r[2] - r[1]) |-> 0]
           b == Blank(c, p)
           s == Refilled(c, p, p.data)
           u == MemUnmapOp(r)
           n == MemMapOp(r, p.prot)
           o == MemWriteOp(w, p.data)
<1>1. /\ p.data \in Seq(Byte) /\ Len(p.data) = p.size /\ p.size \in Nat /\ p.prot \in Prots /\ p.addr \in Nat
      /\ End(p) = p.addr + p.size
  BY PageHas
<1>2. w = r /\ r = <<p.addr, End(p)>>
  BY <1>1 DEF PageSpan, DataSpan
<1>3. /\ r \in Spans /\ r[1] < r[2] /\ w \in Spans /\ Size(w) = Len(p.data) /\ Span(w) \subseteq DOMAIN b
      /\ \A x \in Nat : x \in Span(r) <=> Holds(p, x)
      /\ DOMAIN s = Span(r) \cup DOMAIN c /\ IsFun(s)
      /\ \A x \in Span(r) : x \in Nat /\ s[x] = CellOf(p, x)
      /\ \A x \in DOMAIN c \ Span(r) : s[x] = c[x]
  <2>1. Fits(p, p.data)
    BY <1>1 DEF Fits
  <2>2. IsBack(p, c, p.data)
    BY <2>1, PageIsBack
  <2> QED
    BY <2>2 DEF IsBack
<1>4. RestoredPage(p) = <<u, n, o>>
  BY <1>2 DEF RestoredPage
<1>5. u \in Calm /\ n \in Calm /\ o \in Calm
  BY <1>1, <1>3, RangeOperations, WritesAreCalm
<1>6. /\ u.op = "unmap" /\ u.range = r /\ n.op = "map" /\ n.range = r /\ n.prot = p.prot
      /\ o.op = "write" /\ o.range = w /\ o.data = p.data
  BY DEF MemUnmapOp, MemMapOp, MemWriteOp
<1> HIDE DEF u, n, o, r, w, b, s
<1>7. /\ Done(c, u) = Unmapping(c, r).cells /\ Done(Done(c, u), n) = b /\ Done(b, o) = s
  <2>1. Done(c, u) = Unmapping(c, r).cells
    BY <1>6 DEF Done
  <2>2. Done(Done(c, u), n) = With(Unmapping(c, r).cells, r, p.prot, z)
    BY <1>6, <2>1 DEF Done
  <2>3. Done(Done(c, u), n) = b
    BY <1>3, <2>2, MapAgain DEF b, Blank, r
  <2>4. Done(b, o) = s
    BY <1>6 DEF Done, s, Refilled, b, w
  <2> QED
    BY <2>1, <2>3, <2>4
<1>8. Tame(c, u) /\ Tame(Done(c, u), n) /\ Tame(b, o)
  <2>1. Span(r) \subseteq DOMAIN c
    BY <1>3
  <2>2. Span(r) \cap DOMAIN Unmapping(c, r).cells = {}
    BY DEF Unmapping
  <2> QED
    BY <1>3, <1>6, <1>7, <2>1, <2>2 DEF Tame, Tidy
<1>9. Shown(Recall(Recall(Recall(m, u), n), o), s)
  <2>1. Shown(Recall(m, u), Done(c, u))
    BY <1>5, <1>8, ShownNext
  <2>2. Shown(Recall(Recall(m, u), n), b)
    BY <1>5, <1>7, <1>8, <2>1, ShownNext
  <2> QED
    BY <1>5, <1>7, <1>8, <2>2, ShownNext
<1>10. s = c
  <2>1. IsFun(c)
    BY CellsAre DEF Shown
  <2>2. DOMAIN s = DOMAIN c
    BY <1>3
  <2>3. \A x \in DOMAIN c : s[x] = c[x]
    BY <1>3
  <2> QED
    BY <1>3, <2>1, <2>2, <2>3 DEF IsFun
<1> QED
  BY <1>4, <1>5, <1>9, <1>10, RecallThree

\* All the pages of the replay that a rewind goes to are restored, and only they are shown.
LEMMA RestoredShown ==
  ASSUME NEW to \in ReplayType, NEW m, Shown(m, Cells(to.pages)), Apart(to.pages)
  PROVE  Restored(to) \in Seq(Calm) /\ Shown(RecallAll(m, Restored(to)), Cells(to.pages))
<1> DEFINE pages == to.pages
           c == Cells(pages)
           ss == [k \in DOMAIN pages |-> RestoredPage(pages[k])]
<1>1. pages \in Seq(Page)
  BY DEF ReplayType
<1>2. Restored(to) = FlattenSeq(ss)
  BY DEF Restored, RestoredPage
<1>3. Shown(m, c) /\ m \in ViewType /\ Apart(pages)
  BY DEF Shown
<1> HIDE DEF pages
<1>4. /\ \A i \in DOMAIN pages : pages[i] \in Page
      /\ \A i \in DOMAIN pages, x \in Nat :
           Holds(pages[i], x) => x \in DOMAIN c /\ c[x] = CellOf(pages[i], x)
  BY <1>1, <1>3, PagesReveal
<1> HIDE DEF c
<1>5. \A i \in DOMAIN pages : \A a : Shown(a, c) => RestoredPage(pages[i]) \in Seq(Calm) /\ Shown(RecallAll(a, RestoredPage(pages[i])), c)
  <2> SUFFICES ASSUME NEW i \in DOMAIN pages, NEW a, Shown(a, c)
               PROVE  RestoredPage(pages[i]) \in Seq(Calm) /\ Shown(RecallAll(a, RestoredPage(pages[i])), c)
    OBVIOUS
  <2>1. pages[i] \in Page /\ \A x \in Nat : Holds(pages[i], x) => x \in DOMAIN c /\ c[x] = CellOf(pages[i], x)
    BY <1>4
  <2> QED
    BY <2>1, PageRestored
<1> DEFINE n == Len(pages)
<1>6. n \in Nat /\ DOMAIN pages = 1..n
  BY <1>1
<1>7. ss \in Seq(Seq(Calm)) /\ Len(ss) = n /\ \A i \in 1..n : ss[i] = RestoredPage(pages[i])
  <2>1. ss \in [1..n -> Seq(Calm)]
    BY <1>3, <1>5, <1>6
  <2>2. \A i \in 1..n : ss[i] = RestoredPage(pages[i])
    BY <1>6
  <2> HIDE DEF ss, n
  <2> QED
    BY <1>6, <2>1, <2>2
<1> HIDE DEF ss, n
<1>8. FlattenSeq(ss) \in Seq(Calm) /\ \E g : Steps(g, m, ss) /\ RecallAll(m, FlattenSeq(ss)) = g[Len(ss)]
  BY <1>3, <1>7, RecallFlat
<1>9. PICK g : Steps(g, m, ss) /\ RecallAll(m, FlattenSeq(ss)) = g[n]
  BY <1>7, <1>8
<1>10. \A k \in 0..n : Shown(g[k], c)
  <2> DEFINE Bad == {k \in 0..n : ~Shown(g[k], c)}
  <2> SUFFICES ASSUME Bad # {}
               PROVE  FALSE
    OBVIOUS
  <2>1. PICK k \in Bad : \A j \in Bad : k <= j
    <3>1. Bad \subseteq Nat
      OBVIOUS
    <3> HIDE DEF Bad
    <3> QED
      BY <3>1, LeastIs
  <2>2. k # 0
    BY <1>3, <1>9 DEF Steps
  <2>3. k - 1 \in 0..n /\ k - 1 \in 0..(n - 1) /\ k - 1 \notin Bad /\ (k - 1) + 1 = k /\ k \in 1..n
    BY <1>6, <2>1, <2>2
  <2>4. g[k] = RecallAll(g[k - 1], ss[k])
    BY <1>7, <1>9, <2>3 DEF Steps
  <2>5. Shown(g[k - 1], c)
    BY <2>3
  <2>6. Shown(g[k], c)
    <3> HIDE DEF Bad
    <3>1. k \in DOMAIN pages /\ ss[k] = RestoredPage(pages[k])
      BY <1>6, <1>7, <2>3
    <3>2. Shown(RecallAll(g[k - 1], RestoredPage(pages[k])), c)
      BY <1>5, <2>5, <3>1
    <3> QED
      BY <2>4, <3>1, <3>2
  <2> QED
    BY <2>1, <2>6
<1>11. n \in 0..n
  BY <1>6
<1> QED
  BY <1>2, <1>8, <1>9, <1>10, <1>11 DEF c, pages

-----------------------------------------------------------------------------
(* The keyframe.                                                           *)

\* Operations that leave the registers.
Mute(ops) == \A a \in ViewType : RecallAll(a, ops).regs = a.regs

LEMMA QuietIsMute ==
  ASSUME NEW ops \in Seq(Calm), NoReg(ops)
  PROVE  Mute(ops)
BY RegsStay DEF Mute

LEMMA MuteFlat ==
  ASSUME NEW ss \in Seq(Seq(Calm)), \A i \in DOMAIN ss : Mute(ss[i])
  PROVE  Mute(FlattenSeq(ss))
<1> SUFFICES ASSUME NEW a \in ViewType
             PROVE  RecallAll(a, FlattenSeq(ss)).regs = a.regs
  BY DEF Mute
<1> DEFINE n == Len(ss)
<1>1. PICK g : Steps(g, a, ss) /\ RecallAll(a, FlattenSeq(ss)) = g[n]
  BY RecallFlat
<1>2. n \in Nat /\ DOMAIN ss = 1..n
  OBVIOUS
<1>3. /\ g[0] = a /\ \A k \in 0..n : g[k] \in ViewType
      /\ \A k \in 0..(n - 1) : g[k + 1] = RecallAll(g[k], ss[k + 1])
  BY <1>1 DEF Steps
<1> HIDE DEF n
<1>4. \A k \in 0..n : g[k].regs = a.regs
  <2> DEFINE Bad == {k \in 0..n : g[k].regs # a.regs}
  <2> SUFFICES ASSUME Bad # {}
               PROVE  FALSE
    OBVIOUS
  <2>1. PICK k \in Bad : \A j \in Bad : k <= j
    <3>1. Bad \subseteq Nat
      OBVIOUS
    <3> HIDE DEF Bad
    <3> QED
      BY <3>1, LeastIs
  <2>2. k # 0
    BY <1>3
  <2>3. k - 1 \in 0..n /\ k - 1 \in 0..(n - 1) /\ k - 1 \notin Bad /\ (k - 1) + 1 = k /\ k \in 1..n
    BY <1>2, <2>1, <2>2
  <2>4. g[k] = RecallAll(g[k - 1], ss[k]) /\ g[k - 1] \in ViewType /\ Mute(ss[k])
    BY <1>2, <1>3, <2>3
  <2>5. g[k].regs = g[k - 1].regs
    BY <2>4 DEF Mute
  <2> QED
    BY <2>1, <2>3, <2>5
<1> QED
  BY <1>1, <1>2, <1>4

LEMMA MuteTwice ==
  ASSUME NEW s \in Seq(Calm), NEW t \in Seq(Calm), Mute(s), Mute(t)
  PROVE  Mute(s \o t)
BY RecallMore, RecallAllHas DEF Mute

\* What is left of a page that starts with what it has.
LEMMA TrimmedFits ==
  ASSUME NEW p \in Page, ~Shifted(p)
  PROVE  Fits(p, Trim(p.data))
<1> DEFINE s == p.data
           d == Trim(s)
           full == {i \in DOMAIN s : s[i] # 0}
<1>1. s \in Seq(Byte) /\ Len(s) = p.size /\ p.size \in Nat /\ DOMAIN s = 1..p.size
  BY PageHas
<1>2. d \in Seq(Byte)
  BY <1>1, TrimIsSeq
<1>3. \A i \in DOMAIN d : d[i] = s[i]
  BY DEF Shifted
<1>4. CASE full = {}
  <2>1. d = <<>>
    BY <1>4 DEF Trim
  <2>2. Len(d) = 0
    BY <2>1
  <2>3. \A i \in 1..p.size : s[i] = 0
    BY <1>1, <1>4
  <2> QED
    BY <1>1, <1>2, <2>2, <2>3 DEF Fits
<1>5. CASE full # {}
  <2>1. full \subseteq 1..p.size /\ full \subseteq Nat /\ \A n \in full : n <= p.size
    BY <1>1
  <2>2. \A i \in 1..p.size : i \in full <=> s[i] # 0
    BY <1>1
  <2>3. d = SubSeq(s, Min(full), Max(full))
    BY <1>5 DEF Trim
  <2> HIDE DEF full, s, d
  <2>4. (\E m \in full : \A n \in full : m <= n) /\ (\E m \in full : \A n \in full : n <= m)
    BY <1>1, <1>5, <2>1, LeastIs, GreatestIs
  <2>5. /\ Min(full) \in full /\ Max(full) \in full
        /\ \A n \in full : Min(full) <= n /\ n <= Max(full)
    BY <2>4 DEF Min, Max
  <2> DEFINE a == Min(full)
             z == Max(full)
  <2>6. a \in 1..p.size /\ z \in 1..p.size /\ a <= z /\ s[a] # 0
    BY <2>1, <2>2, <2>5
  <2>a. d = SubSeq(s, a, z) /\ \A n \in full : n <= z
    BY <2>3, <2>5
  <2>b. \A n \in full : a <= n
    BY <2>5
  <2> HIDE DEF a, z
  <2>7. DOMAIN d = 1..(z - a + 1) /\ Len(d) = z - a + 1 /\ d[1] = s[a]
    BY <1>1, <2>6, <2>a
  <2>8. a = 1
    <3> SUFFICES ASSUME a # 1
                 PROVE  FALSE
      OBVIOUS
    <3>1. 1 \in 1..p.size /\ 1 \in DOMAIN d /\ ~(a <= 1)
      BY <1>1, <2>6, <2>7
    <3>2. 1 \in full
      BY <1>3, <2>2, <2>6, <2>7, <3>1
    <3> QED
      BY <2>b, <3>1, <3>2
  <2>9. Len(d) = z /\ DOMAIN d = 1..z
    BY <2>6, <2>7, <2>8
  <2>10. \A i \in 1..p.size : s[i] = IF i <= Len(d) THEN d[i] ELSE 0
    <3> SUFFICES ASSUME NEW i \in 1..p.size
                 PROVE  s[i] = IF i <= z THEN d[i] ELSE 0
      BY <2>9
    <3>1. CASE i <= z
      BY <1>3, <2>6, <2>9, <3>1
    <3>2. CASE ~(i <= z)
      BY <2>2, <2>a, <3>2
    <3> QED
      BY <3>1, <3>2
  <2> QED
    BY <1>1, <1>2, <2>6, <2>9, <2>10 DEF s, d, Fits
<1> QED
  BY <1>4, <1>5

\* What the keyframe has of a page.
LoadedPage(p) ==
  LET d == Trim(p.data) IN <<MemMapOp(PageSpan(p), p.prot), MemWriteOp(DataSpan(p, d), d)>>

LEMMA LoadedPageIs ==
  ASSUME NEW p \in Page
  PROVE  LoadedPage(p) \in Seq(Calm) /\ Mute(LoadedPage(p))
<1> DEFINE d == Trim(p.data)
           r == PageSpan(p)
           w == DataSpan(p, d)
           u == MemMapOp(r, p.prot)
           o == MemWriteOp(w, d)
<1>1. /\ p.addr \in Nat /\ End(p) \in Nat /\ p.addr < End(p) /\ p.prot \in Prots /\ d \in Seq(Byte)
  BY PageHas, TrimIsSeq
<1>2. Len(d) \in Nat
  BY <1>1
<1> HIDE DEF d
<1>3. r \in Spans /\ r[1] < r[2] /\ w \in Spans /\ Size(w) = Len(d)
  BY <1>1, <1>2 DEF Spans, Size, PageSpan, DataSpan
<1>4. LoadedPage(p) = <<u, o>> /\ u.op # "reg" /\ o.op # "reg"
  BY DEF LoadedPage, MemMapOp, MemWriteOp, d
<1> HIDE DEF r, w
<1>5. u \in Calm /\ o \in Calm
  BY <1>1, <1>3, RangeOperations, WritesAreCalm
<1> HIDE DEF u, o
<1>6. <<u, o>> \in Seq(Calm)
  BY <1>5
<1>7. NoReg(<<u, o>>)
  BY <1>4 DEF NoReg
<1> QED
  BY <1>4, <1>6, <1>7, QuietIsMute

LEMMA PageLoaded ==
  ASSUME NEW m, NEW c, Shown(m, c), NEW p \in Page, ~Shifted(p),
         \A x \in Nat : Holds(p, x) => x \notin DOMAIN c
  PROVE  LET s == Refilled(c, p, Trim(p.data))
         IN  /\ Shown(RecallAll(m, LoadedPage(p)), s)
             /\ \A x \in Nat : x \in DOMAIN s <=> Holds(p, x) \/ x \in DOMAIN c
             /\ \A x \in DOMAIN s : x \in Nat \/ x \in DOMAIN c
             /\ \A x \in Nat : Holds(p, x) => s[x] = CellOf(p, x)
             /\ \A x \in DOMAIN c : ~(x \in Nat /\ Holds(p, x)) => s[x] = c[x]
<1> DEFINE d == Trim(p.data)
           r == PageSpan(p)
           w == DataSpan(p, d)
           b == Blank(c, p)
           s == Refilled(c, p, d)
           u == MemMapOp(r, p.prot)
           o == MemWriteOp(w, d)
<1>1. Fits(p, d)
  BY TrimmedFits
<1>a. d \in Seq(Byte)
  BY <1>1 DEF Fits
<1>2. LoadedPage(p) = <<u, o>> /\ p.prot \in Prots
  BY PageHas DEF LoadedPage
<1> HIDE DEF d
<1>3. /\ r \in Spans /\ r[1] < r[2] /\ w \in Spans /\ Size(w) = Len(d)
      /\ Span(w) \subseteq DOMAIN b
      /\ \A x \in Nat : x \in Span(r) <=> Holds(p, x)
      /\ DOMAIN s = Span(r) \cup DOMAIN c /\ IsFun(s)
      /\ \A x \in Span(r) : x \in Nat /\ s[x] = CellOf(p, x)
      /\ \A x \in DOMAIN c \ Span(r) : s[x] = c[x]
  <2>1. IsBack(p, c, d)
    BY <1>1, PageIsBack
  <2> QED
    BY <2>1 DEF IsBack
<1>4. b = With(c, r, p.prot, [i \in 1..(r[2] - r[1]) |-> 0]) /\ s = Storing(b, w, d).cells
  BY DEF Blank, Refilled
<1>5. u.op = "map" /\ u.range = r /\ u.prot = p.prot /\ o.op = "write" /\ o.range = w /\ o.data = d
  BY DEF MemMapOp, MemWriteOp
<1> HIDE DEF r, w, b, s
<1>6. u \in Calm /\ o \in Calm
  BY <1>a, <1>2, <1>3, RangeOperations, WritesAreCalm
<1> HIDE DEF u, o
<1>7. Done(c, u) = b /\ Done(b, o) = s
  BY <1>4, <1>5 DEF Done
<1>8. Tame(c, u) /\ Tame(b, o)
  <2>1. Span(r) \cap DOMAIN c = {}
    BY <1>3
  <2> QED
    BY <1>3, <1>5, <2>1 DEF Tame, Tidy
<1>9. Shown(Recall(Recall(m, u), o), s)
  <2>1. Shown(Recall(m, u), b)
    BY <1>6, <1>7, <1>8, ShownNext
  <2> QED
    BY <1>6, <1>7, <1>8, <2>1, ShownNext
<1>10. RecallAll(m, <<u, o>>) = Recall(Recall(m, u), o)
  BY <1>6, RecallTwo
<1>11. /\ \A x \in Nat : x \in DOMAIN s <=> Holds(p, x) \/ x \in DOMAIN c
       /\ \A x \in DOMAIN s : x \in Nat \/ x \in DOMAIN c
       /\ \A x \in Nat : Holds(p, x) => s[x] = CellOf(p, x)
       /\ \A x \in DOMAIN c : ~(x \in Nat /\ Holds(p, x)) => s[x] = c[x]
  BY <1>3
<1>12. Shown(RecallAll(m, LoadedPage(p)), s)
  BY <1>2, <1>9, <1>10
<1> QED
  BY <1>11, <1>12 DEF s, d

\* c is what the first k pages have.
Loads(c, pages, k) ==
  /\ \A x \in DOMAIN c : x \in Nat
  /\ \A x \in Nat : x \in DOMAIN c <=> \E i \in 1..k : Holds(pages[i], x)
  /\ \A i \in 1..k : \A x \in Nat : Holds(pages[i], x) => c[x] = CellOf(pages[i], x)

LEMMA LoadsAll ==
  ASSUME NEW pages \in Seq(Page), Apart(pages), NEW c, IsFun(c), Loads(c, pages, Len(pages))
  PROVE  c = Cells(pages)
<1> DEFINE e == Cells(pages)
<1>1. /\ \A i \in DOMAIN pages, x \in Nat : Holds(pages[i], x) => x \in DOMAIN e /\ e[x] = CellOf(pages[i], x)
      /\ \A x \in DOMAIN e : x \in Nat /\ \E i \in DOMAIN pages : Holds(pages[i], x)
      /\ IsFun(e)
  BY PagesReveal, CellsAre
<1>2. DOMAIN pages = 1..Len(pages)
  OBVIOUS
<1> HIDE DEF e
<1>3. DOMAIN c = DOMAIN e
  BY <1>1, <1>2 DEF Loads
<1>4. \A x \in DOMAIN c : c[x] = e[x]
  BY <1>1, <1>2 DEF Loads
<1> QED
  BY <1>1, <1>3, <1>4 DEF IsFun, e

LEMMA LoadsNext ==
  ASSUME NEW pages \in Seq(Page), Apart(pages), NEW k \in 0..(Len(pages) - 1), ~Shifted(pages[k + 1]),
         NEW m, NEW c, Shown(m, c), Loads(c, pages, k)
  PROVE  \E s : Shown(RecallAll(m, LoadedPage(pages[k + 1])), s) /\ Loads(s, pages, k + 1)
<1> DEFINE p == pages[k + 1]
           s == Refilled(c, p, Trim(p.data))
<1>1. k + 1 \in 1..Len(pages) /\ k \in Nat /\ DOMAIN pages = 1..Len(pages) /\ p \in Page
  OBVIOUS
<1>2. \A x \in Nat : Holds(p, x) => x \notin DOMAIN c
  <2> SUFFICES ASSUME NEW x \in Nat, Holds(p, x), x \in DOMAIN c
               PROVE  FALSE
    OBVIOUS
  <2>1. PICK i \in 1..k : Holds(pages[i], x)
    BY DEF Loads
  <2>2. i \in DOMAIN pages /\ i < k + 1
    BY <1>1
  <2>3. End(pages[i]) <= p.addr
    BY <1>1, <2>2 DEF Apart, Below
  <2>4. pages[i] \in Page
    BY <2>2
  <2>5. End(pages[i]) \in Nat /\ p.addr \in Nat
    BY <1>1, <2>4, PageHas
  <2> HIDE DEF p
  <2> QED
    BY <2>1, <2>3, <2>5 DEF Holds
<1>a. \A i \in 1..(k + 1) : i \in 1..k \/ i = k + 1
  BY <1>1
<1>b. \A i \in 1..k : i \in 1..(k + 1)
  BY <1>1
<1>c. k + 1 \in 1..(k + 1)
  BY <1>1
<1>d. p = pages[k + 1] /\ ~Shifted(p)
  OBVIOUS
<1> HIDE DEF p
<1>3. /\ Shown(RecallAll(m, LoadedPage(p)), s)
      /\ \A x \in Nat : x \in DOMAIN s <=> Holds(p, x) \/ x \in DOMAIN c
      /\ \A x \in DOMAIN s : x \in Nat \/ x \in DOMAIN c
      /\ \A x \in Nat : Holds(p, x) => s[x] = CellOf(p, x)
      /\ \A x \in DOMAIN c : ~(x \in Nat /\ Holds(p, x)) => s[x] = c[x]
  BY <1>1, <1>2, <1>d, PageLoaded
<1> HIDE DEF s
<1>4. Loads(s, pages, k + 1)
  <2>1. \A x \in DOMAIN s : x \in Nat
    BY <1>3 DEF Loads
  <2>2. ASSUME NEW x \in Nat
        PROVE  x \in DOMAIN s <=> \E i \in 1..(k + 1) : Holds(pages[i], x)
    BY <1>3, <1>a, <1>b, <1>c, <1>d DEF Loads
  <2>3. ASSUME NEW i \in 1..(k + 1), NEW x \in Nat, Holds(pages[i], x)
        PROVE  s[x] = CellOf(pages[i], x)
    <3>1. CASE i = k + 1
      BY <1>3, <1>d, <2>3, <3>1
    <3>2. CASE i \in 1..k
      <4>1. x \in DOMAIN c /\ c[x] = CellOf(pages[i], x)
        BY <2>3, <3>2 DEF Loads
      <4> QED
        BY <1>2, <1>3, <4>1
    <3> QED
      BY <1>a, <3>1, <3>2
  <2> QED
    BY <2>1, <2>2, <2>3 DEF Loads
<1> QED
  BY <1>3, <1>4, <1>d

\* The keyframe has the registers, and, unless a page is moved, the memory.
LEMMA KeyframeShown ==
  ASSUME NEW regs \in [Regs -> Values], NEW pages \in Seq(Page), Apart(pages)
  PROVE  LET v == View(Feed(NewReplay, KeyframeOf(regs, pages)))
         IN  /\ v.regs = regs /\ Feed(NewReplay, KeyframeOf(regs, pages)).effects = <<>>
             /\ (\A i \in DOMAIN pages : ~Shifted(pages[i])) => Apart(v.pages) /\ Cells(v.pages) = Cells(pages)
<1> DEFINE zeros == [n \in Regs |-> 0]
           first == Updates(regs, zeros)
           ss == [i \in DOMAIN pages |-> LoadedPage(pages[i])]
           n == Len(pages)
           m == View(NewReplay)
           m0 == Renewed(m, regs, zeros)
           r == Feed(NewReplay, KeyframeOf(regs, pages))
<1>1. /\ m \in ViewType /\ m.pages = <<>> /\ m.regs = zeros /\ zeros \in [Regs -> Values] /\ Idle(NewReplay)
      /\ NewReplay.effects = <<>>
  BY NewReplayIs, ViewIs, TraceAssumption DEF Idle, View, NewReplay
<1>2. KeyframeOf(regs, pages) = Keyframe(first \o FlattenSeq(ss))
  BY DEF KeyframeOf, LoadedPage, PageSpan, DataSpan
<1>3. /\ n \in Nat /\ DOMAIN pages = 1..n /\ \A i \in 1..n : pages[i] \in Page
      /\ DOMAIN ss = 1..n /\ \A i \in 1..n : ss[i] = LoadedPage(pages[i])
  OBVIOUS
<1> HIDE DEF zeros, first, m, n
<1>4. first \in Seq(Calm) /\ RecallAll(m, first) = m0
  BY <1>1, UpdatesAreCalm, UpdatesRenew DEF first
<1>5. m0.pages = <<>> /\ m0.regs = regs /\ m0 \in ViewType
  <2>1. m0.pages = <<>>
    BY <1>1 DEF Renewed
  <2>2. m0.regs = [x \in Regs |-> IF zeros[x] # regs[x] THEN regs[x] ELSE zeros[x]]
    BY <1>1 DEF Renewed
  <2>3. m0.regs = regs
    BY <2>2
  <2>4. m0 \in ViewType
    BY <1>1, <1>4, RecallAllHas
  <2> QED
    BY <2>1, <2>3, <2>4
<1> HIDE DEF m0
<1>6. ss \in Seq(Seq(Calm)) /\ Len(ss) = n /\ \A i \in DOMAIN ss : Mute(ss[i])
  <2>1. \A i \in 1..n : ss[i] \in Seq(Calm) /\ Mute(ss[i])
    BY <1>3, LoadedPageIs
  <2>2. ss = [i \in 1..n |-> ss[i]]
    BY <1>3
  <2> HIDE DEF ss
  <2>3. ss \in [1..n -> Seq(Calm)]
    BY <2>1, <2>2
  <2>4. ss \in Seq(Seq(Calm))
    BY <1>3, <2>3
  <2> QED
    BY <1>3, <2>1, <2>4
<1> HIDE DEF ss
<1>7. FlattenSeq(ss) \in Seq(Calm) /\ Mute(FlattenSeq(ss))
  BY <1>6, MuteFlat, FlattenIsSeq
<1>8. first \o FlattenSeq(ss) \in Seq(Calm)
  BY <1>4, <1>7
<1>9. View(r) = RecallAll(m, first \o FlattenSeq(ss)) /\ r.effects = <<>>
  BY <1>1, <1>2, <1>8, CallViews DEF m
<1>10. View(r) = RecallAll(m0, FlattenSeq(ss))
  BY <1>4, <1>7, <1>9, RecallMore
<1>11. View(r).regs = regs
  BY <1>5, <1>7, <1>10 DEF Mute
<1>12. ASSUME \A i \in DOMAIN pages : ~Shifted(pages[i])
       PROVE  Apart(View(r).pages) /\ Cells(View(r).pages) = Cells(pages)
  <2>1. PICK g : Steps(g, m0, ss) /\ RecallAll(m0, FlattenSeq(ss)) = g[n]
    BY <1>5, <1>6, RecallFlat
  <2>2. /\ g[0] = m0 /\ \A k \in 0..n : g[k] \in ViewType
        /\ \A k \in 0..(n - 1) : g[k + 1] = RecallAll(g[k], ss[k + 1])
    BY <1>6, <2>1 DEF Steps
  <2> DEFINE Good(k) == \E c : Shown(g[k], c) /\ Loads(c, pages, k)
  <2>3. Good(0)
    <3>1. 1..0 = {} /\ DOMAIN <<>> = {} /\ <<>> \in Seq(Page)
      OBVIOUS
    <3>2. DOMAIN Cells(<<>>) = {}
      BY <3>1 DEF Cells
    <3>3. Loads(Cells(<<>>), pages, 0)
      BY <3>1, <3>2 DEF Loads
    <3>4. Shown(m0, Cells(<<>>))
      BY <1>5, <3>1 DEF Shown, Apart
    <3> QED
      BY <2>2, <3>3, <3>4
  <2>4. ASSUME NEW k \in 0..(n - 1), Good(k)
        PROVE  Good(k + 1)
    <3>1. PICK c : Shown(g[k], c) /\ Loads(c, pages, k)
      BY <2>4
    <3>2. k \in 0..(Len(pages) - 1) /\ k + 1 \in 1..n /\ ~Shifted(pages[k + 1])
      BY <1>3, <1>12 DEF n
    <3>3. \E s : Shown(RecallAll(g[k], LoadedPage(pages[k + 1])), s) /\ Loads(s, pages, k + 1)
      BY <3>1, <3>2, LoadsNext
    <3>4. g[k + 1] = RecallAll(g[k], LoadedPage(pages[k + 1]))
      BY <1>3, <2>2, <3>2
    <3> QED
      BY <3>3, <3>4
  <2> HIDE DEF Good
  <2>5. Good(n)
    <3> DEFINE Bad == {k \in 0..n : ~Good(k)}
    <3>1. CASE Bad = {}
      BY <1>3, <3>1
    <3>2. CASE Bad # {}
      <4>1. PICK k \in Bad : \A j \in Bad : k <= j
        <5>1. Bad \subseteq Nat
          OBVIOUS
        <5> HIDE DEF Bad
        <5> QED
          BY <3>2, <5>1, LeastIs
      <4>2. k # 0
        BY <2>3
      <4>3. k - 1 \in 0..(n - 1) /\ k - 1 \in 0..n /\ k - 1 \notin Bad /\ (k - 1) + 1 = k
        BY <1>3, <4>1, <4>2
      <4> QED
        BY <2>4, <4>1, <4>3
    <3> QED
      BY <3>1, <3>2
  <2>6. PICK c : Shown(View(r), c) /\ Loads(c, pages, n)
    BY <1>10, <2>1, <2>5 DEF Good
  <2>7. IsFun(c) /\ Apart(View(r).pages) /\ Cells(View(r).pages) = c
    BY <2>6, CellsAre DEF Shown
  <2>8. c = Cells(pages)
    BY <2>6, <2>7, LoadsAll DEF n
  <2> QED
    BY <2>7, <2>8
<1> QED
  BY <1>9, <1>11, <1>12

-----------------------------------------------------------------------------
(* The invariant.                                                          *)

\* What the machine will be shown to have, as the operations that wait are applied.
Matches(r, t, cells) == Orderly(r, t) /\ Cells(Late(Now(r, t), t).pages) = cells

\* Wherever a log is cut, its replay has its pages in order.
Prefixed(l) == \A i \in 0..Len(l) : Apart(FeedAll(NewReplay, SubSeq(l, 1, i)).pages)

\* A system call has a frame to end in, and the recorder knows the registers, the one
\* that system calls return in excepted: it is set behind the hooks.
Handed ==
  /\ Ready(tr) /\ NoRet(tr.sysops)
  /\ at \in {"arrived", "next", "jumped"} => tr.frame # <<>>
  /\ tr.insys => \A n \in Regs \ {Ret} : tr.known[n] = machine.regs[n]
  /\ at \in {"start", "arrived", "stopped"} /\ ~again => tr.known = machine.regs

\* In front of an instruction that was not done just before, nothing waits but what a
\* rewind restored.
Quiet ==
  at \in {"start", "arrived", "stopped"} /\ ~again /\ ~lost =>
    /\ Mute(replay.effects)
    /\ rewinds = 0 => replay.effects = <<>>

Follows ==
  /\ lost \in BOOLEAN /\ (rewinds = 0 => ~lost)
  /\ ~lost => Late(replay, tr).regs = tr.known
  /\ ~skewed /\ rewinds < 2 => Matches(replay, tr, machine.cells)
  /\ ~skewed /\ rewinds = 0 => Prefixed(log)

FollowInv == Handed /\ Quiet /\ Follows

LEMMA Settled ==
  ASSUME NEW r, Idle(r), NEW t, Ready(t), NEW u, u = [t EXCEPT !.sent = <<>>, !.packed = <<>>]
  PROVE  /\ Ready(u) /\ Now(Now(r, t), u) = Now(r, t) /\ Late(Now(r, t), u) = Late(Now(r, t), t)
         /\ \A c : Matches(r, t, c) => Matches(Now(r, t), u, c)
<1> DEFINE s == Now(r, t)
<1>1. t \in TraceType /\ <<>> \in Seq(Fed) /\ <<>> \in Seq({Frame(ops) : ops \in Seq(Fed)})
  BY DEF Ready
<1>2. u \in TraceType /\ u.sent = <<>> /\ u.sysops = t.sysops /\ u.insys = t.insys /\ u.frame = t.frame
  BY <1>1 DEF TraceType
<1>3. Ready(u)
  BY <1>2 DEF Ready
<1>4. Now(s, u) = s
  BY <1>2, FeedNone DEF Now
<1> HIDE DEF s
<1>5. Late(s, u) = Late(s, t)
  BY <1>2 DEF Late
<1>6. ASSUME NEW c, Matches(r, t, c)
      PROVE  Matches(s, u, c)
  <2>1. InParts(r, t) /\ Apart(Held(s).pages) /\ Apart(Late(s, t).pages) /\ Cells(Late(s, t).pages) = c
    BY <1>6 DEF Matches, Orderly, s
  <2>2. Apart(s.pages)
    BY <1>1, <2>1, PartsEnd DEF s
  <2>3. \A i \in 0..Len(u.sent) : SubSeq(u.sent, 1, i) = <<>>
    <3>1. Len(u.sent) = 0 /\ SubSeq(<<>>, 1, 0) = <<>>
      BY <1>2
    <3>2. \A i \in 0..0 : i = 0
      OBVIOUS
    <3> QED
      BY <1>2, <3>1, <3>2
  <2>4. InParts(s, u)
    BY <2>2, <2>3, FeedNone DEF InParts
  <2> QED
    BY <1>4, <1>5, <2>1, <2>4 DEF Matches, Orderly
<1> QED
  BY <1>3, <1>4, <1>5, <1>6 DEF s

LEMMA PrefixedMore ==
  ASSUME NEW l, IsLog(l), Prefixed(l), NEW t \in TraceType, InParts(FeedAll(NewReplay, l), t)
  PROVE  Prefixed(l \o t.sent)
<1> DEFINE S == Fed \cup Keyframes
           s == t.sent
<1>1. l \in Seq(S) /\ s \in Seq(S)
  BY SentIsFed DEF IsLog
<1>2. \A i \in 0..Len(s) : Apart(FeedAll(FeedAll(NewReplay, l), SubSeq(s, 1, i)).pages)
  BY DEF InParts
<1>3. \A i \in 0..Len(s) : SubSeq(s, 1, i) \in Seq(S)
  BY <1>1
<1> HIDE DEF S, s
<1>4. SUFFICES ASSUME NEW i \in 0..Len(l \o s)
               PROVE  Apart(FeedAll(NewReplay, SubSeq(l \o s, 1, i)).pages)
  BY DEF Prefixed, s
<1>5. IF i <= Len(l) THEN i \in 0..Len(l) /\ SubSeq(l \o s, 1, i) = SubSeq(l, 1, i)
      ELSE i - Len(l) \in 0..Len(s) /\ SubSeq(l \o s, 1, i) = l \o SubSeq(s, 1, i - Len(l))
  BY <1>1, BeginningOf
<1>6. CASE i <= Len(l)
  BY <1>5, <1>6 DEF Prefixed
<1>7. CASE ~(i <= Len(l))
  <2> DEFINE k == i - Len(l)
  <2>1. k \in 0..Len(s) /\ SubSeq(l \o s, 1, i) = l \o SubSeq(s, 1, k)
    BY <1>5, <1>7
  <2> HIDE DEF k
  <2>2. FeedAll(NewReplay, l \o SubSeq(s, 1, k)) = FeedAll(FeedAll(NewReplay, l), SubSeq(s, 1, k))
    <3> DEFINE q == SubSeq(s, 1, k)
    <3>1. q \in Seq(S)
      BY <1>3, <2>1
    <3> HIDE DEF q
    <3>2. FeedAll(NewReplay, l \o q) = FeedAll(FeedAll(NewReplay, l), q)
      BY <1>1, <3>1, FeedMore
    <3> QED
      BY <3>2 DEF q
  <2> QED
    BY <1>2, <2>1, <2>2
<1> QED
  BY <1>6, <1>7

\* What holds of the replay and the recorder between two steps.
LEMMA InBetween ==
  ASSUME TraceInv, FollowInv
  PROVE  /\ Idle(replay) /\ replay \in ReplayType /\ Ready(tr) /\ tr \in TraceType /\ tr.sent = <<>>
         /\ Now(replay, tr) = replay /\ NoRet(tr.sysops) /\ (~lost => Late(replay, tr).regs = tr.known)
         /\ machine \in Machine /\ machine.regs \in [Regs -> Values] /\ machine.pc \in Nat \ {0}
         /\ View(replay) \in ViewType /\ Held(replay) \in ViewType /\ Late(replay, tr) \in ViewType
         /\ Late(replay, tr) = LateOn(View(replay), replay, tr)
         /\ ~tr.insys => tr.sysops = <<>> /\ Late(replay, tr) = Held(replay)
         /\ at = "arrived" => ~tr.insys /\ tr.frame # <<>> /\ (~again => tr.known = machine.regs) /\ tr.step
<1>1. /\ Idle(replay) /\ replay \in ReplayType /\ Ready(tr) /\ tr \in TraceType /\ tr.sent = <<>>
      /\ NoRet(tr.sysops) /\ (~lost => Late(replay, tr).regs = tr.known)
      /\ machine \in Machine /\ machine.regs \in [Regs -> Values] /\ machine.pc \in Nat \ {0}
  BY DEF TraceInv, TypesOK, FollowInv, Handed, Follows, Idle, Machine
<1>2. Now(replay, tr) = replay
  BY <1>1, FeedNone DEF Now
<1>3. /\ View(replay) \in ViewType /\ Held(replay) \in ViewType /\ Late(replay, tr) \in ViewType
      /\ Late(replay, tr) = LateOn(View(replay), replay, tr)
      /\ tr.sysops = <<>> => Late(replay, tr) = Held(replay)
  BY <1>1, <1>2, NowIs, LateIs
<1>4. ~tr.insys => tr.sysops = <<>>
  BY <1>1 DEF Ready
<1>5. at = "arrived" => ~tr.insys /\ tr.frame # <<>> /\ (~again => tr.known = machine.regs) /\ tr.step
  BY DEF TraceInv, AtHook, FollowInv, Handed
<1> QED
  BY <1>1, <1>2, <1>3, <1>4, <1>5

\* The callbacks are fed.
LEMMA RecordFollows ==
  ASSUME TraceInv, FollowInv, NEW t, Ready(t), Record(t), rewinds' = rewinds, lost' = lost,
         ~lost => Late(Now(replay, t), t).regs = t.known,
         ~skewed' /\ rewinds < 2 => ~skewed /\ Matches(replay, t, machine'.cells)
  PROVE  /\ Follows' /\ replay' = Now(replay, t)
         /\ Ready(tr') /\ tr'.known = t.known /\ tr'.insys = t.insys /\ tr'.sysops = t.sysops /\ tr'.frame = t.frame
<1>1. /\ tr' = [t EXCEPT !.sent = <<>>, !.packed = <<>>] /\ replay' = Now(replay, t) /\ log' = log \o t.sent
      /\ t \in TraceType
  BY DEF Record, Now, Ready
<1>2. tr'.known = t.known /\ tr'.insys = t.insys /\ tr'.sysops = t.sysops /\ tr'.frame = t.frame
  BY <1>1 DEF TraceType
<1>3. Idle(replay)
  BY InBetween
<1>4. /\ Ready(tr') /\ Late(Now(replay, t), tr') = Late(Now(replay, t), t)
      /\ \A c : Matches(replay, t, c) => Matches(Now(replay, t), tr', c)
  BY <1>1, <1>3, Settled
<1>5. lost' \in BOOLEAN /\ (rewinds' = 0 => ~lost') /\ (~lost' => Late(replay', tr').regs = tr'.known)
  BY <1>1, <1>2, <1>4 DEF FollowInv, Follows
<1>6. ~skewed' /\ rewinds' < 2 => Matches(replay', tr', machine'.cells)
  BY <1>1, <1>4
<1>7. ASSUME ~skewed', rewinds' = 0
      PROVE  Prefixed(log')
  <2>1. ~skewed /\ rewinds = 0 /\ InParts(replay, t)
    <3>1. rewinds < 2
      BY <1>7
    <3> QED
      BY <1>7, <3>1 DEF Matches, Orderly
  <2>2. IsLog(log) /\ replay = FeedAll(NewReplay, log) /\ Prefixed(log)
    BY <2>1 DEF TraceInv, LogReplays, FollowInv, Follows
  <2> QED
    BY <1>1, <2>1, <2>2, PrefixedMore
<1>8. Follows'
  BY <1>5, <1>6, <1>7 DEF Follows
<1> QED
  BY <1>1, <1>2, <1>4, <1>8

LEMMA InitFollows == Init => FollowInv
<1> SUFFICES ASSUME Init
             PROVE  FollowInv
  OBVIOUS
<1>1. PICK v \in Values, pages \in Loaded :
        LET regs == [n \in Regs |-> IF n = SP THEN v ELSE 0]
            kf == KeyframeOf(regs, pages) IN
        /\ machine = [pc |-> 1, regs |-> regs, cells |-> Cells(pages)]
        /\ tr = NewTrace(regs)
        /\ file = <<kf>> /\ log = <<kf>> /\ replay = Feed(NewReplay, kf)
        /\ at = "start" /\ past = <<machine>> /\ stops = 0 /\ rewinds = 0 /\ lost = FALSE
        /\ skewed = \E i \in DOMAIN pages : Shifted(pages[i])
  BY DEF Init
<1> DEFINE regs == [n \in Regs |-> IF n = SP THEN v ELSE 0]
           kf == KeyframeOf(regs, pages)
<1>2. /\ machine.regs = regs /\ machine.cells = Cells(pages)
      /\ tr = NewTrace(regs) /\ log = <<kf>> /\ replay = Feed(NewReplay, kf)
      /\ at = "start" /\ rewinds = 0 /\ lost = FALSE
      /\ skewed = \E i \in DOMAIN pages : Shifted(pages[i])
  BY <1>1
<1>3. regs \in [Regs -> Values] /\ pages \in Seq(Page) /\ Apart(pages)
  BY TraceAssumption DEF Apart, Below
<1> HIDE DEF regs
<1>4. /\ View(replay).regs = regs /\ replay.effects = <<>>
      /\ ~skewed => Apart(View(replay).pages) /\ Cells(View(replay).pages) = Cells(pages)
  BY <1>2, <1>3, KeyframeShown
<1>5. TraceInv
  BY InitHolds
<1>6. Idle(replay) /\ tr \in TraceType /\ tr.sent = <<>> /\ IsLog(log)
  BY <1>5 DEF TraceInv, TypesOK, LogReplays
<1>7. ~tr.insys /\ tr.sysops = <<>> /\ tr.known = regs
  BY <1>2 DEF NewTrace
<1>8. Ready(tr)
  BY <1>6, <1>7 DEF Ready
<1>9. Handed
  BY <1>2, <1>7, <1>8 DEF Handed, NoRet
<1>10. Quiet
  <2>1. Mute(replay.effects)
    BY <1>4, RecallNone DEF Mute
  <2> QED
    BY <1>4, <2>1 DEF Quiet
<1>11. Late(replay, tr) = View(replay) /\ Held(replay) = View(replay) /\ Now(replay, tr) = replay
  BY <1>4, <1>6, <1>7, RecallNone, FeedNone DEF Late, Held, Now
<1>12. Late(replay, tr).regs = tr.known
  BY <1>4, <1>7, <1>11
<1>13. ASSUME ~skewed
       PROVE  Matches(replay, tr, machine.cells) /\ Prefixed(log)
  <2>1. Apart(replay.pages)
    BY <1>4, <1>13 DEF View
  <2>2. InParts(replay, tr)
    <3>1. Len(tr.sent) = 0 /\ SubSeq(<<>>, 1, 0) = <<>> /\ \A i \in 0..0 : i = 0
      BY <1>6
    <3> QED
      BY <1>6, <2>1, <3>1, FeedNone DEF InParts
  <2>3. Matches(replay, tr, machine.cells)
    BY <1>2, <1>4, <1>11, <1>13, <2>2 DEF Matches, Orderly
  <2>4. FeedAll(NewReplay, <<>>) = NewReplay /\ FeedAll(NewReplay, <<kf>>) = replay
    BY <1>2, FeedNone, FeedSingle
  <2>5. Apart(NewReplay.pages)
    BY DEF NewReplay, Apart
  <2>6. Len(log) = 1 /\ SubSeq(log, 1, 0) = <<>> /\ SubSeq(log, 1, 1) = <<kf>>
    <3>1. SubSeq(log, 1, 0) = <<>> /\ SubSeq(log, 1, Len(log)) = log
      BY <1>6, WholePart DEF IsLog
    <3>2. Len(log) = 1
      BY <1>2
    <3> QED
      BY <1>2, <3>1, <3>2
  <2>7. \A i \in 0..1 : i = 0 \/ i = 1
    OBVIOUS
  <2>8. Prefixed(log)
    BY <2>1, <2>4, <2>5, <2>6, <2>7 DEF Prefixed
  <2> QED
    BY <2>3, <2>8
<1>14. Follows
  BY <1>2, <1>12, <1>13 DEF Follows
<1> QED
  BY <1>9, <1>10, <1>14 DEF FollowInv

\* A jump, and the instruction that is jumped to, change nothing that waits.
LEMMA JumpLate ==
  ASSUME NEW r, Idle(r), NEW t, Ready(t), ~t.insys, NEW a \in Nat \ {0}, NEW regs \in [Regs -> Values],
         t.step => t.stepAddr = a
  PROVE  LET u == OnStep(Put(t, Jmp(a), TRUE), a, regs)
         IN  /\ Ready(u) /\ ~u.insys /\ u.sysops = <<>> /\ u.frame # <<>> /\ u.known = t.known
             /\ View(Now(r, u)) = View(Now(r, t)) /\ Now(r, u).effects = Now(r, t).effects
             /\ InParts(r, t) => InParts(r, u)
<1> DEFINE p == Put(t, Jmp(a), TRUE)
           u == OnStep(p, a, regs)
           Good(w) == /\ Ready(w) /\ ~w.insys /\ w.sysops = <<>> /\ w.frame # <<>> /\ w.known = t.known
                      /\ View(Now(r, w)) = View(Now(r, t)) /\ Now(r, w).effects = Now(r, t).effects
                      /\ InParts(r, t) => InParts(r, w)
<1>1. Jmp(a) \in Fed /\ TRUE \in BOOLEAN /\ a \in Nat
  BY DEF Fed, Jumps
<1>2. /\ Ready(p) /\ ~p.insys /\ p.sysops = <<>> /\ p.frame # <<>>
      /\ p.step = t.step /\ p.stepAddr = t.stepAddr /\ p.known = t.known
      /\ Now(r, p) = Feed(Now(r, t), Jmp(a)) /\ Idle(Now(r, p))
      /\ InParts(r, t) /\ Apart(Now(r, p).pages) => InParts(r, p)
  BY <1>1, SentBehind
<1> HIDE DEF p
<1>3. t \in TraceType /\ p \in TraceType
  BY <1>2 DEF Ready
<1>4. Idle(Now(r, t))
  BY <1>3, NowIs
<1>5. View(Now(r, p)) = View(Now(r, t)) /\ Now(r, p).effects = Now(r, t).effects
  BY <1>1, <1>2, <1>4, JmpViews
<1>6. InParts(r, t) => InParts(r, p)
  <2>1. Now(r, p).pages = Now(r, t).pages
    BY <1>5 DEF View
  <2> QED
    BY <1>2, <1>3, <2>1, PartsEnd
<1>7. ASSUME a = p.stepAddr
      PROVE  Good(u)
  <2>1. u = p
    BY <1>7 DEF OnStep
  <2> QED
    BY <1>2, <1>5, <1>6, <2>1
<1>8. ASSUME a # p.stepAddr
      PROVE  Good(u)
  <2>1. ~p.step
    BY <1>2, <1>8
  <2>2. FlushStep(p, regs) = [p EXCEPT !.insys = FALSE, !.sysops = <<>>]
    BY <1>2, <2>1 DEF FlushStep
  <2>3. u = [[p EXCEPT !.insys = FALSE, !.sysops = <<>>] EXCEPT !.step = TRUE, !.stepAddr = a]
    BY <1>8, <2>2 DEF OnStep
  <2>4. <<>> \in Seq(Calm)
    OBVIOUS
  <2>5. /\ u \in TraceType /\ ~u.insys /\ u.sysops = <<>> /\ u.frame = p.frame /\ u.known = p.known
        /\ u.sent = p.sent
    BY <1>1, <1>3, <2>3, <2>4 DEF TraceType
  <2> HIDE DEF u
  <2>6. Ready(u)
    BY <2>5 DEF Ready
  <2>7. Now(r, u) = Now(r, p) /\ (InParts(r, p) => InParts(r, u))
    BY <2>5 DEF Now, InParts
  <2>8. u.frame # <<>> /\ u.known = t.known
    BY <1>2, <2>5
  <2> QED
    BY <1>5, <1>6, <2>5, <2>6, <2>7, <2>8
<1> QED
  <2>1. Good(u)
    BY <1>7, <1>8
  <2> QED
    BY <2>1 DEF u, p, Good

\* The step of the instruction before, with the registers it left.
LEMMA StepBehind ==
  ASSUME TraceInv, FollowInv, at \in {"next", "jumped"}
  PROVE  LET u == FlushStep(tr, machine.regs)
         IN  /\ Ready(u) /\ ~u.insys /\ u.sysops = <<>> /\ u.frame # <<>> /\ u.known = machine.regs /\ ~u.step
             /\ u.stepAddr = tr.stepAddr
             /\ Now(replay, u).effects = <<>> /\ (~lost => Now(replay, u).regs = machine.regs)
             /\ Now(replay, u).pages = Late(replay, tr).pages
             /\ Orderly(replay, tr) => InParts(replay, u)
<1>1. /\ Idle(replay) /\ Ready(tr) /\ tr \in TraceType /\ Now(replay, tr) = replay /\ NoRet(tr.sysops)
      /\ (~lost => Late(replay, tr).regs = tr.known) /\ machine.regs \in [Regs -> Values]
  BY InBetween
<1>2. tr.step
  BY DEF TraceInv, AtHook
<1>3. tr.insys => \A n \in Regs \ {Ret} : tr.known[n] = machine.regs[n]
  BY DEF FollowInv, Handed
<1> DEFINE u == FlushStep(tr, machine.regs)
           regs == machine.regs
<1>4. ~u.step /\ u.stepAddr = tr.stepAddr
  BY <1>1, FlushStepSends
<1>5. /\ ~lost => Late(Now(replay, tr), tr).regs = tr.known
      /\ Late(Now(replay, tr), tr).pages = Late(replay, tr).pages
  BY <1>1
<1> HIDE DEF regs
<1>6. regs \in [Regs -> Values] /\ (tr.insys => \A n \in Regs \ {Ret} : tr.known[n] = regs[n])
  BY <1>1, <1>3 DEF regs
<1>7. LET w == FlushStep(tr, regs)
      IN  /\ Ready(w) /\ ~w.insys /\ w.sysops = <<>> /\ w.frame # <<>> /\ w.known = regs
          /\ Now(replay, w).effects = <<>>
          /\ Late(Now(replay, tr), tr).regs = tr.known => Now(replay, w).regs = regs
          /\ Now(replay, w).pages = Late(Now(replay, tr), tr).pages
          /\ Orderly(replay, tr) => InParts(replay, w)
  BY <1>1, <1>2, <1>6, FlushStepLate
<1> QED
  BY <1>4, <1>5, <1>7 DEF regs

LEMMA ArriveFollows ==
  ASSUME TraceInv, FollowInv, Arrive
  PROVE  FollowInv'
<1> DEFINE regs == machine.regs
           pc == machine.pc
           t == IF at = "next" THEN tr ELSE OnJmp(tr, pc, regs)
           n == OnStep(t, pc, regs)
<1>1. /\ at \in {"start", "jumped", "next"} /\ Record(n) /\ at' = "arrived"
      /\ machine' = machine /\ rewinds' = rewinds /\ skewed' = skewed /\ again' = again /\ lost' = lost
      /\ again \in BOOLEAN /\ lost \in BOOLEAN
  BY DEF Arrive, TraceInv, TypesOK, FollowInv, Follows
<1>2. /\ Idle(replay) /\ replay \in ReplayType /\ Ready(tr) /\ tr \in TraceType /\ tr.sent = <<>>
      /\ Now(replay, tr) = replay /\ NoRet(tr.sysops) /\ (~lost => Late(replay, tr).regs = tr.known)
      /\ machine \in Machine /\ regs \in [Regs -> Values] /\ pc \in Nat \ {0}
      /\ ~tr.insys => tr.sysops = <<>> /\ Late(replay, tr) = Held(replay)
  BY InBetween
<1>3. /\ at = "start" => ~tr.insys /\ tr.stepAddr = IF tr.step THEN pc ELSE 0
      /\ at = "jumped" => ~tr.insys /\ tr.step /\ (tr.stepAddr = pc <=> again)
      /\ at = "next" => tr.step /\ tr.stepAddr # pc /\ ~again
  BY <1>1 DEF TraceInv, AtHook
<1> DEFINE Good(w) == /\ Ready(w) /\ ~w.insys /\ w.sysops = <<>> /\ w.frame # <<>> /\ (~again => w.known = regs)
                      /\ ~lost => Late(Now(replay, w), w).regs = w.known
                      /\ Late(Now(replay, w), w).pages = Late(replay, tr).pages
                      /\ Orderly(replay, tr) => Orderly(replay, w)
                      /\ \/ again \/ Now(replay, w).effects = <<>>
                         \/ at = "start" /\ Now(replay, w).effects = replay.effects
<1> HIDE DEF Good
\* A recorder without effects left.
<1>4. ASSUME NEW w, Ready(w), ~w.insys, w.sysops = <<>>, w.frame # <<>>, w.known = regs,
             Now(replay, w).effects = <<>>, ~lost => Now(replay, w).regs = regs,
             Now(replay, w).pages = Late(replay, tr).pages,
             Orderly(replay, tr) => InParts(replay, w)
      PROVE  Good(w)
  <2>1. Held(Now(replay, w)) = View(Now(replay, w)) /\ Late(Now(replay, w), w) = View(Now(replay, w))
    BY <1>4, RecallNone DEF Held, Late
  <2>2. View(Now(replay, w)).pages = Late(replay, tr).pages /\ (~lost => View(Now(replay, w)).regs = regs)
    BY <1>4 DEF View
  <2>3. Orderly(replay, tr) => Orderly(replay, w)
    BY <1>2, <1>4, <2>1, <2>2 DEF Orderly
  <2> QED
    BY <1>4, <2>1, <2>2, <2>3 DEF Good
<1> DEFINE u == FlushStep(tr, regs)
<1>5. at \in {"next", "jumped"} =>
        /\ Ready(u) /\ ~u.insys /\ u.sysops = <<>> /\ u.frame # <<>> /\ u.known = regs /\ ~u.step
        /\ u.stepAddr = tr.stepAddr
        /\ Now(replay, u).effects = <<>> /\ (~lost => Now(replay, u).regs = regs)
        /\ Now(replay, u).pages = Late(replay, tr).pages
        /\ Orderly(replay, tr) => InParts(replay, u)
  BY StepBehind
<1>6. Good(n)
  <2>1. CASE at = "next"
    <3>1. n = [u EXCEPT !.step = TRUE, !.stepAddr = pc]
      BY <1>3, <2>1 DEF OnStep
    <3>2. /\ Ready(u) /\ ~u.insys /\ u.sysops = <<>> /\ u.frame # <<>> /\ u.known = regs
          /\ Now(replay, u).effects = <<>> /\ (~lost => Now(replay, u).regs = regs)
          /\ Now(replay, u).pages = Late(replay, tr).pages
          /\ Orderly(replay, tr) => InParts(replay, u)
      BY <1>5, <2>1
    <3> HIDE DEF u, n, t
    <3>3. u \in TraceType /\ TRUE \in BOOLEAN /\ pc \in Nat
      BY <1>2, <3>2 DEF Ready
    <3>4. /\ n \in TraceType /\ n.insys = u.insys /\ n.sysops = u.sysops /\ n.frame = u.frame /\ n.known = u.known
          /\ n.sent = u.sent
      BY <3>1, <3>3 DEF TraceType
    <3>5. Ready(n) /\ Now(replay, n) = Now(replay, u) /\ (InParts(replay, u) => InParts(replay, n))
      BY <3>2, <3>4 DEF Ready, Now, InParts
    <3> QED
      BY <1>4, <3>2, <3>4, <3>5
  <2>2. CASE at = "jumped" /\ ~again
    <3>1. n = OnStep(Put(u, Jmp(pc), TRUE), pc, regs)
      BY <1>3, <2>2 DEF OnJmp
    <3>2. /\ Ready(u) /\ ~u.insys /\ u.known = regs /\ ~u.step
          /\ Now(replay, u).effects = <<>> /\ (~lost => Now(replay, u).regs = regs)
          /\ Now(replay, u).pages = Late(replay, tr).pages
          /\ Orderly(replay, tr) => InParts(replay, u)
      BY <1>5, <2>2
    <3> HIDE DEF u, t, regs, pc
    <3>3. /\ Ready(n) /\ ~n.insys /\ n.sysops = <<>> /\ n.frame # <<>> /\ n.known = u.known
          /\ View(Now(replay, n)) = View(Now(replay, u)) /\ Now(replay, n).effects = Now(replay, u).effects
          /\ InParts(replay, u) => InParts(replay, n)
      <4>1. LET w == OnStep(Put(u, Jmp(pc), TRUE), pc, regs)
            IN  /\ Ready(w) /\ ~w.insys /\ w.sysops = <<>> /\ w.frame # <<>> /\ w.known = u.known
                /\ View(Now(replay, w)) = View(Now(replay, u)) /\ Now(replay, w).effects = Now(replay, u).effects
                /\ InParts(replay, u) => InParts(replay, w)
        <5> HIDE DEF n
        <5>1. /\ Idle(replay) /\ Ready(u) /\ ~u.insys /\ pc \in Nat \ {0} /\ regs \in [Regs -> Values]
              /\ u.step => u.stepAddr = pc
          BY <1>2, <3>2
        <5> QED
          BY <5>1, JumpLate
      <4> HIDE DEF n
      <4> QED
        BY <3>1, <4>1
    <3> HIDE DEF n
    <3>4. Now(replay, n).pages = Now(replay, u).pages /\ Now(replay, n).regs = Now(replay, u).regs
      BY <3>3 DEF View
    <3> QED
      BY <1>4, <3>2, <3>3, <3>4
  <2>3. CASE at = "start" \/ (at = "jumped" /\ again)
    <3>1. n = OnStep(Put(tr, Jmp(pc), TRUE), pc, regs) /\ (tr.step => tr.stepAddr = pc) /\ ~tr.insys
      BY <1>3, <2>3 DEF OnJmp
    <3>2. ~again => tr.known = regs
      BY <2>3 DEF FollowInv, Handed
    <3> HIDE DEF t, regs, pc
    <3>3. /\ Ready(n) /\ ~n.insys /\ n.sysops = <<>> /\ n.frame # <<>> /\ n.known = tr.known
          /\ View(Now(replay, n)) = View(Now(replay, tr)) /\ Now(replay, n).effects = Now(replay, tr).effects
          /\ InParts(replay, tr) => InParts(replay, n)
      <4>1. LET w == OnStep(Put(tr, Jmp(pc), TRUE), pc, regs)
            IN  /\ Ready(w) /\ ~w.insys /\ w.sysops = <<>> /\ w.frame # <<>> /\ w.known = tr.known
                /\ View(Now(replay, w)) = View(Now(replay, tr)) /\ Now(replay, w).effects = Now(replay, tr).effects
                /\ InParts(replay, tr) => InParts(replay, w)
        <5> HIDE DEF n
        <5> QED
          BY <1>2, <3>1, JumpLate
      <4> HIDE DEF n
      <4> QED
        BY <3>1, <4>1
    <3> HIDE DEF n
    <3>4. Held(Now(replay, n)) = Held(replay) /\ Late(Now(replay, n), n) = Late(replay, tr)
      BY <1>2, <3>1, <3>3 DEF Held, Late
    <3>5. Orderly(replay, tr) => Orderly(replay, n)
      BY <1>2, <3>3, <3>4 DEF Orderly
    <3> QED
      BY <1>1, <1>2, <2>3, <3>2, <3>3, <3>4, <3>5 DEF Good
  <2> QED
    BY <1>1, <2>1, <2>2, <2>3
<1> HIDE DEF n, t, u
<1>7. /\ Ready(n) /\ ~n.insys /\ n.sysops = <<>> /\ n.frame # <<>> /\ (~again => n.known = regs)
      /\ ~lost => Late(Now(replay, n), n).regs = n.known
      /\ Late(Now(replay, n), n).pages = Late(replay, tr).pages
      /\ Orderly(replay, tr) => Orderly(replay, n)
      /\ \/ again \/ Now(replay, n).effects = <<>>
         \/ at = "start" /\ Now(replay, n).effects = replay.effects
  BY <1>6 DEF Good
<1>8. ~skewed' /\ rewinds < 2 => ~skewed /\ Matches(replay, n, machine'.cells)
  <2> SUFFICES ASSUME ~skewed', rewinds < 2
               PROVE  ~skewed /\ Matches(replay, n, machine'.cells)
    OBVIOUS
  <2>1. Matches(replay, tr, machine.cells)
    BY <1>1 DEF FollowInv, Follows
  <2> QED
    BY <1>1, <1>2, <1>7, <2>1 DEF Matches
<1>9. /\ Follows' /\ replay' = Now(replay, n)
      /\ Ready(tr') /\ tr'.known = n.known /\ tr'.insys = n.insys /\ tr'.sysops = n.sysops /\ tr'.frame = n.frame
  BY <1>1, <1>7, <1>8, RecordFollows
<1>10. Handed'
  BY <1>1, <1>7, <1>9 DEF Handed, NoRet
<1>11. Quiet'
  <2>1. Mute(<<>>)
    BY RecallNone DEF Mute
  <2>2. at = "start" /\ ~again /\ ~lost => Mute(replay.effects) /\ (rewinds = 0 => replay.effects = <<>>)
    BY DEF FollowInv, Quiet
  <2>3. ~again' /\ ~lost' => Mute(replay'.effects) /\ (rewinds' = 0 => replay'.effects = <<>>)
    BY <1>1, <1>7, <1>9, <2>1, <2>2
  <2> QED
    BY <2>3 DEF Quiet
<1> QED
  BY <1>9, <1>10, <1>11 DEF FollowInv

\* The work of an instruction, that one operation or none is recorded of.
LEMMA WorkFollows ==
  ASSUME TraceInv, FollowInv, Work
  PROVE  FollowInv'
<1>1. /\ at = "arrived" /\ rewinds' = rewinds /\ skewed' = skewed /\ lost' = lost
      /\ \/ machine'.cells = machine.cells /\ Record(tr)
         \/ \E x \in DOMAIN machine.cells, b \in Byte :
              /\ machine'.cells = [machine.cells EXCEPT ![x].byte = b]
              /\ Record(Put(tr, MemWriteOp(<<x, x + 1>>, <<b>>), FALSE))
      /\ at' \in {"next", "jumped"}
  <2>1. machine \in Machine
    BY InBetween
  <2> QED
    BY <2>1, FetchedIs DEF Work, Machine
<1>2. /\ Idle(replay) /\ replay \in ReplayType /\ Ready(tr) /\ tr \in TraceType /\ tr.sent = <<>>
      /\ Now(replay, tr) = replay /\ NoRet(tr.sysops) /\ (~lost => Late(replay, tr).regs = tr.known)
      /\ View(replay) \in ViewType /\ Late(replay, tr) \in ViewType /\ Late(replay, tr) = LateOn(View(replay), replay, tr)
      /\ ~tr.insys /\ tr.frame # <<>> /\ tr.sysops = <<>> /\ Late(replay, tr) = Held(replay)
  BY <1>1, InBetween
<1> DEFINE Good(t) == /\ Ready(t) /\ ~t.insys /\ t.sysops = <<>> /\ t.frame # <<>>
                      /\ ~lost => Late(Now(replay, t), t).regs = t.known
                      /\ ~skewed /\ rewinds < 2 => Matches(replay, t, machine'.cells)
<1>3. \E t : Record(t) /\ Good(t)
  <2>1. CASE machine'.cells = machine.cells /\ Record(tr)
    <3>1. Good(tr)
      BY <1>2, <2>1 DEF FollowInv, Follows
    <3> QED
      BY <2>1, <3>1
  <2>2. ASSUME NEW x \in DOMAIN machine.cells, NEW b \in Byte,
               machine'.cells = [machine.cells EXCEPT ![x].byte = b],
               Record(Put(tr, MemWriteOp(<<x, x + 1>>, <<b>>), FALSE))
        PROVE  \E t : Record(t) /\ Good(t)
    <3> DEFINE op == MemWriteOp(<<x, x + 1>>, <<b>>)
               t == PutOne(tr, op)
               late == Late(replay, tr)
    <3>1. Record(t)
      BY <2>2 DEF PutOne
    <3>2. op \in Calm /\ op.op # "reg"
      <4>1. x \in Nat
        <5>1. machine.cells \in Memories
          BY InBetween DEF Machine
        <5> QED
          BY <5>1 DEF Memories
      <4> DEFINE r == <<x, x + 1>>
                 d == <<b>>
      <4>2. r \in Spans /\ d \in Seq(Byte) /\ Len(d) = Size(r)
        BY <4>1 DEF Spans, Size
      <4>3. op.op # "reg"
        BY DEF MemWriteOp
      <4> HIDE DEF r, d
      <4>4. MemWriteOp(r, d) \in Calm
        BY <4>2, WritesAreCalm
      <4> QED
        BY <4>3, <4>4 DEF r, d
    <3>3. ASSUME Shown(late, machine.cells)
          PROVE  Shown(Recall(late, op), machine'.cells)
      BY <2>2, <3>3, ByteShown
    <3> HIDE DEF op
    <3>4. /\ Ready(t) /\ Kept(tr, t) /\ t.frame # <<>> /\ t.known = tr.known
          /\ t.sysops = <<>>
      BY <1>2, <3>2, PutWaits
    <3>5. View(Now(replay, t)) = View(replay) /\ LateOn(View(replay), replay, t) = Recall(late, op)
      <4>1. /\ View(Now(replay, t)) = View(Now(replay, tr))
            /\ LateOn(View(replay), replay, t) = Recall(LateOn(View(replay), replay, tr), op)
        BY <1>2, <3>2, PutLate
      <4> QED
        BY <1>2, <4>1
    <3> HIDE DEF t
    <3>6. t \in TraceType /\ ~t.insys
      BY <1>2, <3>4 DEF Kept
    <3>7. Late(Now(replay, t), t) = Recall(late, op) /\ Held(Now(replay, t)) = Recall(late, op)
      <4>1. /\ Late(Now(replay, t), t) = LateOn(View(Now(replay, t)), replay, t)
            /\ Late(Now(replay, t), t) = Held(Now(replay, t))
        BY <1>2, <3>4, <3>6, LateIs
      <4> QED
        BY <3>5, <4>1
    <3>8. Recall(late, op).regs = late.regs
      BY <3>2 DEF Recall
    <3>9. ASSUME ~skewed, rewinds < 2
          PROVE  Matches(replay, t, machine'.cells)
      <4>1. InParts(replay, tr) /\ Apart(late.pages) /\ Cells(late.pages) = machine.cells
        BY <1>2, <3>9 DEF FollowInv, Follows, Matches, Orderly
      <4>2. Shown(late, machine.cells)
        BY <1>2, <4>1 DEF Shown
      <4>3. Shown(Recall(late, op), machine'.cells)
        BY <3>3, <4>2
      <4>4. InParts(replay, t)
        BY <1>2, <3>4, <4>1, KeptInParts
      <4> QED
        BY <3>7, <4>3, <4>4 DEF Shown, Matches, Orderly
    <3>10. Good(t)
      BY <1>2, <3>4, <3>6, <3>7, <3>8, <3>9
    <3> QED
      BY <3>1, <3>10
  <2> QED
    BY <1>1, <2>1, <2>2
<1>4. PICK t : Record(t) /\ Good(t)
  BY <1>3
<1>5. /\ Follows' /\ replay' = Now(replay, t)
      /\ Ready(tr') /\ tr'.known = t.known /\ tr'.insys = t.insys /\ tr'.sysops = t.sysops /\ tr'.frame = t.frame
  BY <1>1, <1>4, RecordFollows
<1>6. Handed'
  BY <1>1, <1>4, <1>5 DEF Handed, NoRet
<1>7. Quiet'
  BY <1>1 DEF Quiet
<1> QED
  BY <1>5, <1>6, <1>7 DEF FollowInv

LEMMA KernelQuiet ==
  ASSUME NEW c, NEW r, NEW work \in KernelWork(c, r)
  PROVE  NoReg(work.ops)
<1>1. CASE work \in {Mapping(c, r, p) : p \in Prots}
  <2>1. PICK p \in Prots : work.ops = <<MemUnmapOp(r), MemMapOp(r, p)>>
    BY <1>1 DEF Mapping
  <2> QED
    BY <2>1 DEF NoReg, MemUnmapOp, MemMapOp
<1>2. CASE work = Unmapping(c, r)
  <2>1. work.ops = <<MemUnmapOp(r)>>
    BY <1>2 DEF Unmapping
  <2> QED
    BY <2>1 DEF NoReg, MemUnmapOp
<1>3. CASE work \in {Protecting(c, r, p) : p \in Prots}
  <2>1. PICK p \in Prots : work.ops = <<MemProtOp(r, p)>>
    BY <1>3 DEF Protecting
  <2> QED
    BY <2>1 DEF NoReg, MemProtOp
<1>4. CASE work \in {Storing(c, r, d) : d \in [1..(r[2] - r[1]) -> Byte]}
  <2>1. PICK d \in [1..(r[2] - r[1]) -> Byte] : work.ops = <<MemWriteOp(r, d)>>
    BY <1>4 DEF Storing
  <2> QED
    BY <2>1 DEF NoReg, MemWriteOp
<1> QED
  BY <1>1, <1>2, <1>3, <1>4 DEF KernelWork

\* A system call sets the stack pointer only, as long as its hooks run.
LEMMA UpdatesSpare ==
  ASSUME NEW regs \in [Regs -> Values], NEW v \in Values
  PROVE  NoRet(Updates([regs EXCEPT ![SP] = v], regs))
<1> DEFINE after == [regs EXCEPT ![SP] = v]
           D == {n \in Regs : regs[n] # after[n]}
           changed == SetToSeq(D)
<1>1. D \subseteq {SP} /\ SP # Ret
  BY TraceAssumption
<1>2. IsFiniteSet(D)
  <2>1. IsFiniteSet(Regs) /\ D \subseteq Regs
    BY TraceAssumption
  <2> HIDE DEF D
  <2> QED
    BY <2>1, FS_Subset
<1>3. Updates(after, regs) = [i \in DOMAIN changed |-> Reg(changed[i], after[changed[i]])]
  BY DEF Updates
<1> HIDE DEF D, after
<1>4. changed \in Seq(D)
  BY <1>2, SetToSeqIsSeq
<1> HIDE DEF changed
<1>5. \A i \in DOMAIN changed : changed[i] = SP
  BY <1>1, <1>4
<1>6. NoRet(Updates(after, regs))
  BY <1>1, <1>3, <1>5 DEF NoRet, Reg
<1> QED
  BY <1>6 DEF after

LEMMA SyscallFollows ==
  ASSUME TraceInv, FollowInv, SyscallWork
  PROVE  FollowInv'
<1>1. at = "arrived" /\ rewinds' = rewinds /\ lost' = lost /\ at' = "next" /\ ~again
  BY DEF SyscallWork, Fetched
<1>2. /\ Idle(replay) /\ replay \in ReplayType /\ Ready(tr) /\ tr \in TraceType /\ tr.sent = <<>>
      /\ Now(replay, tr) = replay /\ (~lost => Late(replay, tr).regs = tr.known)
      /\ machine.regs \in [Regs -> Values]
      /\ View(replay) \in ViewType /\ Late(replay, tr) \in ViewType
      /\ ~tr.insys /\ tr.frame # <<>> /\ tr.sysops = <<>> /\ Late(replay, tr) = Held(replay)
      /\ tr.known = machine.regs /\ machine.cells \in Memories
  BY <1>1, InBetween DEF Machine
<1>3. PICK r \in Ranges, v \in Values, ret \in Values : \E work \in KernelWork(machine.cells, r) :
        LET regs == [machine.regs EXCEPT ![SP] = v] IN
        /\ machine' = [pc |-> machine.pc + 1, regs |-> [regs EXCEPT ![Ret] = ret], cells |-> work.cells]
        /\ Record(OnSysPost(PutAll(OnSysPre(tr), work.ops), regs))
        /\ skewed' = (skewed \/ ~Tidy(machine.cells, r))
  BY DEF SyscallWork
<1> DEFINE regs == [machine.regs EXCEPT ![SP] = v]
<1>4. PICK work \in KernelWork(machine.cells, r) :
        /\ machine' = [pc |-> machine.pc + 1, regs |-> [regs EXCEPT ![Ret] = ret], cells |-> work.cells]
        /\ Record(OnSysPost(PutAll(OnSysPre(tr), work.ops), regs))
        /\ skewed' = (skewed \/ ~Tidy(machine.cells, r))
  BY <1>3
<1> DEFINE b == OnSysPre(tr)
           q == PutAll(b, work.ops)
           t == RegUpdate(q, regs)
           late == Late(replay, tr)
<1>5. regs \in [Regs -> Values] /\ NoRet(Updates(regs, machine.regs))
  BY <1>2, UpdatesSpare
<1>6. machine'.regs = [regs EXCEPT ![Ret] = ret] /\ machine'.cells = work.cells
  BY <1>4
<1> HIDE DEF regs
<1>7. work.ops \in Seq(Calm) /\ NoReg(work.ops) /\ NoRet(work.ops)
  <2>1. NoReg(work.ops)
    BY KernelQuiet
  <2> QED
    BY <1>2, <2>1, KernelWorkIs DEF NoReg, NoRet
<1>8. /\ Ready(b) /\ b.insys /\ b.sent = <<>> /\ b.sysops = <<>> /\ b.frame = tr.frame /\ b.known = tr.known
      /\ b \in TraceType
  <2>1. <<>> \in Seq(Calm) /\ FlushSys(tr) = tr /\ TRUE \in BOOLEAN
    BY <1>2 DEF FlushSys
  <2>2. b = [tr EXCEPT !.insys = TRUE, !.sysops = <<>>]
    BY <2>1 DEF OnSysPre
  <2> HIDE DEF b
  <2>3. /\ b \in TraceType /\ b.insys /\ b.sent = <<>> /\ b.sysops = <<>> /\ b.frame = tr.frame
        /\ b.known = tr.known
    BY <1>2, <2>1, <2>2 DEF TraceType
  <2> QED
    BY <1>2, <2>3 DEF Ready
<1> HIDE DEF b
<1>9. Now(replay, b) = replay /\ Late(replay, b) = late
  BY <1>2, <1>8, FeedNone DEF Now, Late
<1>10. /\ Waits(b, q) /\ View(Now(replay, q)) = View(Now(replay, b))
       /\ \A a \in ViewType : LateOn(a, replay, q) = RecallAll(LateOn(a, replay, b), work.ops)
  BY <1>2, <1>7, <1>8, PutAllLate
<1>11. NoRet(q.sysops)
  <2>1. NoRet(b.sysops)
    BY <1>8 DEF NoRet
  <2> QED
    BY <1>7, <1>8, <2>1, PutsSpare
<1>12. t = OnSysPost(q, regs)
  <2>1. q.insys
    BY <1>8, <1>10 DEF Waits, Kept
  <2> QED
    BY <2>1 DEF OnSysPost
<1>13. Record(t)
  BY <1>4, <1>12 DEF q, b
<1> HIDE DEF q
<1>14. /\ Ready(q) /\ Kept(b, q) /\ q.known = machine.regs /\ q.sent = <<>> /\ q.insys /\ q \in TraceType
  BY <1>2, <1>8, <1>10 DEF Waits, Kept
<1>15. Now(replay, q) = replay
  BY <1>14, FeedNone DEF Now
<1>16. Late(Now(replay, q), q) = RecallAll(late, work.ops)
  <2>1. /\ Late(Now(replay, q), q) = LateOn(View(Now(replay, q)), replay, q)
        /\ Late(Now(replay, b), b) = LateOn(View(Now(replay, b)), replay, b)
    BY <1>2, <1>8, <1>14, LateIs
  <2>2. View(Now(replay, q)) = View(replay) /\ View(Now(replay, b)) = View(replay)
    BY <1>9, <1>15
  <2> QED
    BY <1>2, <1>9, <1>10, <2>1, <2>2
<1>17. (~lost => RecallAll(late, work.ops).regs = machine.regs) /\ RecallAll(late, work.ops) \in ViewType
  BY <1>2, <1>7, RegsStay, RecallAllHas
<1>18. /\ Ready(t) /\ Kept(q, t) /\ t.insys = q.insys /\ t.known = regs
       /\ Late(Now(replay, t), t) = Renewed(RecallAll(late, work.ops), regs, machine.regs)
       /\ Orderly(replay, q) => Orderly(replay, t)
  <2>1. /\ Ready(t) /\ Kept(q, t) /\ t.insys = q.insys /\ t.known = regs
        /\ Late(Now(replay, t), t) = Renewed(Late(Now(replay, q), q), regs, q.known)
        /\ Orderly(replay, q) => Orderly(replay, t)
    <3>1. Idle(replay) /\ Ready(q) /\ regs \in [Regs -> Values]
      BY <1>2, <1>5, <1>14
    <3>2. LET w == RegUpdate(q, regs)
          IN  /\ Ready(w) /\ Kept(q, w) /\ w.insys = q.insys /\ w.known = regs
              /\ View(Now(replay, w)) = View(Now(replay, q))
              /\ Late(Now(replay, w), w) = Renewed(Late(Now(replay, q), q), regs, q.known)
              /\ Orderly(replay, q) => Orderly(replay, w)
      BY <3>1, RegUpdateLate
    <3> QED
      BY <3>2
  <2> QED
    BY <1>14, <1>16, <2>1
<1>19. NoRet(t.sysops)
  <2>1. t.sysops = PutAll(q, Updates(regs, machine.regs)).sysops
    <3> DEFINE w == PutAll(q, Updates(regs, q.known))
    <3>1. w \in TraceType
      <4>1. machine.regs \in [Regs -> Values]
        BY <1>2
      <4>2. Updates(regs, q.known) \in Seq(Calm)
        BY <1>5, <1>14, <4>1, UpdatesAreCalm
      <4> QED
        BY <1>14, <4>2, PutAllCalm DEF Kept
    <3>2. t = [w EXCEPT !.known = regs]
      BY DEF RegUpdate
    <3> HIDE DEF w, t
    <3>3. t.sysops = w.sysops
      BY <3>1, <3>2 DEF TraceType
    <3> QED
      BY <1>14, <3>3 DEF w
  <2>2. Updates(regs, machine.regs) \in Seq(Calm)
    BY <1>2, <1>5, UpdatesAreCalm
  <2> HIDE DEF t
  <2> QED
    BY <1>5, <1>11, <1>14, <2>1, <2>2, PutsSpare
<1> HIDE DEF t
<1>20. ~lost => Late(Now(replay, t), t).regs = t.known
  <2> SUFFICES ASSUME ~lost
               PROVE  Late(Now(replay, t), t).regs = t.known
    OBVIOUS
  <2> DEFINE a == RecallAll(late, work.ops)
  <2>1. Late(Now(replay, t), t).regs = [n \in Regs |-> IF machine.regs[n] # regs[n] THEN regs[n] ELSE a.regs[n]]
    BY <1>18 DEF Renewed
  <2>2. a.regs = machine.regs
    BY <1>17
  <2> HIDE DEF a
  <2>3. Late(Now(replay, t), t).regs = [n \in Regs |-> regs[n]]
    BY <2>1, <2>2
  <2> QED
    BY <1>5, <1>18, <2>3
<1>21. ASSUME ~skewed', rewinds < 2
       PROVE  ~skewed /\ Matches(replay, t, machine'.cells)
  <2>1. ~skewed /\ Tidy(machine.cells, r)
    BY <1>4, <1>21
  <2>2. InParts(replay, tr) /\ Apart(Held(replay).pages) /\ Apart(late.pages) /\ Cells(late.pages) = machine.cells
    BY <1>2, <1>21, <2>1 DEF FollowInv, Follows, Matches, Orderly
  <2>3. Shown(late, machine.cells)
    BY <1>2, <2>2 DEF Shown
  <2>4. r \in Spans /\ r[1] < r[2]
    BY TraceAssumption DEF Spans
  <2>5. Shown(RecallAll(late, work.ops), work.cells)
    BY <2>1, <2>3, <2>4, KernelShown
  <2>6. InParts(replay, q)
    <3>1. InParts(replay, b)
      BY <1>2, <1>8, <2>2 DEF InParts
    <3> QED
      BY <1>2, <1>14, <3>1, KeptInParts
  <2>7. Orderly(replay, q)
    BY <1>15, <1>16, <2>2, <2>5, <2>6 DEF Orderly, Shown
  <2>8. Late(Now(replay, t), t).pages = RecallAll(late, work.ops).pages
    BY <1>18 DEF Renewed
  <2> QED
    BY <1>6, <1>18, <2>1, <2>5, <2>7, <2>8 DEF Matches, Shown
<1>22. /\ Follows' /\ replay' = Now(replay, t)
       /\ Ready(tr') /\ tr'.known = t.known /\ tr'.insys = t.insys /\ tr'.sysops = t.sysops /\ tr'.frame = t.frame
  BY <1>1, <1>13, <1>18, <1>20, <1>21, RecordFollows
<1>23. Handed'
  <2>1. tr'.frame # <<>> /\ tr'.insys
    BY <1>14, <1>18, <1>22 DEF Ready
  <2>2. \A n \in Regs \ {Ret} : tr'.known[n] = machine'.regs[n]
    BY <1>5, <1>6, <1>18, <1>22
  <2> QED
    BY <1>1, <1>19, <1>22, <2>1, <2>2 DEF Handed
<1>24. Quiet'
  BY <1>1 DEF Quiet
<1> QED
  BY <1>22, <1>23, <1>24 DEF FollowInv

LEMMA FinishFollows ==
  ASSUME TraceInv, FollowInv, Finish
  PROVE  FollowInv'
<1> DEFINE regs == machine.regs
<1>1. at = "arrived" /\ rewinds' = rewinds /\ at' = "done" /\ machine' = machine /\ skewed' = skewed /\ lost' = lost
  BY DEF Finish
<1>2. /\ Idle(replay) /\ replay \in ReplayType /\ Ready(tr) /\ tr \in TraceType /\ tr.sent = <<>>
      /\ Now(replay, tr) = replay /\ (~lost => Late(replay, tr).regs = tr.known) /\ tr.step
      /\ regs \in [Regs -> Values] /\ View(replay) \in ViewType
      /\ ~tr.insys /\ tr.frame # <<>> /\ tr.sysops = <<>> /\ Late(replay, tr) = Held(replay)
      /\ Held(replay) \in ViewType /\ replay.effects \in Seq(Calm)
  BY <1>1, InBetween, NowIs DEF Idle, ReplayType
<1> HIDE DEF regs
<1>3. PICK sys \in BOOLEAN :
        LET t == FlushStep(OnExit(IF sys THEN OnSysPre(tr) ELSE tr), regs) IN
        Record([t EXCEPT !.packed = Append(@, Frame(t.frame)), !.frame = <<>>])
  BY DEF Finish, regs
<1> DEFINE s == IF sys THEN OnSysPre(tr) ELSE tr
           e == OnExit(s)
           t == FlushStep(e, regs)
           n == [t EXCEPT !.packed = Append(@, Frame(t.frame)), !.frame = <<>>]
<1>4. Record(n)
  BY <1>3
<1>5. Other \in Calm /\ Other \in Fed /\ FALSE \in BOOLEAN /\ <<Other>> \in Seq(Calm) /\ <<>> \in Seq(Calm)
      /\ Syscall(<<Other>>) \in Fed /\ \A a : Recall(a, Other) = [pages |-> a.pages, regs |-> a.regs]
  <2>1. Other \in Calm
    BY DEF Calm
  <2>2. Other.op = "other"
    BY DEF Other
  <2>3. \A a : Recall(a, Other) = [pages |-> a.pages, regs |-> a.regs]
    BY <2>2 DEF Recall
  <2> HIDE DEF Other
  <2>4. <<Other>> \in Seq(Calm) /\ <<>> \in Seq(Calm)
    BY <2>1
  <2>5. Other \in Fed /\ Syscall(<<Other>>) \in Fed
    BY <2>1, <2>4 DEF Fed
  <2> QED
    BY <2>1, <2>3, <2>4, <2>5
<1>a. \A a \in ViewType : Recall(a, Other) = a
  <2> TAKE a \in ViewType
  <2>1. a = [pages |-> a.pages, regs |-> a.regs]
    BY DEF ViewType
  <2>2. Recall(a, Other) = [pages |-> a.pages, regs |-> a.regs]
    BY <1>5
  <2> QED
    BY <2>1, <2>2
<1> DEFINE Good(w) == /\ Ready(w) /\ ~w.insys /\ w.step /\ w.known = tr.known
                      /\ Idle(Now(replay, w)) /\ View(Now(replay, w)) = View(replay) /\ Held(Now(replay, w)) = Held(replay)
                      /\ Apart(replay.pages) /\ InParts(replay, tr) => InParts(replay, w)
<1>6. Good(e)
  <2>1. CASE sys
    <3> DEFINE u == [tr EXCEPT !.insys = FALSE, !.sysops = <<>>]
    <3>1. s = [tr EXCEPT !.insys = TRUE, !.sysops = <<>>]
      BY <1>2, <2>1 DEF OnSysPre, FlushSys
    <3>2. s.frame = tr.frame /\ s.insys /\ s.sysops = <<>> /\ s \in TraceType
      BY <1>2, <1>5, <3>1 DEF TraceType
    <3>3. Put(s, Other, FALSE) = [s EXCEPT !.sysops = Append(@, Other)]
      BY <1>2, <3>2 DEF Put, Other
    <3>4. Put(s, Other, FALSE) = [tr EXCEPT !.insys = TRUE, !.sysops = <<Other>>]
      <4>1. [s EXCEPT !.sysops = Append(@, Other)] = [s EXCEPT !.sysops = <<Other>>]
        BY <3>2
      <4> QED
        BY <1>2, <3>1, <3>3, <4>1 DEF TraceType
    <3>5. e = Put(u, Syscall(<<Other>>), FALSE)
      <4> DEFINE y == Put(s, Other, FALSE)
      <4>1. y = [tr EXCEPT !.insys = TRUE, !.sysops = <<Other>>]
        BY <3>4
      <4>2. e = FlushSys(y)
        BY DEF OnExit
      <4> HIDE DEF y, e
      <4>3. y.insys /\ y.sysops = <<Other>> /\ [y EXCEPT !.insys = FALSE, !.sysops = <<>>] = u
        BY <1>2, <4>1 DEF TraceType
      <4> QED
        BY <4>2, <4>3 DEF FlushSys
    <3>6. /\ u \in TraceType /\ ~u.insys /\ u.sysops = <<>> /\ u.sent = <<>> /\ u.step = tr.step /\ u.known = tr.known
      BY <1>2, <1>5 DEF TraceType
    <3> HIDE DEF u, e
    <3>7. Ready(u) /\ Now(replay, u) = replay
      BY <3>6, FeedNone DEF Ready, Now
    <3>8. /\ Ready(e) /\ ~e.insys /\ e.step = u.step /\ e.known = u.known
          /\ Now(replay, e) = Feed(Now(replay, u), Syscall(<<Other>>)) /\ Idle(Now(replay, e))
          /\ InParts(replay, u) /\ Apart(Now(replay, e).pages) => InParts(replay, e)
      <4> DEFINE x == Syscall(<<Other>>)
      <4>1. Idle(replay) /\ Ready(u) /\ ~u.insys /\ x \in Fed /\ FALSE \in BOOLEAN
        BY <1>2, <1>5, <3>6, <3>7
      <4> HIDE DEF x
      <4>2. LET w == Put(u, x, FALSE)
            IN  /\ Ready(w) /\ ~w.insys /\ w.sysops = <<>> /\ w.frame # <<>>
                /\ w.step = u.step /\ w.stepAddr = u.stepAddr /\ w.known = u.known
                /\ Now(replay, w) = Feed(Now(replay, u), x) /\ Idle(Now(replay, w))
                /\ InParts(replay, u) /\ Apart(Now(replay, w).pages) => InParts(replay, w)
        BY <4>1, SentBehind
      <4>3. e = Put(u, x, FALSE)
        BY <3>5 DEF x
      <4> QED
        BY <4>2, <4>3 DEF x
    <3>9. /\ View(Now(replay, e)) = RecallAll(View(replay), <<Other>>)
          /\ Now(replay, e).effects = replay.effects
      <4>1. Idle(replay) /\ <<Other>> \in Seq(Calm)
        BY <1>2, <1>5
      <4>2. LET q == Feed(replay, Syscall(<<Other>>))
            IN  View(q) = RecallAll(View(replay), <<Other>>) /\ q.effects = replay.effects
        BY <4>1, CallViews
      <4> QED
        BY <3>7, <3>8, <4>2
    <3>10. View(Now(replay, e)) = View(replay)
      BY <1>2, <1>a, <3>9, RecallSingle
    <3>11. Held(Now(replay, e)) = Held(replay)
      BY <3>9, <3>10 DEF Held
    <3>12. Now(replay, e).pages = replay.pages
      BY <3>10 DEF View
    <3>13. InParts(replay, tr) => InParts(replay, u)
      BY <1>2, <3>6 DEF InParts
    <3> QED
      BY <1>2, <3>6, <3>8, <3>10, <3>11, <3>12, <3>13
  <2>2. CASE ~sys
    <3> DEFINE u == Put(tr, Other, FALSE)
    <3>1. e = FlushSys(u)
      BY <2>2 DEF OnExit
    <3>2. /\ Ready(u) /\ ~u.insys /\ u.step = tr.step /\ u.known = tr.known
          /\ Now(replay, u) = Feed(Now(replay, tr), Other) /\ Idle(Now(replay, u))
          /\ InParts(replay, tr) /\ Apart(Now(replay, u).pages) => InParts(replay, u)
      <4> DEFINE x == Other
      <4>1. Idle(replay) /\ Ready(tr) /\ ~tr.insys /\ x \in Fed /\ FALSE \in BOOLEAN
        BY <1>2, <1>5
      <4> HIDE DEF x
      <4>2. LET w == Put(tr, x, FALSE)
            IN  /\ Ready(w) /\ ~w.insys /\ w.sysops = <<>> /\ w.frame # <<>>
                /\ w.step = tr.step /\ w.stepAddr = tr.stepAddr /\ w.known = tr.known
                /\ Now(replay, w) = Feed(Now(replay, tr), x) /\ Idle(Now(replay, w))
                /\ InParts(replay, tr) /\ Apart(Now(replay, w).pages) => InParts(replay, w)
        BY <4>1, SentBehind
      <4>3. u = Put(tr, x, FALSE)
        BY DEF x
      <4> HIDE DEF u
      <4> QED
        BY <4>2, <4>3 DEF x
    <3> HIDE DEF u, e
    <3>3. e = u
      BY <3>1, <3>2 DEF FlushSys
    <3>4. View(Now(replay, u)) = View(replay) /\ Now(replay, u).effects = Append(replay.effects, Other)
      BY <1>2, <1>5, <3>2, CalmViews
    <3>5. Held(Now(replay, u)) = Held(replay)
      <4>1. RecallAll(View(replay), Append(replay.effects, Other)) = Recall(RecallAll(View(replay), replay.effects), Other)
        BY <1>2, <1>5, RecallOneMore
      <4> QED
        BY <1>2, <1>a, <3>4, <4>1 DEF Held
    <3>6. Now(replay, u).pages = replay.pages
      BY <3>4 DEF View
    <3> QED
      BY <1>2, <3>2, <3>3, <3>4, <3>5, <3>6
  <2> QED
    BY <2>1, <2>2
<1> HIDE DEF e
<1>7. e \in TraceType /\ e.sysops = <<>> /\ NoRet(e.sysops)
  BY <1>6 DEF Ready, NoRet
<1>8. Late(Now(replay, e), e) = Held(replay)
  BY <1>2, <1>6, <1>7, LateIs
<1>9. /\ Ready(t) /\ ~t.insys /\ t.sysops = <<>> /\ t.known = regs
      /\ Now(replay, t).effects = <<>> /\ (~lost => Now(replay, t).regs = regs)
      /\ Now(replay, t).pages = Held(replay).pages
      /\ Orderly(replay, e) => InParts(replay, t)
  <2>1. /\ Idle(replay) /\ Ready(e) /\ e.step /\ regs \in [Regs -> Values] /\ NoRet(e.sysops)
        /\ e.insys => \A x \in Regs \ {Ret} : e.known[x] = regs[x]
        /\ ~lost => Late(Now(replay, e), e).regs = e.known
    BY <1>2, <1>6, <1>7, <1>8
  <2>2. LET w == FlushStep(e, regs)
        IN  /\ Ready(w) /\ ~w.insys /\ w.sysops = <<>> /\ w.frame # <<>> /\ w.known = regs
            /\ Now(replay, w).effects = <<>>
            /\ Late(Now(replay, e), e).regs = e.known => Now(replay, w).regs = regs
            /\ Now(replay, w).pages = Late(Now(replay, e), e).pages
            /\ Orderly(replay, e) => InParts(replay, w)
    BY <2>1, FlushStepLate
  <2> QED
    BY <1>8, <2>1, <2>2
<1> HIDE DEF t
<1>10. /\ Ready(n) /\ ~n.insys /\ n.sysops = <<>> /\ n.known = regs /\ n.sent = t.sent
  <2>1. t \in TraceType /\ <<>> \in Seq(Fed)
    BY <1>9 DEF Ready
  <2>2. Append(t.packed, Frame(t.frame)) \in Seq({Frame(ops) : ops \in Seq(Fed)})
    BY <2>1 DEF TraceType
  <2>3. n \in TraceType /\ n.insys = t.insys /\ n.sysops = t.sysops /\ n.known = t.known /\ n.sent = t.sent
    BY <2>1, <2>2 DEF TraceType
  <2> HIDE DEF n
  <2> QED
    BY <1>9, <2>3 DEF Ready
<1> HIDE DEF n
<1>11. /\ Now(replay, n) = Now(replay, t) /\ (InParts(replay, t) => InParts(replay, n))
       /\ Held(Now(replay, n)) = View(Now(replay, t)) /\ Late(Now(replay, n), n) = View(Now(replay, t))
  BY <1>9, <1>10, RecallNone DEF Now, InParts, Held, Late
<1>12. (~lost => View(Now(replay, t)).regs = regs) /\ View(Now(replay, t)).pages = Held(replay).pages
  BY <1>9 DEF View
<1>13. ASSUME ~skewed', rewinds < 2
       PROVE  ~skewed /\ Matches(replay, n, machine'.cells)
  <2>1. ~skewed /\ InParts(replay, tr) /\ Apart(Held(replay).pages) /\ Cells(Held(replay).pages) = machine.cells
    BY <1>1, <1>2, <1>13 DEF FollowInv, Follows, Matches, Orderly
  <2>2. Apart(replay.pages)
    BY <1>2, <2>1, PartsEnd
  <2>3. Orderly(replay, e)
    BY <1>6, <1>8, <2>1, <2>2 DEF Orderly
  <2> QED
    BY <1>1, <1>9, <1>11, <1>12, <2>1, <2>3 DEF Matches, Orderly
<1>14. /\ Follows'
       /\ Ready(tr') /\ tr'.known = n.known /\ tr'.insys = n.insys /\ tr'.sysops = n.sysops
  BY <1>1, <1>4, <1>10, <1>11, <1>12, <1>13, RecordFollows DEF n, t, e
<1>15. Handed'
  BY <1>1, <1>10, <1>14 DEF Handed, NoRet
<1>16. Quiet'
  BY <1>1 DEF Quiet
<1> QED
  BY <1>14, <1>15, <1>16 DEF FollowInv

LEMMA PromptFollows ==
  ASSUME TraceInv, FollowInv, Stop \/ Resume
  PROVE  FollowInv'
<1>1. /\ again' = again /\ lost' = lost /\ machine' = machine /\ tr' = tr /\ replay' = replay /\ log' = log /\ skewed' = skewed /\ rewinds' = rewinds
      /\ at \in {"arrived", "stopped"} /\ at' \in {"stopped", "start"}
  BY DEF Stop, Resume
<1>2. Follows'
  BY <1>1 DEF FollowInv, Follows
<1>3. Handed'
  <2>1. ~tr.insys
    BY <1>1 DEF TraceInv, AtHook
  <2> QED
    BY <1>1, <2>1 DEF FollowInv, Handed
<1>4. Quiet'
  BY <1>1 DEF FollowInv, Quiet
<1> QED
  BY <1>2, <1>3, <1>4 DEF FollowInv

LEMMA RestoredPageIs ==
  ASSUME NEW p \in Page
  PROVE  RestoredPage(p) \in Seq(Calm) /\ Mute(RestoredPage(p))
<1> DEFINE r == <<p.addr, End(p)>>
           u == MemUnmapOp(r)
           n == MemMapOp(r, p.prot)
           o == MemWriteOp(r, p.data)
<1>1. /\ p.data \in Seq(Byte) /\ Len(p.data) = p.size /\ p.size \in Nat /\ p.prot \in Prots /\ p.addr \in Nat
      /\ End(p) = p.addr + p.size /\ p.addr < End(p)
  BY PageHas
<1>2. r \in Spans /\ r[1] < r[2] /\ Len(p.data) = Size(r)
  BY <1>1 DEF Spans, Size
<1>3. RestoredPage(p) = <<u, n, o>> /\ u.op # "reg" /\ n.op # "reg" /\ o.op # "reg"
  BY DEF RestoredPage, MemUnmapOp, MemMapOp, MemWriteOp
<1> HIDE DEF r
<1>4. u \in Calm /\ n \in Calm /\ o \in Calm
  BY <1>1, <1>2, RangeOperations, WritesAreCalm
<1> HIDE DEF u, n, o
<1>5. <<u, n, o>> \in Seq(Calm)
  BY <1>4
<1>6. NoReg(<<u, n, o>>)
  BY <1>3 DEF NoReg
<1> QED
  BY <1>3, <1>5, <1>6, QuietIsMute

LEMMA RestoredIsMute ==
  ASSUME NEW to \in ReplayType
  PROVE  Mute(Restored(to))
<1> DEFINE pages == to.pages
           ss == [k \in DOMAIN pages |-> RestoredPage(pages[k])]
<1>1. pages \in Seq(Page) /\ Restored(to) = FlattenSeq(ss)
  BY DEF ReplayType, Restored, RestoredPage
<1> HIDE DEF pages
<1>2. /\ DOMAIN ss = 1..Len(pages) /\ Len(pages) \in Nat
      /\ \A k \in 1..Len(pages) : ss[k] \in Seq(Calm) /\ Mute(ss[k])
  BY <1>1, RestoredPageIs
<1>3. ss = [k \in 1..Len(pages) |-> ss[k]]
  BY <1>2
<1> HIDE DEF ss
<1>4. ss \in [1..Len(pages) -> Seq(Calm)]
  BY <1>2, <1>3
<1>5. ss \in Seq(Seq(Calm))
  BY <1>2, <1>4
<1> QED
  BY <1>1, <1>2, <1>5, MuteFlat

LEMMA RewindFollows ==
  ASSUME TraceInv, FollowInv, NEW by \in Nat, NEW addr \in Nat, Rewind(by, addr), rewinds' = rewinds + 1
  PROVE  FollowInv'
<1>0. PICK seen \in {Replayed} : RewindTo(seen, by, addr)
  BY DEF Rewind
<1> DEFINE target == IF by > 0 THEN replay.inscount - by ELSE 0
           found == {i \in DOMAIN log : Found(i, target, addr, seen)}
           stop == IF found = {} THEN Len(log) + 1 ELSE Min(found)
           to == seen[stop]
           t == PutAll(tr, Restored(to))
           regs == [n \in Regs |-> IF replay.regs[n] = to.regs[n] THEN machine.regs[n] ELSE to.regs[n]]
<1>1. /\ at = "stopped" /\ at' = at /\ by <= replay.inscount
      /\ machine' = [pc |-> to.pc, regs |-> regs, cells |-> Onto(Cells(to.pages), machine.cells)]
      /\ tr' = [t EXCEPT !.sent = <<>>, !.step = FALSE, !.stepAddr = 0, !.known = regs]
      /\ replay' = [FeedAll(replay, t.sent) EXCEPT !.pages = to.pages, !.regs = to.regs, !.pc = to.pc,
                                                   !.inscount = to.inscount]
      /\ skewed' = (skewed \/ again \/ DOMAIN machine.cells # DOMAIN Cells(to.pages))
      /\ lost' = (lost \/ again) /\ again' = FALSE
  BY <1>0 DEF Rewind, RewindTo
<1>2. /\ Idle(replay) /\ replay \in ReplayType /\ Ready(tr) /\ tr \in TraceType /\ tr.sent = <<>>
      /\ Now(replay, tr) = replay /\ (~lost => Late(replay, tr).regs = tr.known)
      /\ machine \in Machine /\ machine.regs \in [Regs -> Values]
      /\ View(replay) \in ViewType /\ replay.effects \in Seq(Calm) /\ rewinds \in Nat
  BY InBetween, NowIs DEF Idle, ReplayType, TraceInv, TypesOK
<1>3. /\ ~tr.insys /\ tr.sysops = <<>> /\ Late(replay, tr) = Held(replay)
      /\ ~lost' => tr.known = machine.regs
  <2>1. ~tr.insys
    BY <1>1 DEF TraceInv, AtHook
  <2> QED
    BY <1>1, <2>1, InBetween DEF FollowInv, Handed
<1>4. ~lost' => Mute(replay.effects) /\ (rewinds = 0 => replay.effects = <<>>)
  BY <1>1 DEF FollowInv, Quiet
<1>5. IsLog(log) /\ Len(log) \in Nat /\ Len(log) >= 2 /\ log \in Seq(Fed \cup Keyframes)
  <2>1. IsLog(log) /\ Len(log) # 1
    BY <1>1 DEF TraceInv, LogReplays
  <2>2. Len(log) \in Nat /\ Len(log) >= 1 /\ log \in Seq(Fed \cup Keyframes)
    BY <2>1 DEF IsLog
  <2> DEFINE n == Len(log)
  <2>3. n \in Nat /\ n >= 1 /\ n # 1
    BY <2>1, <2>2
  <2> HIDE DEF n
  <2>4. n >= 2
    BY <2>3
  <2> QED
    BY <2>1, <2>2, <2>4 DEF n
<1>6. stop \in 3..(Len(log) + 1)
  <2>1. target \in Nat
    <3>1. replay.inscount \in Nat
      BY <1>2 DEF Idle, ReplayType
    <3>2. by \in Nat /\ by <= replay.inscount
      BY <1>1
    <3>3. \A n \in Nat : by <= n => n - by \in Nat
      BY <3>2
    <3> QED
      BY ONLY <3>1, <3>2, <3>3, 0 \in Nat
  <2> HIDE DEF target
  <2> QED
    BY <1>0, <1>5, <2>1, StopsBehind
<1> HIDE DEF target, found, stop
<1>7. /\ Idle(to) /\ (Prefixed(log) => Apart(to.pages))
  <2> DEFINE n == stop - 1
             r == FeedAll(NewReplay, SubSeq(log, 1, n))
  <2>1. to = r
    BY <1>0, <1>5, <1>6 DEF Replayed
  <2>2. n \in 0..Len(log)
    BY <1>5, <1>6
  <2> HIDE DEF n
  <2>3. Idle(r)
    BY <1>5, <2>2, BeginningReplays
  <2>4. Prefixed(log) => Apart(r.pages)
    BY <2>2 DEF Prefixed
  <2> HIDE DEF r, to
  <2> QED
    BY <2>1, <2>3, <2>4
<1> HIDE DEF to
<1>8. to \in ReplayType /\ to.regs \in [Regs -> Values] /\ to.pages \in Seq(Page)
  BY <1>7 DEF Idle, ReplayType
<1>9. regs \in [Regs -> Values] /\ (~lost' => regs = to.regs)
  <2> SUFFICES ASSUME ~lost'
               PROVE  regs = to.regs
    BY <1>2, <1>8
  <2>1. replay.regs = machine.regs
    <3>1. Held(replay).regs = View(replay).regs
      BY <1>2, <1>4 DEF Held, Mute
    <3>2. ~lost
      BY <1>1
    <3> QED
      BY <1>2, <1>3, <3>1, <3>2 DEF View
  <2>2. \A n \in Regs : (IF replay.regs[n] = to.regs[n] THEN machine.regs[n] ELSE to.regs[n]) = to.regs[n]
    BY <2>1
  <2> QED
    BY <1>8, <2>2
<1> HIDE DEF regs
<1>10. Restored(to) \in Seq(Calm) /\ Mute(Restored(to))
  BY <1>8, RestoredIsCalm, RestoredIsMute
<1> DEFINE r == Now(replay, t)
           m == View(to)
<1>11. /\ Waits(tr, t)
       /\ \A a \in ViewType : LateOn(a, replay, t) = RecallAll(LateOn(a, replay, tr), Restored(to))
  BY <1>2, <1>8, <1>10, PutAllLate
<1> HIDE DEF t
<1>12. Ready(t) /\ t \in TraceType /\ ~t.insys /\ t.sysops = <<>>
  BY <1>3, <1>11 DEF Waits, Kept, Ready
<1>13. Idle(r)
  BY <1>2, <1>12, NowIs
<1>14. \A a \in ViewType : RecallAll(a, r.effects) = RecallAll(RecallAll(a, replay.effects), Restored(to))
  <2> SUFFICES ASSUME NEW a \in ViewType
               PROVE  RecallAll(a, r.effects) = RecallAll(RecallAll(a, replay.effects), Restored(to))
    OBVIOUS
  <2>1. LateOn(a, replay, t) = RecallAll(a, r.effects) /\ LateOn(a, replay, tr) = RecallAll(a, replay.effects)
    BY <1>2, <1>3, <1>12, RecallNone DEF LateOn
  <2> QED
    BY <1>11, <2>1
<1>15. /\ replay' \in ReplayType /\ replay'.effects = r.effects /\ View(replay') = m /\ replay'.pages = to.pages
  <2>1. replay' = [r EXCEPT !.pages = to.pages, !.regs = to.regs, !.pc = to.pc, !.inscount = to.inscount]
    BY <1>1 DEF Now
  <2> HIDE DEF r
  <2>2. to.pc \in Nat /\ to.inscount \in Nat /\ r \in ReplayType
    BY <1>8, <1>13 DEF ReplayType, Idle
  <2>3. /\ replay' \in ReplayType /\ replay'.effects = r.effects /\ replay'.pages = to.pages /\ replay'.regs = to.regs
    BY <1>8, <2>1, <2>2 DEF ReplayType
  <2> QED
    BY <2>3 DEF View
<1>16. /\ Ready(tr') /\ ~tr'.insys /\ tr'.sysops = <<>> /\ tr'.known = regs /\ tr'.sent = <<>>
  <2>1. <<>> \in Seq(Fed) /\ FALSE \in BOOLEAN /\ 0 \in Nat
    OBVIOUS
  <2>2. /\ tr' \in TraceType /\ ~tr'.insys /\ tr'.sysops = <<>> /\ tr'.known = regs /\ tr'.sent = <<>>
    BY <1>1, <1>8, <1>9, <1>12, <2>1 DEF TraceType
  <2> QED
    BY <2>2 DEF Ready
<1>17. m \in ViewType /\ RecallAll(m, r.effects) \in ViewType
  BY <1>8, <1>13, ViewIs, NowIs, RecallAllHas DEF Idle, ReplayType
<1>18. ~lost' => Mute(r.effects)
  <2> SUFFICES ASSUME ~lost', NEW a \in ViewType
               PROVE  RecallAll(a, r.effects).regs = a.regs
    BY DEF Mute
  <2>1. RecallAll(a, replay.effects) \in ViewType /\ RecallAll(a, replay.effects).regs = a.regs
    BY <1>2, <1>4, RecallAllHas DEF Mute
  <2>2. RecallAll(RecallAll(a, replay.effects), Restored(to)).regs = a.regs
    BY <1>10, <2>1 DEF Mute
  <2> QED
    BY <1>14, <2>2
<1> HIDE DEF r
<1>19. /\ Held(replay') = RecallAll(m, r.effects) /\ Late(replay', tr') = RecallAll(m, r.effects)
       /\ Now(replay', tr') = replay'
  BY <1>15, <1>16, RecallNone, FeedNone DEF Held, Late, Now
<1>20. ~lost' => Late(replay', tr').regs = tr'.known
  BY <1>9, <1>16, <1>17, <1>18, <1>19 DEF Mute, m, View
<1>21. ASSUME ~skewed', rewinds' < 2
       PROVE  Matches(replay', tr', machine'.cells)
  <2>1. ~skewed /\ rewinds = 0 /\ DOMAIN machine.cells = DOMAIN Cells(to.pages)
    <3>1. rewinds = 0
      BY <1>2, <1>21
    <3>2. ~skewed /\ DOMAIN machine.cells = DOMAIN Cells(to.pages)
      BY <1>1, <1>21, Zenon
    <3> QED
      BY <3>1, <3>2
  <2>2. Apart(to.pages)
    BY <1>7, <2>1 DEF FollowInv, Follows
  <2>3. Shown(m, Cells(to.pages))
    BY <1>17, <2>2 DEF Shown, m, View
  <2>4. Shown(RecallAll(m, Restored(to)), Cells(to.pages))
    BY <1>8, <2>2, <2>3, RestoredShown
  <2>5. RecallAll(m, r.effects) = RecallAll(m, Restored(to))
    <3>1. replay.effects = <<>>
      BY <1>1, <1>21, <2>1 DEF FollowInv, Quiet, Follows
    <3> QED
      BY <1>14, <1>17, <3>1, RecallNone
  <2>6. machine'.cells = Cells(to.pages)
    <3> DEFINE c == Cells(to.pages)
    <3>1. machine'.cells = Onto(c, machine.cells) /\ DOMAIN machine.cells = DOMAIN c /\ IsFun(c)
      BY <1>1, <2>1, CellsAre
    <3> HIDE DEF c
    <3>2. Onto(c, machine.cells) = [x \in DOMAIN c |-> c[x]]
      BY <3>1 DEF Onto
    <3> QED
      BY <3>1, <3>2 DEF IsFun, c
  <2>7. InParts(replay', tr')
    <3>1. Len(tr'.sent) = 0 /\ SubSeq(<<>>, 1, 0) = <<>> /\ \A i \in 0..0 : i = 0
      BY <1>16
    <3> QED
      BY <1>15, <1>16, <2>2, <3>1, FeedNone DEF InParts
  <2> QED
    BY <1>19, <2>4, <2>5, <2>6, <2>7 DEF Matches, Orderly, Shown
<1>22. Follows'
  <2>1. rewinds' # 0
    BY <1>2
  <2>2. lost' \in BOOLEAN
    BY <1>1 DEF FollowInv, Follows, TraceInv, TypesOK
  <2> QED
    BY <1>20, <1>21, <2>1, <2>2 DEF Follows
<1>23. Handed'
  <2>1. machine'.regs = regs
    BY <1>1
  <2> QED
    BY <1>1, <1>16, <2>1 DEF Handed, NoRet
<1>24. Quiet'
  <2>1. rewinds' # 0
    BY <1>2
  <2> QED
    BY <1>15, <1>18, <2>1 DEF Quiet
<1> QED
  BY <1>22, <1>23, <1>24 DEF FollowInv

LEMMA NextFollows ==
  ASSUME TraceInv, FollowInv, [Next]_vars
  PROVE  FollowInv'
<1>1. CASE Arrive
  BY <1>1, ArriveFollows
<1>2. CASE Work
  BY <1>2, WorkFollows
<1>3. CASE SyscallWork
  BY <1>3, SyscallFollows
<1>4. CASE Finish
  BY <1>4, FinishFollows
<1>5. CASE Stop \/ Resume
  BY <1>5, PromptFollows
<1>6. CASE RewindSome
  <2>1. PICK by \in 0..MaxSteps, addr \in Code \cup {0} : Rewind(by, addr)
    BY <1>6 DEF RewindSome
  <2>2. by \in Nat /\ addr \in Nat
    BY TraceAssumption
  <2>3. rewinds' = rewinds + 1
    BY <2>1 DEF Rewind
  <2> QED
    BY <2>1, <2>2, <2>3, RewindFollows
<1>7. CASE UNCHANGED vars
  BY <1>7 DEF vars, FollowInv, Handed, Quiet, Follows
<1> QED
  BY <1>1, <1>2, <1>3, <1>4, <1>5, <1>6, <1>7 DEF Next

\* What the operations that wait come to, when they are applied in the order in which
\* they will be, is the machine's memory and the registers that the recorder knows
\* (trace.go:232-320, replay.go:81-127).
THEOREM FollowInvariant == Spec => []FollowInv
<1>1. TraceInv /\ FollowInv /\ [Next]_vars => FollowInv'
  BY NextFollows
<1> QED
  BY InitFollows, <1>1, TraceInvariant, PTL DEF Spec

\* With what waits for the next step, and what a system call has recorded so far, the
\* live replay has the memory of the machine, and, in front of an instruction, its
\* registers (trace.go:232-310, replay.go:43-127); its call stack goes down
\* (callstack.go:22-58).
THEOREM KeepsInStep == Spec => []InStep
<1>1. TraceInv /\ FollowInv => InStep
  <2> SUFFICES ASSUME TraceInv, FollowInv
               PROVE  InStep
    OBVIOUS
  <2>1. /\ Idle(replay) /\ replay \in ReplayType /\ tr \in TraceType
        /\ (~lost => Late(replay, tr).regs = tr.known) /\ Now(replay, tr) = replay
        /\ replay.effects \in Seq(Calm) /\ tr.sysops \in Seq(Calm)
    BY InBetween, NowIs
  <2> DEFINE first == UpdateAll(replay, replay.effects)
  <2>2. View(first) = Held(replay) /\ first \in ReplayType
    BY <2>1, UpdatesRecall, CalmUpdates DEF Held, Same
  <2> HIDE DEF first
  <2>3. View(UpdateAll(first, tr.sysops)) = Late(replay, tr)
    BY <2>1, <2>2, UpdatesRecall DEF Late
  <2>4. Caught.pages = Late(replay, tr).pages /\ Caught.regs = Late(replay, tr).regs
    BY <2>3 DEF Caught, View, first
  <2>5. ~skewed /\ rewinds < 2 => Cells(Caught.pages) = machine.cells
    BY <2>1, <2>4 DEF FollowInv, Follows, Matches
  <2>6. at = "arrived" /\ ~again /\ ~lost => Caught.regs = machine.regs
    BY <2>1, <2>4 DEF FollowInv, Handed
  <2>7. \A i, j \in DOMAIN replay.stack : i < j => replay.stack[i].sp > replay.stack[j].sp
    BY <2>1 DEF ReplayType, Calls, Falling
  <2> QED
    BY <2>5, <2>6, <2>7 DEF InStep
<1> QED
  BY <1>1, TraceInvariant, FollowInvariant, PTL
=============================================================================
