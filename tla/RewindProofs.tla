---------------------------- MODULE RewindProofs ----------------------------
(***************************************************************************)
(* That the log of a trace and its file are told right: a rewind by some   *)
(* instructions is back at the machine there was when the others had been  *)
(* run, and who reads the file is where the replay of the task is, for any *)
(* registers, memory, code and kernels.                                    *)
(***************************************************************************)
EXTENDS TraceProofs

-----------------------------------------------------------------------------
(* The log.  A step that no jump and no system call follows is plain: the  *)
(* log up to there replays to the machine between its instruction and the  *)
(* next.  A step that one follows does not, for the jump or the call has   *)
(* more to say of the same instruction.                                    *)

\* A place of the log behind a step that no jump and no system call follows.
Plainly(l, i) == l[i] = Step /\ (i < Len(l) => l[i + 1].op \notin {"jmp", "syscall"})
\* A replay that is where the machine is, with what the machine has.
Shows(r, m, sk) == r.pc = m.pc /\ r.regs = m.regs /\ (~sk => Cells(r.pages) = m.cells)
\* A replay that is at the machine of its count.
Told(r, p, sk) == r.inscount + 1 \in DOMAIN p /\ Shows(r, p[r.inscount + 1], sk)
\* A log that is replayed, up to each of its plain steps, to the machine of the count.
Telling(l, p, sk) == \A i \in DOMAIN l : Plainly(l, i) => Told(FeedAll(NewReplay, SubSeq(l, 1, i)), p, sk)
\* The machines that were stay as they were.
Grows(p, q) == \A i \in DOMAIN p : i \in DOMAIN q /\ q[i] = p[i]

\* A log that tells of each of its plain steps goes on telling when operations are
\* sent behind it, of which at most the last is a plain step.
LEMMA TellingGrows ==
  ASSUME NEW S, NEW l \in Seq(S), NEW s \in Seq(S), NEW p, NEW q, Grows(p, q),
         NEW sk, NEW later, sk => later, Telling(l, p, sk),
         \A i \in DOMAIN s : Plainly(s, i) => i = Len(s) /\ Told(FeedAll(NewReplay, l \o s), q, later)
  PROVE  Telling(l \o s, q, later)
<1> DEFINE w == l \o s
<1>1. /\ w \in Seq(S) /\ Len(w) = Len(l) + Len(s) /\ Len(l) \in Nat /\ Len(s) \in Nat
      /\ \A i \in 1..Len(l) : w[i] = l[i]
      /\ \A i \in 1..Len(s) : w[Len(l) + i] = s[i]
  BY JoinedIs
<1>2. \A i \in 0..Len(w) : i <= Len(l) => SubSeq(w, 1, i) = SubSeq(l, 1, i)
  BY BeginningOf
<1>3. DOMAIN l = 1..Len(l) /\ DOMAIN s = 1..Len(s) /\ DOMAIN w = 1..Len(w) /\ SubSeq(w, 1, Len(w)) = w
  <2>1. DOMAIN w = 1..Len(w) /\ SubSeq(w, 1, Len(w)) = w
    <3> HIDE DEF w
    <3> QED
      BY <1>1, WholePart
  <2> QED
    BY <2>1
<1> HIDE DEF w
<1>4. ASSUME NEW i \in DOMAIN w, Plainly(w, i)
      PROVE  Told(FeedAll(NewReplay, SubSeq(w, 1, i)), q, later)
  <2>1. CASE i <= Len(l)
    <3>1. i \in DOMAIN l /\ w[i] = l[i] /\ SubSeq(w, 1, i) = SubSeq(l, 1, i)
      BY <1>1, <1>2, <1>3, <2>1
    <3>2. i < Len(l) => i < Len(w) /\ w[i + 1] = l[i + 1]
      BY <1>1, <1>3, <2>1
    <3>3. Plainly(l, i)
      BY <1>4, <3>1, <3>2 DEF Plainly
    <3> DEFINE r == FeedAll(NewReplay, SubSeq(l, 1, i))
    <3>4. Told(r, p, sk)
      BY <3>1, <3>3 DEF Telling
    <3> HIDE DEF r
    <3>5. Told(r, q, later)
      <4>1. r.inscount + 1 \in DOMAIN q /\ q[r.inscount + 1] = p[r.inscount + 1]
        BY <3>4 DEF Told, Grows
      <4> QED
        BY <3>4, <4>1 DEF Told, Shows
    <3> QED
      BY <3>1, <3>5 DEF r
  <2>2. CASE i > Len(l)
    <3> DEFINE k == i - Len(l)
    <3>1. k \in 1..Len(s) /\ i = Len(l) + k
      BY <1>1, <1>3, <2>2
    <3>2. w[i] = s[k]
      BY <1>1, <3>1
    <3>3. k < Len(s) => i < Len(w) /\ w[i + 1] = s[k + 1]
      <4> SUFFICES ASSUME k < Len(s)
                   PROVE  i < Len(w) /\ w[i + 1] = s[k + 1]
        OBVIOUS
      <4>1. k + 1 \in 1..Len(s) /\ i + 1 = Len(l) + (k + 1)
        BY <1>1, <3>1
      <4>2. w[Len(l) + (k + 1)] = s[k + 1]
        BY <1>1, <4>1
      <4> QED
        BY <1>1, <3>1, <4>1, <4>2
    <3> HIDE DEF k
    <3>4. Plainly(s, k)
      BY <1>4, <3>2, <3>3 DEF Plainly
    <3>5. k = Len(s) /\ Told(FeedAll(NewReplay, w), q, later)
      BY <1>3, <3>1, <3>4 DEF w
    <3>6. i = Len(w)
      BY <1>1, <3>1, <3>5
    <3> QED
      BY <1>3, <3>5, <3>6
  <2> QED
    BY <1>1, <1>3, <2>1, <2>2
<1> QED
  BY <1>4 DEF Telling, w

\* None of these is a step.
LEMMA CalmIsBare ==
  ASSUME NEW s \in Seq(Calm), NEW i \in DOMAIN s
  PROVE  ~Plainly(s, i)
  BY CalmKinds DEF Plainly, Step

\* What FlushStep sends.
LEMMA FlushStepEnds ==
  ASSUME NEW t \in TraceType, t.step, t.sent = <<>>, NEW regs \in [Regs -> Values]
  PROVE  \E more \in Seq(Calm) :
           FlushStep(t, regs).sent = more \o (IF t.insys THEN <<Step, Syscall(t.sysops)>> ELSE <<Step>>)
<1> DEFINE sys == [t EXCEPT !.insys = FALSE, !.sysops = <<>>]
           with == RegUpdate(sys, regs)
           ready == [with EXCEPT !.step = FALSE]
           done == Put(ready, Step, FALSE)
           last == IF t.insys THEN Put(done, Syscall(t.sysops), FALSE) ELSE done
<1>0. FlushStep(t, regs) = last
  BY DEF FlushStep
<1>1. sys \in TraceType /\ ~sys.insys /\ sys.sent = <<>> /\ t.sysops \in Seq(Calm) /\ t.insys \in BOOLEAN
  <2>1. <<>> \in Seq(Calm)
    OBVIOUS
  <2> QED
    BY <2>1 DEF TraceType
<1> HIDE DEF sys
<1>2. Kept(sys, with)
  BY <1>1, RegUpdateKeeps
<1> HIDE DEF with
<1>3. PICK more \in Seq(Calm) : with.sent = <<>> \o more
  BY <1>1, <1>2 DEF Kept
<1>4. ready \in TraceType /\ ~ready.insys /\ ready.sent = more
  <2>1. with \in TraceType /\ ~with.insys
    BY <1>1, <1>2 DEF Kept
  <2>2. ready \in TraceType /\ ~ready.insys /\ ready.sent = with.sent
    BY <2>1 DEF TraceType
  <2>3. <<>> \o more = more
    OBVIOUS
  <2> QED
    BY <1>3, <2>2, <2>3
<1> HIDE DEF ready
<1>5. Step \in Fed /\ Syscall(t.sysops) \in Fed
  BY <1>1 DEF Fed
<1>6. done \in TraceType /\ ~done.insys /\ done.sent = Append(more, Step)
  <2>1. LET u == Put(ready, Step, FALSE) IN u \in TraceType /\ u.sent = Append(ready.sent, Step) /\ u.insys = ready.insys
    BY <1>4, <1>5, PutSends
  <2> QED
    BY <1>4, <2>1
<1> HIDE DEF done
<1>7. /\ ~t.insys => last = done
      /\ t.insys => last.sent = Append(Append(more, Step), Syscall(t.sysops))
  <2> DEFINE c == Syscall(t.sysops)
  <2> HIDE DEF c
  <2>1. LET u == Put(done, c, FALSE) IN u.sent = Append(done.sent, c)
    BY <1>5, <1>6, PutSends DEF c
  <2> QED
    BY <1>6, <2>1 DEF c
<1> HIDE DEF last
<1> DEFINE a == Step
           b == Syscall(t.sysops)
<1> HIDE DEF a, b
<1>8. Append(more, a) = more \o <<a>> /\ Append(Append(more, a), b) = more \o <<a, b>>
  OBVIOUS
<1> QED
  BY <1>0, <1>1, <1>6, <1>7, <1>8 DEF a, b

\* One step further, in a system call or not.
LEMMA FlushStepMoves ==
  ASSUME NEW r, Idle(r), NEW t \in TraceType, t.step, t.sent = <<>>, NEW regs \in [Regs -> Values]
  PROVE  Idle(FeedAll(r, FlushStep(t, regs).sent)) /\ FeedAll(r, FlushStep(t, regs).sent).pc = r.pc + 1
<1>1. PICK more \in Seq(Calm) :
        FlushStep(t, regs).sent = more \o (IF t.insys THEN <<Step, Syscall(t.sysops)>> ELSE <<Step>>)
  BY FlushStepEnds
<1>2. t.sysops \in Seq(Calm) /\ Calm \subseteq Fed /\ Step \in Fed /\ Syscall(t.sysops) \in Fed
  BY DEF TraceType, Fed
<1> DEFINE a == FeedAll(r, more)
           b == Feed(a, Step)
           sent == FlushStep(t, regs).sent
<1>3. Stays(r, a) /\ more \in Seq(Fed)
  BY <1>2, FeedAllCalm
<1>4. Idle(b) /\ b.pc = r.pc + 1
  <2> HIDE DEF a
  <2> QED
    BY <1>3, FeedStep DEF Stays
<1>5. CASE ~t.insys
  <2> DEFINE steps == <<Step>>
  <2>1. sent = more \o steps /\ steps \in Seq(Fed)
    BY <1>1, <1>2, <1>5
  <2>2. FeedAll(a, steps) = b
    BY FeedSingle
  <2> HIDE DEF steps, sent, b
  <2>3. FeedAll(r, sent) = b
    BY <1>3, <2>1, <2>2, FeedMore
  <2> QED
    BY <1>4, <2>3 DEF sent
<1>6. CASE t.insys
  <2> DEFINE c == Syscall(t.sysops)
             steps == <<Step>>
             both == <<Step, c>>
  <2>1. steps \in Seq(Fed) /\ both = Append(steps, c) /\ both \in Seq(Fed)
    BY <1>2
  <2>2. sent = more \o both
    BY <1>1, <1>6
  <2>3. FeedAll(a, steps) = b
    BY FeedSingle
  <2>4. Stays(b, Feed(b, c))
    <3> HIDE DEF b
    <3> QED
      BY <1>2, <1>4, FeedSyscall
  <2> HIDE DEF sent, steps, c, both, b
  <2>5. FeedAll(r, sent) = FeedAll(a, both)
    <3>1. both \in Seq(Fed) /\ more \in Seq(Fed)
      BY <1>3, <2>1
    <3>2. FeedAll(r, more \o both) = FeedAll(FeedAll(r, more), both)
      BY <3>1, FeedMore
    <3> QED
      BY <2>2, <3>2
  <2> HIDE DEF a
  <2>6. FeedAll(a, both) = Feed(b, c)
    BY <2>1, <2>3, FeedOneMore
  <2> QED
    BY <1>4, <2>4, <2>5, <2>6 DEF Stays, sent
<1> QED
  BY <1>5, <1>6

\* The log as it is, until the first rewind and until the last frame.
Retold == rewinds = 0 /\ at # "done" => Telling(log, past, skewed)
\* The replay is at the instruction that is run, or at the one before it.
Led ==
  rewinds = 0 =>
    /\ at = "arrived" => replay.pc = machine.pc
    /\ at = "next" => replay.pc + 1 = machine.pc
\* What the replay shows of the machine, when no instruction is half done.
Here ==
  /\ replay.regs = machine.regs /\ (~skewed => Cells(replay.pages) = machine.cells)
  /\ replay.inscount + 1 \in DOMAIN past /\ past[replay.inscount + 1] = machine

\* What the replay shows, between instructions, is the machine that `past` has last.
LEMMA ShownHere ==
  TraceInv /\ FollowInv /\ rewinds = 0 /\ at \in {"start", "arrived", "stopped"} /\ ~again => Here
<1> SUFFICES ASSUME TraceInv, FollowInv, rewinds = 0, at \in {"start", "arrived", "stopped"}, ~again
             PROVE  Here
  OBVIOUS
<1>1. ~tr.insys
  BY DEF TraceInv, AtHook
<1>2. tr.known = machine.regs /\ replay.effects = <<>> /\ ~lost
  BY DEF FollowInv, Handed, Quiet, Follows
<1>3. Late(replay, tr) = Held(replay) /\ Late(replay, tr).regs = tr.known /\ Now(replay, tr) = replay
  BY <1>1, <1>2, InBetween
<1>4. Held(replay) = View(replay)
  BY <1>2, RecallNone DEF Held
<1>5. ~skewed => Cells(Late(replay, tr).pages) = machine.cells
  BY <1>3 DEF FollowInv, Follows, Matches
<1>6. replay.regs = machine.regs /\ (~skewed => Cells(replay.pages) = machine.cells)
  BY <1>2, <1>3, <1>4, <1>5 DEF View
<1>7. replay.inscount + 1 = Len(past) /\ replay.inscount \in Nat /\ Last(past) = machine /\ past \in Seq(Machine)
  BY DEF TraceInv, TypesOK, Counted, Idle, ReplayType
<1>8. replay.inscount + 1 \in DOMAIN past /\ past[replay.inscount + 1] = machine
  BY <1>7 DEF Last
<1> QED
  BY <1>6, <1>8 DEF Here

\* A step is plain only at the end, for what comes behind it is not known there yet.
LEMMA StepEnds ==
  ASSUME NEW more \in Seq(Calm), NEW w, w = more \o <<Step>>, NEW i \in DOMAIN w, Plainly(w, i)
  PROVE  i = Len(w)
<1> DEFINE a == Step
<1>1. a.op = "step"
  BY DEF Step
<1>2. \A k \in 1..Len(more) : more[k] # a
  <2> HIDE DEF a
  <2> TAKE k \in 1..Len(more)
  <2>1. more[k] \in Calm
    OBVIOUS
  <2>2. more[k].op # "step"
    BY <2>1, CalmKinds
  <2> QED
    BY <1>1, <2>2
<1>3. w[i] = a
  BY DEF Plainly
<1> HIDE DEF a
<1>4. Len(w) = Len(more) + 1 /\ DOMAIN w = 1..Len(w) /\ (\A k \in 1..Len(more) : w[k] = more[k]) /\ Len(more) \in Nat
  BY DEF a
<1>5. i \notin 1..Len(more)
  BY <1>2, <1>3, <1>4
<1> QED
  BY <1>4, <1>5

\* A step that a jump or a system call follows is not plain.
LEMMA StepFollowed ==
  ASSUME NEW more \in Seq(Calm), NEW op, op.op \in {"jmp", "syscall"}
  PROVE  LET w == more \o <<Step, op>> IN \A i \in DOMAIN w : ~Plainly(w, i)
<1> DEFINE a == Step
           w == more \o <<Step, op>>
<1>1. a.op = "step"
  BY DEF Step
<1>2. \A k \in 1..Len(more) : more[k] # a
  <2> HIDE DEF a
  <2> TAKE k \in 1..Len(more)
  <2>1. more[k] \in Calm
    OBVIOUS
  <2>2. more[k].op # "step"
    BY <2>1, CalmKinds
  <2> QED
    BY <1>1, <2>2
<1> SUFFICES ASSUME NEW i \in DOMAIN w, Plainly(w, i)
             PROVE  FALSE
  OBVIOUS
<1>3. w[i] = a /\ (i < Len(w) => w[i + 1].op \notin {"jmp", "syscall"})
  BY DEF Plainly
<1> HIDE DEF a
<1>4. /\ Len(w) = Len(more) + 2 /\ DOMAIN w = 1..Len(w) /\ w[Len(more) + 2] = op /\ Len(more) \in Nat
      /\ \A k \in 1..Len(more) : w[k] = more[k]
  OBVIOUS
<1> HIDE DEF w
<1>5. i \notin 1..Len(more)
  BY <1>2, <1>3, <1>4
<1>6. i = Len(more) + 1 \/ i = Len(more) + 2
  BY <1>4, <1>5
<1>7. i # Len(more) + 2
  BY <1>1, <1>3, <1>4
<1>8. i < Len(w) /\ i + 1 = Len(more) + 2
  BY <1>4, <1>6, <1>7
<1> QED
  BY <1>3, <1>4, <1>8

\* What the hooks in front of an instruction send, and where the replay is then.
LEMMA ArriveSends ==
  ASSUME TraceInv, Arrive
  PROVE  \E s \in Seq(Fed) :
           /\ log' = log \o s /\ replay' = FeedAll(replay, s)
           /\ \A i \in DOMAIN s : Plainly(s, i) => i = Len(s) /\ at = "next"
           /\ replay'.pc = IF at = "next" THEN replay.pc + 1 ELSE machine.pc
<1> DEFINE regs == machine.regs
           pc == machine.pc
           t == IF at = "next" THEN tr ELSE OnJmp(tr, pc, regs)
           n == OnStep(t, pc, regs)
           u == FlushStep(tr, regs)
<1>1. at \in {"start", "jumped", "next"} /\ Record(n)
  BY DEF Arrive
<1>2. /\ tr \in TraceType /\ tr.sent = <<>> /\ Idle(replay) /\ regs \in [Regs -> Values] /\ pc \in Nat \ {0}
      /\ tr.sysops \in Seq(Calm)
  BY DEF TraceInv, TypesOK, Machine, TraceType
<1>3. /\ at = "start" => ~tr.insys /\ tr.stepAddr = IF tr.step THEN pc ELSE 0
      /\ at = "jumped" => ~tr.insys /\ tr.step
      /\ at = "next" => tr.step /\ tr.stepAddr # pc
  BY <1>1 DEF TraceInv, AtHook
<1>4. log' = log \o n.sent /\ replay' = FeedAll(replay, n.sent)
  BY <1>1 DEF Record
<1> DEFINE Good(s) == /\ s \in Seq(Fed)
                      /\ \A i \in DOMAIN s : Plainly(s, i) => i = Len(s) /\ at = "next"
                      /\ FeedAll(replay, s).pc = IF at = "next" THEN replay.pc + 1 ELSE pc
<1>5. Jmp(pc) \in Fed /\ TRUE \in BOOLEAN /\ pc \in Nat /\ Jmp(pc).op = "jmp"
  BY <1>2 DEF Fed, Jumps, Jmp
\* A jump, sent behind what the recorder has sent.
<1>6. ASSUME NEW b \in TraceType, ~b.insys, b.step => b.stepAddr = pc, b.stepAddr = pc => b.step, Idle(FeedAll(replay, b.sent))
      PROVE  LET w == OnStep(Put(b, Jmp(pc), TRUE), pc, regs)
             IN  w.sent = Append(b.sent, Jmp(pc)) /\ FeedAll(replay, w.sent).pc = pc
  <2> DEFINE p == Put(b, Jmp(pc), TRUE)
             w == OnStep(p, pc, regs)
             op == Jmp(pc)
  <2>1. /\ p \in TraceType /\ p.sent = Append(b.sent, op) /\ ~p.insys /\ p.step = b.step /\ p.stepAddr = b.stepAddr
    BY <1>5, <1>6, PutSends
  <2> HIDE DEF p, regs, pc
  <2>2. w.sent = p.sent
    <3>1. CASE p.step
      <4>1. w = p
        BY <1>6, <2>1, <3>1 DEF OnStep
      <4> QED
        BY <4>1
    <3>2. CASE ~p.step
      <4>1. pc # p.stepAddr
        BY <1>6, <2>1, <3>2
      <4> QED
        BY <1>2, <1>5, <2>1, <3>2, <4>1, OnStepSends
    <3> QED
      BY <3>1, <3>2
  <2> HIDE DEF w, op
  <2>3. FeedAll(replay, w.sent) = Feed(FeedAll(replay, b.sent), op)
    <3>1. w.sent = Append(b.sent, op)
      BY <2>1, <2>2
    <3>2. b.sent \in Seq(Fed)
      BY <1>6, SentIsFed
    <3>3. FeedAll(replay, Append(b.sent, op)) = Feed(FeedAll(replay, b.sent), op)
      BY <3>2, FeedOneMore
    <3> QED
      BY <3>1, <3>3
  <2>4. Feed(FeedAll(replay, b.sent), op).pc = pc
    BY <1>5, <1>6, FeedJmp DEF op
  <2> QED
    BY <2>1, <2>2, <2>3, <2>4 DEF w, p, op
<1>7. CASE at = "start" \/ (at = "jumped" /\ tr.stepAddr = pc)
  <2>1. n = OnStep(Put(tr, Jmp(pc), TRUE), pc, regs)
    BY <1>2, <1>3, <1>7 DEF OnJmp
  <2>2. Idle(FeedAll(replay, tr.sent))
    BY <1>2, FeedNone
  <2>3. ~tr.insys /\ (tr.step => tr.stepAddr = pc) /\ (tr.stepAddr = pc => tr.step)
    BY <1>2, <1>3, <1>7
  <2> HIDE DEF n, pc, regs
  <2>4. n.sent = Append(tr.sent, Jmp(pc)) /\ FeedAll(replay, n.sent).pc = pc
    BY <1>2, <1>6, <2>1, <2>2, <2>3
  <2>5. n.sent = <<Jmp(pc)>>
    <3> DEFINE op == Jmp(pc)
    <3> HIDE DEF op
    <3>1. Append(<<>>, op) = <<op>>
      OBVIOUS
    <3> QED
      BY <1>2, <2>4, <3>1 DEF op
  <2>6. \A i \in DOMAIN n.sent : ~Plainly(n.sent, i)
    BY <1>5, <2>5 DEF Plainly, Step
  <2>7. n.sent \in Seq(Fed)
    BY <1>5, <2>5
  <2> QED
    BY <1>4, <1>7, <2>4, <2>6, <2>7 DEF pc
<1>8. at \in {"next", "jumped"} => u \in TraceType /\ ~u.insys /\ ~u.step /\ u.stepAddr = tr.stepAddr
  BY <1>2, FlushStepSends
<1>9. at \in {"next", "jumped"} => Idle(FeedAll(replay, u.sent)) /\ FeedAll(replay, u.sent).pc = replay.pc + 1
  BY <1>2, <1>3, FlushStepMoves
<1>10. at \in {"next", "jumped"} =>
         \E more \in Seq(Calm) : u.sent = more \o (IF tr.insys THEN <<Step, Syscall(tr.sysops)>> ELSE <<Step>>)
  BY <1>2, <1>3, FlushStepEnds
<1>11. CASE at = "jumped" /\ tr.stepAddr # pc
  <2>1. n = OnStep(Put(u, Jmp(pc), TRUE), pc, regs)
    BY <1>3, <1>11 DEF OnJmp
  <2> HIDE DEF n, pc, regs, u
  <2>2. n.sent = Append(u.sent, Jmp(pc)) /\ FeedAll(replay, n.sent).pc = pc
    BY <1>3, <1>6, <1>8, <1>9, <1>11, <2>1
  <2>3. PICK more \in Seq(Calm) : u.sent = more \o <<Step>>
    BY <1>3, <1>10, <1>11
  <2> DEFINE op == Jmp(pc)
             a == Step
  <2>4. op.op \in {"jmp", "syscall"}
    BY <1>5
  <2>5. n.sent \in Seq(Fed)
    BY <1>5, <1>8, <1>11, <2>2, SentIsFed
  <2>7. n.sent = more \o <<a, op>>
    <3>1. n.sent = Append(more \o <<a>>, op)
      BY <2>2, <2>3
    <3> HIDE DEF a, op
    <3> QED
      BY <3>1
  <2> HIDE DEF op
  <2>8. \A i \in DOMAIN n.sent : ~Plainly(n.sent, i)
    BY <2>4, <2>7, StepFollowed
  <2> HIDE DEF a
  <2> QED
    BY <1>4, <1>11, <2>2, <2>5, <2>8 DEF pc
<1>12. CASE at = "next"
  <2>1. n = [u EXCEPT !.step = TRUE, !.stepAddr = pc]
    BY <1>3, <1>12 DEF OnStep
  <2> HIDE DEF n, pc, regs, u
  <2>2. n.sent = u.sent
    BY <1>8, <1>12, <2>1 DEF TraceType
  <2>3. PICK more \in Seq(Calm) : u.sent = more \o (IF tr.insys THEN <<Step, Syscall(tr.sysops)>> ELSE <<Step>>)
    BY <1>10, <1>12
  <2> DEFINE op == Syscall(tr.sysops)
  <2>4. op.op \in {"jmp", "syscall"}
    BY DEF Syscall
  <2> HIDE DEF op
  <2>5. n.sent = more \o <<Step>> \/ n.sent = more \o <<Step, op>>
    BY <2>2, <2>3 DEF op
  <2>6. \A i \in DOMAIN n.sent : Plainly(n.sent, i) => i = Len(n.sent)
    <3>1. CASE n.sent = more \o <<Step>>
      BY <3>1, StepEnds
    <3>2. CASE n.sent = more \o <<Step, op>>
      BY <2>4, <3>2, StepFollowed
    <3> QED
      BY <2>5, <3>1, <3>2
  <2>7. n.sent \in Seq(Fed)
    BY <1>8, <1>12, <2>2, SentIsFed
  <2> QED
    BY <1>4, <1>9, <1>12, <2>2, <2>6, <2>7
<1> QED
  BY <1>1, <1>7, <1>11, <1>12

\* The same of the state that a step leads to.
LEMMA ShownThere ==
  (TraceInv /\ FollowInv /\ rewinds = 0 /\ at \in {"start", "arrived", "stopped"} /\ ~again => Here)'
  BY ShownHere, PTL

RetellInv == Led /\ Retold

\* trace.go:78-165: the log begins with a keyframe, which has no step.
LEMMA InitRetells == Init => RetellInv
<1> SUFFICES ASSUME Init
             PROVE  RetellInv
  OBVIOUS
<1>1. at = "start" /\ \E ops : log = <<Keyframe(ops)>>
  BY DEF Init, KeyframeOf
<1>2. Telling(log, past, skewed)
  BY <1>1 DEF Telling, Plainly, Keyframe, Step
<1> QED
  BY <1>1, <1>2 DEF RetellInv, Led, Retold

\* trace.go:276-320: an instruction that is arrived at sends the step before it, which is
\* of the machine as it was between the two.
LEMMA ArriveRetells ==
  ASSUME TraceInv, FollowInv, RetellInv, Arrive
  PROVE  RetellInv'
<1>1. /\ at \in {"start", "jumped", "next"} /\ at' = "arrived"
      /\ past' = (IF at = "start" \/ again THEN past ELSE Append(past, machine))
      /\ machine' = machine /\ rewinds' = rewinds /\ skewed' = skewed /\ again' = again
  BY DEF Arrive
<1>2. TraceInv' /\ FollowInv'
  BY ArriveHolds, ArriveFollows
<1>3. PICK s \in Seq(Fed) :
        /\ log' = log \o s /\ replay' = FeedAll(replay, s)
        /\ \A i \in DOMAIN s : Plainly(s, i) => i = Len(s) /\ at = "next"
        /\ replay'.pc = IF at = "next" THEN replay.pc + 1 ELSE machine.pc
  BY ArriveSends
<1> SUFFICES ASSUME rewinds = 0
             PROVE  RetellInv'
  BY <1>1 DEF RetellInv, Led, Retold
<1>4. replay'.pc = machine'.pc
  BY <1>1, <1>3 DEF RetellInv, Led
<1>5. at = "next" => Here' /\ replay' = FeedAll(NewReplay, log')
  <2> SUFFICES ASSUME at = "next"
               PROVE  Here' /\ replay' = FeedAll(NewReplay, log')
    OBVIOUS
  <2>1. ~again
    BY DEF TraceInv, AtHook
  <2> QED
    BY <1>1, <1>2, <2>1, ShownThere DEF TraceInv, LogReplays
<1>6. at = "next" => Told(FeedAll(NewReplay, log \o s), past', skewed')
  BY <1>3, <1>4, <1>5 DEF Here, Told, Shows
<1>7. Telling(log, past, skewed)
  BY <1>1 DEF RetellInv, Retold
<1>8. past \in Seq(Machine) /\ log \in Seq(Fed \cup Keyframes) /\ s \in Seq(Fed \cup Keyframes)
  BY DEF TraceInv, TypesOK, LogReplays, IsLog
<1>9. Grows(past, past')
  BY <1>1, <1>8 DEF Grows
<1>10. Telling(log', past', skewed')
  BY <1>1, <1>3, <1>6, <1>7, <1>8, <1>9, TellingGrows
<1> QED
  BY <1>1, <1>4, <1>10 DEF RetellInv, Led, Retold

\* What an instruction or a system call sends waits for the step.
LEMMA WorkSends ==
  ASSUME TraceInv, Work \/ SyscallWork
  PROVE  \E s \in Seq(Calm) : log' = log \o s /\ replay' = FeedAll(replay, s)
<1>1. at = "arrived" /\ tr \in TraceType /\ tr.sent = <<>> /\ machine \in Machine /\ ~tr.insys
  BY DEF Work, SyscallWork, TraceInv, TypesOK, AtHook
<1>2. machine.regs \in [Regs -> Values] /\ machine.cells \in Memories
  BY <1>1 DEF Machine
<1>3. ASSUME NEW b \in TraceType, b.sent = <<>>, NEW t, Kept(b, t), Record(t)
      PROVE  \E s \in Seq(Calm) : log' = log \o s /\ replay' = FeedAll(replay, s)
  <2>1. PICK s \in Seq(Calm) : t.sent = <<>> \o s
    BY <1>3 DEF Kept
  <2>2. t.sent = s
    BY <2>1
  <2> QED
    BY <1>3, <2>2 DEF Record
<1>4. Kept(tr, tr)
  <2>1. <<>> \in Seq(Calm)
    OBVIOUS
  <2> QED
    BY <1>1, <2>1, SentIsFed DEF Kept
<1>5. CASE Record(tr)
  BY <1>1, <1>3, <1>4, <1>5
<1>6. ASSUME NEW x \in DOMAIN machine.cells, NEW byte \in Byte,
             Record(Put(tr, MemWriteOp(<<x, x + 1>>, <<byte>>), FALSE))
      PROVE  \E s \in Seq(Calm) : log' = log \o s /\ replay' = FeedAll(replay, s)
  <2> DEFINE r == <<x, x + 1>>
             d == <<byte>>
  <2>1. r \in Spans /\ d \in Seq(Byte) /\ Len(d) = Size(r)
    <3>1. x \in Nat
      BY <1>2 DEF Memories
    <3> QED
      BY <3>1 DEF Spans, Size
  <2>2. Record(PutOne(tr, MemWriteOp(r, d)))
    BY <1>6 DEF PutOne
  <2> HIDE DEF r, d
  <2>3. Kept(tr, PutOne(tr, MemWriteOp(r, d)))
    BY <1>1, <2>1, WritesAreCalm, PutCalm
  <2> QED
    BY <1>1, <1>3, <2>2, <2>3
<1>7. ASSUME SyscallWork
      PROVE  \E s \in Seq(Calm) : log' = log \o s /\ replay' = FeedAll(replay, s)
  <2>1. PICK r \in Ranges, v \in Values, ret \in Values : \E work \in KernelWork(machine.cells, r) :
          Record(OnSysPost(PutAll(OnSysPre(tr), work.ops), [machine.regs EXCEPT ![SP] = v]))
    BY <1>7 DEF SyscallWork
  <2> DEFINE regs == [machine.regs EXCEPT ![SP] = v]
  <2>2. PICK work \in KernelWork(machine.cells, r) : Record(OnSysPost(PutAll(OnSysPre(tr), work.ops), regs))
    BY <2>1
  <2>3. regs \in [Regs -> Values] /\ work.ops \in Seq(Calm)
    BY <1>2, KernelWorkIs
  <2> HIDE DEF regs
  <2> DEFINE b == OnSysPre(tr)
             p == PutAll(b, work.ops)
             t == OnSysPost(p, regs)
  <2>4. b \in TraceType /\ b.sent = <<>> /\ b.insys
    <3>1. <<>> \in Seq(Calm) /\ FlushSys(tr) = tr
      BY <1>1 DEF FlushSys
    <3> QED
      BY <1>1, <3>1 DEF OnSysPre, TraceType
  <2>5. Record(t)
    BY <2>2
  <2> HIDE DEF b
  <2>6. Kept(b, p)
    BY <2>3, <2>4, PutAllCalm
  <2> HIDE DEF p
  <2>7. Kept(p, t)
    <3>1. p \in TraceType /\ p.insys
      BY <2>4, <2>6 DEF Kept
    <3>2. t = RegUpdate(p, regs)
      BY <3>1 DEF OnSysPost
    <3> QED
      BY <2>3, <3>1, <3>2, RegUpdateKeeps
  <2> HIDE DEF t
  <2>8. Kept(b, t)
    BY <2>6, <2>7, KeptFurther
  <2> QED
    BY <1>3, <2>4, <2>5, <2>8
<1>8. CASE Work
  BY <1>5, <1>6, <1>8 DEF Work
<1> QED
  BY <1>7, <1>8

\* So nothing that is sent in the middle of an instruction is a step.
LEMMA WorkRetells ==
  ASSUME TraceInv, RetellInv, Work \/ SyscallWork
  PROVE  RetellInv'
<1>1. /\ at = "arrived" /\ rewinds' = rewinds /\ past' = past /\ (skewed => skewed')
      /\ at' \in {"next", "jumped"} /\ (at' = "next" => machine'.pc = machine.pc + 1)
  <2>1. machine \in Machine
    BY DEF TraceInv, TypesOK
  <2>2. CASE Work
    <3>1. PICK next \in Code :
            /\ \/ machine' = [machine EXCEPT !.pc = next]
               \/ \E v \in Values : machine' = [machine EXCEPT !.pc = next, !.regs[SP] = v]
               \/ \E x \in DOMAIN machine.cells, b \in Byte : machine' = [machine EXCEPT !.pc = next, !.cells[x].byte = b]
            /\ Fetched(next)
      BY <2>2 DEF Work
    <3>2. machine'.pc = next
      BY <2>1, <3>1 DEF Machine
    <3> QED
      BY <2>2, <3>1, <3>2 DEF Work, Fetched
  <2>3. CASE SyscallWork
    <3>1. at = "arrived" /\ rewinds' = rewinds /\ past' = past /\ at' = "next"
      BY <2>3 DEF SyscallWork, Fetched
    <3>2. PICK r \in Ranges, v \in Values, ret \in Values : \E work \in KernelWork(machine.cells, r) :
            LET regs == [machine.regs EXCEPT ![SP] = v] IN
            /\ machine' = [pc |-> machine.pc + 1, regs |-> [regs EXCEPT ![Ret] = ret], cells |-> work.cells]
            /\ skewed' = (skewed \/ ~Tidy(machine.cells, r))
      BY <2>3 DEF SyscallWork
    <3>3. machine'.pc = machine.pc + 1
      BY <3>2
    <3>4. skewed => skewed'
      BY <3>2, Zenon
    <3> QED
      BY <3>1, <3>3, <3>4
  <2> QED
    BY <2>2, <2>3
<1>2. PICK s \in Seq(Calm) : log' = log \o s /\ replay' = FeedAll(replay, s)
  BY WorkSends
<1>3. Idle(replay) /\ past \in Seq(Machine) /\ log \in Seq(Fed \cup Keyframes) /\ s \in Seq(Fed \cup Keyframes)
  BY DEF TraceInv, TypesOK, LogReplays, IsLog, Fed
<1>4. replay'.pc = replay.pc
  BY <1>2, <1>3, FeedAllCalm DEF Stays
<1> SUFFICES ASSUME rewinds = 0
             PROVE  RetellInv'
  BY <1>1 DEF RetellInv, Led, Retold
<1>5. Telling(log, past, skewed) /\ Grows(past, past')
  BY <1>1 DEF RetellInv, Retold, Grows
<1>6. \A i \in DOMAIN s : ~Plainly(s, i)
  BY CalmIsBare
<1>7. Telling(log', past', skewed')
  BY <1>1, <1>2, <1>3, <1>5, <1>6, TellingGrows
<1> QED
  BY <1>1, <1>4, <1>7 DEF RetellInv, Led, Retold

\* Each action keeps it; a rewind ends it.
LEMMA NextRetells ==
  ASSUME TraceInv, FollowInv, RetellInv, [Next]_vars
  PROVE  RetellInv'
<1>1. CASE Finish
  BY <1>1 DEF Finish, RetellInv, Led, Retold
<1>2. CASE Stop \/ Resume \/ UNCHANGED vars
  BY <1>2 DEF Stop, Resume, vars, RetellInv, Led, Retold
<1>3. CASE RewindSome
  <2>1. rewinds' = rewinds + 1 /\ rewinds \in Nat
    BY <1>3 DEF RewindSome, Rewind, TraceInv, TypesOK
  <2>2. rewinds' # 0
    BY <2>1
  <2> QED
    BY <2>2 DEF RetellInv, Led, Retold
<1> QED
  BY <1>1, <1>2, <1>3, ArriveRetells, WorkRetells DEF Next

\* Only a step is counted.
LEMMA StepCounts ==
  ASSUME NEW r, Idle(r), NEW op \in Fed, Feed(r, op).inscount # r.inscount
  PROVE  op = Step
<1>1. CASE op \in Calm
  BY <1>1, FeedCalm DEF Stays
<1>2. CASE op \in Jumps
  <2>1. PICK a \in Nat : op = Jmp(a)
    BY <1>2 DEF Jumps
  <2> QED
    BY <2>1, FeedJmp
<1>3. CASE op \in {Syscall(ops) : ops \in Seq(Calm)}
  BY <1>3, FeedSyscall DEF Stays
<1> QED
  BY <1>1, <1>2, <1>3 DEF Fed

\* The first place with a count, behind the first jump, is one behind a step.
LEMMA CountedFirst ==
  ASSUME NEW l, IsLog(l), NEW j \in 2..Len(l),
         FeedAll(NewReplay, SubSeq(l, 1, j)).inscount # FeedAll(NewReplay, SubSeq(l, 1, j - 1)).inscount
  PROVE  l[j] = Step
<1> DEFINE a == FeedAll(NewReplay, SubSeq(l, 1, j - 1))
           b == FeedAll(NewReplay, SubSeq(l, 1, j))
<1>1. /\ l \in Seq(Fed \cup Keyframes) /\ Len(l) \in Nat /\ j \in 0..Len(l) /\ j - 1 \in 0..j /\ j - 1 \in 0..Len(l)
      /\ j \in 1..Len(l) /\ l[j] \in Fed
  BY DEF IsLog
<1>2. Idle(a)
  <2> DEFINE k == j - 1
  <2>1. k \in 0..Len(l)
    BY <1>1
  <2> HIDE DEF k
  <2>2. Idle(FeedAll(NewReplay, SubSeq(l, 1, k)))
    BY <2>1, BeginningReplays
  <2> QED
    BY <2>2 DEF k
<1>3. b = FeedAll(a, SubSeq(l, j, j))
  <2>1. b = FeedAll(a, SubSeq(l, (j - 1) + 1, j))
    BY <1>1, FeedParts
  <2>2. (j - 1) + 1 = j
    BY <1>1
  <2> HIDE DEF a, b
  <2> QED
    BY <2>1, <2>2
<1>4. SubSeq(l, j, j) = <<l[j]>>
  BY <1>1, OnePart
<1> HIDE DEF a, b
<1>5. b = Feed(a, l[j])
  BY <1>3, <1>4, FeedSingle
<1> QED
  BY <1>1, <1>2, <1>5, StepCounts DEF a, b

\* A rewind by some instructions, not all, stops behind the step of the last that stays.
LEMMA RewindStops ==
  ASSUME TraceInv, NEW by \in Nat, by > 0, Rewind(by, 0), NEW n \in Nat, n = replay.inscount - by, n > 0
  PROVE  \E j \in 2..(Len(log) - 1) :
           LET to == FeedAll(NewReplay, SubSeq(log, 1, j)) IN
           /\ log[j] = Step /\ to.inscount = n /\ Idle(to)
           /\ log' = SubSeq(log, 1, j + 1)
           /\ machine' = [pc |-> to.pc,
                          regs |-> [x \in Regs |-> IF replay.regs[x] = to.regs[x] THEN machine.regs[x] ELSE to.regs[x]],
                          cells |-> Onto(Cells(to.pages), machine.cells)]
           /\ skewed' = (skewed \/ again \/ DOMAIN machine.cells # DOMAIN Cells(to.pages))
<1>0. PICK seen \in {Replayed} : RewindTo(seen, by, 0)
  BY DEF Rewind
<1> DEFINE target == IF by > 0 THEN replay.inscount - by ELSE 0
           found == {i \in DOMAIN log : Found(i, target, 0, seen)}
           stop == IF found = {} THEN Len(log) + 1 ELSE Min(found)
           to == seen[stop]
           regs == [x \in Regs |-> IF replay.regs[x] = to.regs[x] THEN machine.regs[x] ELSE to.regs[x]]
<1>1. /\ found # {} \/ (target = 0 /\ \E i \in DOMAIN log : seen[i].pc = 0)
      /\ machine' = [pc |-> to.pc, regs |-> regs, cells |-> Onto(Cells(to.pages), machine.cells)]
      /\ log' = SubSeq(log, 1, Min({stop, Len(log)}))
      /\ skewed' = (skewed \/ again \/ DOMAIN machine.cells # DOMAIN Cells(to.pages))
  BY <1>0 DEF RewindTo
<1>2. target = n
  OBVIOUS
<1> HIDE DEF target
<1>3. IsLog(log) /\ Len(log) \in Nat /\ DOMAIN log = 1..Len(log) /\ Len(log) >= 2
  <2>1. IsLog(log) /\ Len(log) # 1
    BY DEF TraceInv, LogReplays, Rewind
  <2>2. Len(log) \in Nat /\ Len(log) >= 1 /\ DOMAIN log = 1..Len(log)
    BY <2>1 DEF IsLog
  <2> DEFINE k == Len(log)
  <2>3. k \in Nat /\ k >= 1 /\ k # 1
    BY <2>1, <2>2
  <2> HIDE DEF k
  <2>4. k >= 2
    BY <2>3
  <2> QED
    BY <2>1, <2>2, <2>4 DEF k
<1>4. stop \in 3..(Len(log) + 1)
  <2>1. target \in Nat /\ 0 \in Nat /\ seen = Replayed
    BY <1>2
  <2> QED
    BY <1>3, <2>1, StopsBehind
<1>5. found # {}
  BY <1>1, <1>2
<1>6. found = {i \in DOMAIN log : seen[i].inscount = n}
  BY <1>2 DEF Found
<1>7. found \subseteq 1..Len(log)
  BY <1>3
<1> HIDE DEF found
<1>8. stop \in found /\ \A i \in found : stop <= i
  <2>1. found \subseteq Nat
    BY <1>3, <1>7
  <2>2. \E m \in found : \A k \in found : m <= k
    BY <1>5, <2>1, LeastIs
  <2>3. Min(found) \in found /\ \A k \in found : Min(found) <= k
    BY <2>2 DEF Min
  <2> QED
    BY <1>5, <2>3
<1> HIDE DEF stop
<1>9. stop \in 3..Len(log)
  BY <1>3, <1>4, <1>7, <1>8
<1>10. Min({stop, Len(log)}) = stop
  BY <1>3, <1>9, LesserOfTwo
<1> DEFINE j == stop - 1
           at0(k) == FeedAll(NewReplay, SubSeq(log, 1, k))
<1>11. /\ j \in 2..(Len(log) - 1) /\ j + 1 = stop /\ j \in 2..Len(log) /\ j \in 0..Len(log)
       /\ j \in DOMAIN log /\ ~(stop <= j)
  BY <1>3, <1>9
<1>12. seen[stop] = at0(j) /\ seen[j] = at0(j - 1)
  BY <1>0, <1>3, <1>11 DEF Replayed
<1>13. seen[stop].inscount = n /\ seen[j].inscount # n
  <2>1. j \notin found
    BY <1>8, <1>11
  <2> HIDE DEF j
  <2> QED
    BY <1>6, <1>8, <1>11, <2>1
<1> HIDE DEF j
<1>14. log[j] = Step
  BY <1>3, <1>11, <1>12, <1>13, CountedFirst
<1>15. Idle(at0(j))
  BY <1>3, <1>11, BeginningReplays
<1>16. to = at0(j) /\ log' = SubSeq(log, 1, j + 1)
  BY <1>1, <1>10, <1>11, <1>12
<1> HIDE DEF to, at0
<1>17. /\ machine' = [pc |-> at0(j).pc,
                      regs |-> [x \in Regs |-> IF replay.regs[x] = at0(j).regs[x] THEN machine.regs[x] ELSE at0(j).regs[x]],
                      cells |-> Onto(Cells(at0(j).pages), machine.cells)]
       /\ skewed' = (skewed \/ again \/ DOMAIN machine.cells # DOMAIN Cells(at0(j).pages))
  BY <1>1, <1>16
<1>18. at0(j).inscount = n
  BY <1>12, <1>13
<1> QED
  BY <1>11, <1>14, <1>15, <1>16, <1>17, <1>18 DEF at0

\* A rewind is back at the machine there was when that many instructions had been run.
LEMMA RewindBack ==
  ASSUME TraceInv, FollowInv, RetellInv, NEW by \in Nat, by > 0, rewinds = 0, Rewind(by, 0),
         NEW n \in Nat, n = replay.inscount - by, n > 0, ~skewed', Last(log').op \notin {"jmp", "syscall"}
  PROVE  machine' = past[n + 1]
<1>1. PICK j \in 2..(Len(log) - 1) :
        LET to == FeedAll(NewReplay, SubSeq(log, 1, j)) IN
        /\ log[j] = Step /\ to.inscount = n /\ Idle(to)
        /\ log' = SubSeq(log, 1, j + 1)
        /\ machine' = [pc |-> to.pc,
                       regs |-> [x \in Regs |-> IF replay.regs[x] = to.regs[x] THEN machine.regs[x] ELSE to.regs[x]],
                       cells |-> Onto(Cells(to.pages), machine.cells)]
        /\ skewed' = (skewed \/ again \/ DOMAIN machine.cells # DOMAIN Cells(to.pages))
  BY RewindStops
<1> DEFINE to == FeedAll(NewReplay, SubSeq(log, 1, j))
           m == past[n + 1]
           c == Cells(to.pages)
<1>2. log \in Seq(Fed \cup Keyframes) /\ Len(log) \in Nat /\ j \in DOMAIN log /\ past \in Seq(Machine)
  BY DEF TraceInv, TypesOK, LogReplays, IsLog
<1>3. Plainly(log, j)
  <2>1. Last(log') = log[j + 1]
    <3>1. j + 1 \in 1..Len(log)
      BY <1>2
    <3>2. Len(log') = j + 1 /\ log'[j + 1] = log[j + 1]
      BY <1>1, <1>2, <3>1
    <3> QED
      BY <3>2 DEF Last
  <2> QED
    BY <1>1, <2>1 DEF Plainly
<1>4. at = "stopped"
  BY DEF Rewind
<1>5. Told(to, past, skewed)
  BY <1>2, <1>3, <1>4 DEF RetellInv, Retold, Telling
<1>6. Here
  <2>1. ~again
    BY <1>1, Zenon
  <2> QED
    BY <1>4, <2>1, ShownHere
<1> HIDE DEF to
<1>7. /\ to.inscount = n /\ Idle(to)
      /\ machine' = [pc |-> to.pc,
                     regs |-> [x \in Regs |-> IF replay.regs[x] = to.regs[x] THEN machine.regs[x] ELSE to.regs[x]],
                     cells |-> Onto(c, machine.cells)]
      /\ skewed' = (skewed \/ again \/ DOMAIN machine.cells # DOMAIN c)
  BY <1>1 DEF to
<1>8. m \in Machine /\ Shows(to, m, skewed)
  BY <1>2, <1>5, <1>7 DEF Told
<1>9. ~skewed /\ DOMAIN machine.cells = DOMAIN c
  BY <1>7, Zenon
<1>10. to.pc = m.pc /\ to.regs = m.regs /\ c = m.cells
  BY <1>8, <1>9 DEF Shows
<1>11. Onto(c, machine.cells) = c
  <2>1. IsFun(c)
    BY CellsAre
  <2> HIDE DEF c
  <2> QED
    BY <1>9, <2>1 DEF Onto, IsFun
<1>12. [x \in Regs |-> IF replay.regs[x] = to.regs[x] THEN machine.regs[x] ELSE to.regs[x]] = to.regs
  <2>1. to.regs \in [Regs -> Values] /\ replay.regs = machine.regs
    BY <1>6, <1>7 DEF Here, Idle, ReplayType
  <2> QED
    BY <2>1
<1> HIDE DEF m, c
<1>13. machine' = [pc |-> m.pc, regs |-> m.regs, cells |-> m.cells]
  BY <1>7, <1>10, <1>11, <1>12
<1> QED
  BY <1>8, <1>13 DEF Machine, m

\* trace.go:276-310, replay.go:83-127: at every moment until the first rewind, each place of the
\* log behind a step that no jump and no system call follows replays to the machine that
\* there was when that instruction had been run, in all but its memory once that is skewed.
THEOREM RetellInvariant == Spec => []RetellInv
<1>1. TraceInv /\ FollowInv /\ RetellInv /\ [Next]_vars => RetellInv'
  BY NextRetells
<1> QED
  BY InitRetells, <1>1, TraceInvariant, FollowInvariant, PTL DEF Spec

\* usercorn.go:222-325: a rewind by some instructions, not all of them, leaves the machine as it
\* was when the others had been run, in the cases that RewindsStraightBack names.
THEOREM RewindsBack == Spec => RewindsStraightBack
<1> DEFINE Straight ==
      \A by \in 1..MaxSteps :
        LET n == replay.inscount - by IN
        /\ rewinds = 0 /\ n > 0 /\ Rewind(by, 0) /\ ~skewed'
        /\ Last(log').op \notin {"jmp", "syscall"}
        => machine' = past[n + 1]
<1>1. TraceInv /\ FollowInv /\ RetellInv => Straight
  <2> SUFFICES ASSUME TraceInv, FollowInv, RetellInv, NEW by \in 1..MaxSteps,
                      rewinds = 0, Rewind(by, 0), replay.inscount - by > 0, ~skewed',
                      Last(log').op \notin {"jmp", "syscall"}
               PROVE  machine' = past[(replay.inscount - by) + 1]
    OBVIOUS
  <2> DEFINE n == replay.inscount - by
  <2>1. by \in Nat /\ by > 0 /\ n \in Nat /\ n = replay.inscount - by /\ n > 0
    <3>1. replay.inscount \in Nat /\ MaxSteps \in Nat
      BY TraceAssumption DEF TraceInv, TypesOK, Idle, ReplayType
    <3> QED
      BY <3>1
  <2> HIDE DEF n
  <2>2. machine' = past[n + 1]
    BY <2>1, RewindBack
  <2> QED
    BY <2>2 DEF n
<1> QED
  BY <1>1, TraceInvariant, FollowInvariant, RetellInvariant, PTL DEF RewindsStraightBack

-----------------------------------------------------------------------------
(* The file.  Its reader keeps a step pending until the next operation; it *)
(* and the replay of the task are on a par when it is where the replay is, *)
(* but for the step it has pending, and holds the same.  Where a frame     *)
(* ends the reader may have applied what waits in the replay: an           *)
(* instruction that comes to itself begins a frame in the middle of its    *)
(* step.                                                                   *)

\* What the reader of a file does with the operations of a frame.
Scan(r, ops) == FoldLeft(FeedOne, r, ops)
\* The reader g is where the replay p is, but for a pending step, and holds the same.
Par(g, p) ==
  /\ g \in ReplayType /\ Idle(p) /\ Held(g) = Held(p)
  /\ p.pc = IF g.pending THEN g.pc + 1 ELSE g.pc
  /\ p.inscount = IF g.pending THEN g.inscount + 1 ELSE g.inscount
  /\ ~g.pending /\ p.effects = <<>> => g.effects = <<>>

Idly(a, b) == TRUE
Scanned == INSTANCE Folding WITH Op <- FeedOne, Keeps <- Idly, Fine <- LAMBDA x : TRUE

\* What a frame of operations does to a reader is folded.
LEMMA ScanIs ==
  ASSUME NEW r, NEW ops
  PROVE  Scan(r, ops) = Scanned!Fold(r, ops)
BY DEF Scan, Scanned!Fold, FoldLeft, MapThenFoldSet, Scanned!FoldLeft, Scanned!MapThenFoldSet, Max, Scanned!Max

\* No operation.
LEMMA ScanNone ==
  ASSUME NEW r
  PROVE  Scan(r, <<>>) = r
<1>1. DOMAIN <<>> = 1..0
  OBVIOUS
<1>2. Scanned!Fold(r, <<>>) = r
  BY <1>1, Scanned!FoldOfNone
<1> QED
  BY <1>2, ScanIs

\* One.
LEMMA ScanOne ==
  ASSUME NEW r, NEW x
  PROVE  Scan(r, <<x>>) = FeedOne(r, x)
<1>1. DOMAIN <<x>> = 1..1 /\ <<x>>[1] = x
  OBVIOUS
<1>2. Scanned!Fold(r, <<x>>) = FeedOne(r, <<x>>[1])
  BY <1>1, Scanned!FoldOfOne
<1> QED
  BY <1>1, <1>2, ScanIs

\* One frame behind another.
LEMMA ScanMore ==
  ASSUME NEW r, NEW S, NEW s \in Seq(S), NEW t \in Seq(S)
  PROVE  Scan(r, s \o t) = Scan(Scan(r, s), t)
<1> DEFINE u == s \o t
           i == Len(s)
           j == Len(t)
<1>1. i \in Nat /\ DOMAIN s = 1..i /\ j \in Nat /\ DOMAIN t = 1..j /\ DOMAIN u = 1..(i + j)
  OBVIOUS
<1>2. (\A k \in 1..i : u[k] = s[k]) /\ (\A k \in 1..j : u[i + k] = t[k])
  OBVIOUS
<1> HIDE DEF u, i, j
<1>3. Scanned!Fold(r, u) = Scanned!Fold(Scanned!Fold(r, s), t)
  <2>1. Scanned!Joined(s, i, t, j, u)
    BY <1>1, <1>2 DEF Scanned!Joined
  <2> QED
    BY <1>1, <2>1, Scanned!FoldGoesOn
<1> QED
  BY <1>3, ScanIs DEF u

\* One operation more.
LEMMA ScanOneMore ==
  ASSUME NEW r, NEW S, NEW s \in Seq(S), NEW x \in S
  PROVE  Scan(r, Append(s, x)) = FeedOne(Scan(r, s), x)
<1> DEFINE t == <<x>>
<1>1. s \in Seq(S) /\ t \in Seq(S) /\ Append(s, x) = s \o t
  OBVIOUS
<1>2. Scan(Scan(r, s), t) = FeedOne(Scan(r, s), x)
  BY ScanOne
<1> HIDE DEF t
<1>3. Scan(r, s \o t) = Scan(Scan(r, s), t)
  BY <1>1, ScanMore
<1> QED
  BY <1>1, <1>2, <1>3

\* Flush, in views.
LEMMA FlushViews ==
  ASSUME NEW r \in ReplayType, r.pending
  PROVE  View(Flush(r)) = Held(r) /\ Flush(r).effects = <<>>
<1> DEFINE q == [r EXCEPT !.pending = FALSE]
<1>1. Idle(q) /\ [q EXCEPT !.pending = TRUE] = r /\ View(q) = View(r) /\ q.effects = r.effects
  <2>1. q \in ReplayType /\ ~q.pending /\ q.pages = r.pages /\ q.regs = r.regs /\ q.effects = r.effects
    BY DEF ReplayType
  <2>2. [q EXCEPT !.pending = TRUE] = r
    BY DEF ReplayType
  <2> HIDE DEF q
  <2> QED
    BY <2>1, <2>2 DEF Idle, View
<1> HIDE DEF q
<1>2. Feed(q, Step) = Flush([q EXCEPT !.pending = TRUE])
  BY <1>1, FlushIdle DEF Feed, FeedOne, Step
<1>3. View(Feed(q, Step)) = Held(q) /\ Feed(q, Step).effects = <<>>
  BY <1>1, StepViews
<1> QED
  BY <1>1, <1>2, <1>3 DEF Held

\* An effect waits behind those that wait, and what is held with it is what it does to
\* what was held.
LEMMA HeldAppend ==
  ASSUME NEW r \in ReplayType, NEW op \in Calm, NEW q, q = [r EXCEPT !.effects = Append(@, op)]
  PROVE  /\ q \in ReplayType /\ Held(q) = Recall(Held(r), op) /\ q.effects = Append(r.effects, op)
         /\ q.pc = r.pc /\ q.inscount = r.inscount /\ q.pending = r.pending
<1>1. r.effects \in Seq(Calm) /\ Append(r.effects, op) \in Seq(Calm)
  BY DEF ReplayType
<1>2. /\ q \in ReplayType /\ q.effects = Append(r.effects, op) /\ q.pages = r.pages /\ q.regs = r.regs
      /\ q.pc = r.pc /\ q.inscount = r.inscount /\ q.pending = r.pending
  BY <1>1 DEF ReplayType
<1>3. RecallAll(View(r), Append(r.effects, op)) = Recall(RecallAll(View(r), r.effects), op)
  BY <1>1, RecallOneMore
<1>4. View(q) = View(r)
  BY <1>2 DEF View
<1> QED
  BY <1>2, <1>3, <1>4 DEF Held

\* replay.go:81-127: an effect waits at both.
LEMMA ParCalm ==
  ASSUME NEW g, NEW p, Par(g, p), NEW op \in Calm
  PROVE  Par(FeedOne(g, op), Feed(p, op))
<1> DEFINE h == [g EXCEPT !.effects = Append(@, op)]
           q == [p EXCEPT !.effects = Append(@, op)]
<1>1. g \in ReplayType /\ p \in ReplayType /\ Idle(p)
  BY DEF Par, Idle
<1>2. FeedOne(g, op) = h
  BY CalmKinds DEF FeedOne
<1>3. Feed(p, op) = q /\ Idle(q)
  BY <1>1, FeedCalm DEF Stays
<1>4. /\ h \in ReplayType /\ Held(h) = Recall(Held(g), op) /\ h.effects = Append(g.effects, op)
      /\ h.pc = g.pc /\ h.inscount = g.inscount /\ h.pending = g.pending
  BY <1>1, HeldAppend
<1>5. /\ Held(q) = Recall(Held(p), op) /\ q.effects = Append(p.effects, op)
      /\ q.pc = p.pc /\ q.inscount = p.inscount
  BY <1>1, HeldAppend
<1> HIDE DEF h, q
<1> QED
  BY <1>2, <1>3, <1>4, <1>5 DEF Par

\* What waits in no step waits for nobody.
LEMMA HeldOfNone ==
  ASSUME NEW r, r.effects = <<>>
  PROVE  Held(r) = View(r)
BY RecallNone DEF Held

\* Where a frame ends.
LEMMA ParFlush ==
  ASSUME NEW g, NEW p, Par(g, p)
  PROVE  Par(Flush(g), p) /\ ~Flush(g).pending
<1>1. CASE g.pending
  <2>1. /\ Idle(Flush(g)) /\ Flush(g).pc = g.pc + 1 /\ Flush(g).inscount = g.inscount + 1
        /\ View(Flush(g)) = Held(g) /\ Flush(g).effects = <<>>
    BY <1>1, FlushPending, FlushViews DEF Par
  <2>2. Held(Flush(g)) = Held(g)
    BY <2>1, HeldOfNone
  <2> QED
    BY <1>1, <2>1, <2>2 DEF Par, Idle
<1>2. CASE ~g.pending
  BY <1>2, FlushIdle DEF Par, Idle
<1> QED
  BY <1>1, <1>2

\* A step, which the reader leaves pending and the replay of the task does at once.
LEMMA ParStep ==
  ASSUME NEW g, NEW p, Par(g, p)
  PROVE  Par(FeedOne(g, Step), Feed(p, Step)) /\ Feed(p, Step).effects = <<>>
<1> DEFINE f == Flush(g)
           h == [f EXCEPT !.pending = TRUE]
<1>1. Idle(f) /\ Held(f) = Held(g) /\ p.pc = f.pc /\ p.inscount = f.inscount
  <2>1. CASE g.pending
    <3>1. /\ Idle(f) /\ f.pc = g.pc + 1 /\ f.inscount = g.inscount + 1
          /\ View(f) = Held(g) /\ f.effects = <<>>
      BY <2>1, FlushPending, FlushViews DEF Par
    <3> HIDE DEF f
    <3>2. Held(f) = Held(g)
      BY <3>1, HeldOfNone
    <3> QED
      BY <2>1, <3>1, <3>2 DEF Par
  <2>2. CASE ~g.pending
    BY <2>2, FlushIdle DEF Par, Idle
  <2> QED
    BY <2>1, <2>2
<1>2. FeedOne(g, Step) = h
  BY DEF FeedOne, Step
<1> HIDE DEF f
<1>3. h \in ReplayType /\ h.pending /\ h.pc = f.pc /\ h.inscount = f.inscount /\ Held(h) = Held(f)
  <2>1. /\ h \in ReplayType /\ h.pending /\ h.pc = f.pc /\ h.inscount = f.inscount
        /\ h.pages = f.pages /\ h.regs = f.regs /\ h.effects = f.effects
    BY <1>1 DEF Idle, ReplayType
  <2> HIDE DEF h
  <2> QED
    BY <2>1 DEF Held, View
<1> HIDE DEF h
<1>4. /\ Idle(Feed(p, Step)) /\ Feed(p, Step).pc = p.pc + 1 /\ Feed(p, Step).inscount = p.inscount + 1
      /\ View(Feed(p, Step)) = Held(p) /\ Feed(p, Step).effects = <<>>
  BY FeedStep, StepViews DEF Par
<1>5. Held(Feed(p, Step)) = Held(p)
  BY <1>4, HeldOfNone
<1>6. Held(g) = Held(p)
  BY DEF Par
<1> QED
  BY <1>1, <1>2, <1>3, <1>4, <1>5, <1>6 DEF Par

\* The end of a system call, before which no effect waits.
LEMMA ParCall ==
  ASSUME NEW g, NEW p, Par(g, p), p.effects = <<>>, NEW ops \in Seq(Calm)
  PROVE  Par(FeedOne(g, Syscall(ops)), Feed(p, Syscall(ops))) /\ Feed(p, Syscall(ops)).effects = <<>>
<1> DEFINE f == Flush(g)
           h == UpdateAll(f, ops)
           q == Feed(p, Syscall(ops))
<1>1. Par(f, p) /\ ~f.pending
  BY ParFlush
<1>2. FeedOne(g, Syscall(ops)) = h
  BY DEF FeedOne, Syscall
<1>3. Idle(p) /\ Stays(p, q) /\ q = UpdateAll(p, ops)
  BY FeedSyscall DEF Par
<1>4. View(q) = RecallAll(View(p), ops) /\ q.effects = <<>>
  BY <1>3, CallViews
<1> HIDE DEF f, q
<1>5. f \in ReplayType /\ f.effects = <<>> /\ f.pc = p.pc /\ f.inscount = p.inscount /\ Held(f) = Held(p)
  BY <1>1 DEF Par
<1>6. View(h) = RecallAll(View(f), ops) /\ Same(f, h)
  BY <1>5, UpdatesRecall, CalmUpdates
<1>7. View(f) = View(p)
  BY <1>5, HeldOfNone
<1>8. Held(h) = Held(q)
  <2>1. h.effects = <<>>
    BY <1>5, <1>6 DEF Same
  <2> QED
    BY <1>4, <1>6, <1>7, <2>1, HeldOfNone
<1> HIDE DEF h
<1>9. h \in ReplayType /\ h.pending = f.pending /\ h.pc = f.pc /\ h.inscount = f.inscount /\ h.effects = f.effects
  BY <1>6 DEF Same
<1>10. Idle(q) /\ q.pc = p.pc /\ q.inscount = p.inscount
  BY <1>3 DEF Stays
<1>11. Par(h, q)
  BY <1>1, <1>4, <1>5, <1>8, <1>9, <1>10 DEF Par
<1> QED
  BY <1>2, <1>4, <1>11 DEF q

\* A jump, of which nothing is pending.
LEMMA ParJmp ==
  ASSUME NEW g, NEW p, Par(g, p), ~g.pending, NEW a \in Nat
  PROVE  Par(FeedOne(g, Jmp(a)), Feed(p, Jmp(a)))
<1> DEFINE h == [g EXCEPT !.pc = a]
           q == Feed(p, Jmp(a))
<1>1. /\ g \in ReplayType /\ Idle(g) /\ Idle(p) /\ g.inscount = p.inscount /\ Held(g) = Held(p)
      /\ p.effects = <<>> => g.effects = <<>>
  BY DEF Par, Idle
<1>2. FeedOne(g, Jmp(a)) = h
  BY <1>1, FlushIdle DEF FeedOne, Update, Jmp
<1>3. Idle(q) /\ q.pc = a /\ q.inscount = p.inscount /\ View(q) = View(p) /\ q.effects = p.effects
  BY <1>1, FeedJmp, JmpViews
<1>4. /\ h \in ReplayType /\ ~h.pending /\ h.pc = a /\ h.inscount = g.inscount /\ h.effects = g.effects
      /\ h.pages = g.pages /\ h.regs = g.regs
  BY <1>1 DEF Idle, ReplayType
<1> HIDE DEF h, q
<1>5. Held(h) = Held(g) /\ Held(q) = Held(p)
  BY <1>3, <1>4 DEF Held, View
<1>6. Par(h, q)
  BY <1>1, <1>3, <1>4, <1>5 DEF Par
<1> QED
  BY <1>2, <1>3, <1>6 DEF q

\* What a file is made of.
Pieces == Keyframes \cup {Frame(ops) : ops \in Seq(Fed)}
\* The reader, at the end of a file and of what is packed behind it.
ReadTo(f, t) == FeedAll(NewReplay, f \o t.packed)
\* It is on a par with p when it has also been given what is in no frame yet.
Reads(f, t, p) ==
  /\ f \in Seq(Pieces) /\ Idle(ReadTo(f, t))
  /\ Par(Scan(ReadTo(f, t), t.frame), p)

\* One operation more in the frame that is being written.
LEMMA FrameGrows ==
  ASSUME NEW f, NEW t \in TraceType, NEW p, Reads(f, t, p), NEW op \in Fed,
         NEW u, u.packed = t.packed, u.frame = Append(t.frame, op),
         NEW q, \A g : Par(g, p) => Par(FeedOne(g, op), q)
  PROVE  Reads(f, u, q)
<1>1. t.frame \in Seq(Fed)
  BY DEF TraceType
<1>2. Scan(ReadTo(f, t), Append(t.frame, op)) = FeedOne(Scan(ReadTo(f, t), t.frame), op)
  BY <1>1, ScanOneMore
<1>3. ReadTo(f, u) = ReadTo(f, t)
  BY DEF ReadTo
<1> QED
  BY <1>2, <1>3 DEF Reads

\* trace.go:234-264: what is put in no system call is behind the frame.
LEMMA FramePut ==
  ASSUME NEW t \in TraceType, ~t.insys, NEW op \in Fed
  PROVE  Put(t, op, FALSE).packed = t.packed /\ Put(t, op, FALSE).frame = Append(t.frame, op)
<1> DEFINE u == Put(t, op, FALSE)
<1>1. CASE t.frame = <<>>
  <2>1. u.packed = t.packed /\ u.frame = <<op>>
    BY <1>1 DEF Put, TraceType
  <2> HIDE DEF u
  <2>2. Append(<<>>, op) = <<op>>
    OBVIOUS
  <2> QED
    BY <1>1, <2>1, <2>2 DEF u
<1>2. CASE t.frame # <<>>
  BY <1>2 DEF Put, TraceType
<1> QED
  BY <1>1, <1>2

\* What is put is read as it is fed.
LEMMA PutReads ==
  ASSUME NEW r, Idle(r), NEW t, Ready(t), ~t.insys, NEW f, Reads(f, t, Now(r, t)), NEW op \in Fed,
         \A g : Par(g, Now(r, t)) => Par(FeedOne(g, op), Feed(Now(r, t), op))
  PROVE  Reads(f, Put(t, op, FALSE), Now(r, Put(t, op, FALSE)))
<1> DEFINE u == Put(t, op, FALSE)
<1>1. t \in TraceType
  BY DEF Ready
<1>2. u.packed = t.packed /\ u.frame = Append(t.frame, op)
  BY <1>1, FramePut
<1>3. Now(r, u) = Feed(Now(r, t), op)
  BY SentBehind
<1> HIDE DEF u
<1>4. Reads(f, u, Now(r, u))
  BY <1>1, <1>2, <1>3, FrameGrows
<1> QED
  BY <1>4 DEF u

\* An operation of the calm kind, which waits in a system call.
LEMMA CalmReads ==
  ASSUME NEW r, Idle(r), NEW t, Ready(t), NEW f, Reads(f, t, Now(r, t)), NEW op \in Calm
  PROVE  Reads(f, PutOne(t, op), Now(r, PutOne(t, op)))
<1>1. op \in Fed /\ op.op # "step" /\ t \in TraceType
  BY CalmKinds DEF Fed, Ready
<1>2. CASE t.insys
  <2> DEFINE u == PutOne(t, op)
  <2>1. u = [t EXCEPT !.sysops = Append(t.sysops, op)]
    BY <1>1, <1>2 DEF Ready, PutOne, Put
  <2> HIDE DEF u
  <2>2. u.frame = t.frame /\ u.packed = t.packed /\ u.sent = t.sent
    BY <1>1, <2>1 DEF TraceType
  <2>3. Reads(f, u, Now(r, u))
    BY <2>2 DEF Reads, ReadTo, Now
  <2> QED
    BY <2>3 DEF u
<1>3. CASE ~t.insys
  <2>1. \A g : Par(g, Now(r, t)) => Par(FeedOne(g, op), Feed(Now(r, t), op))
    BY ParCalm
  <2>2. Reads(f, Put(t, op, FALSE), Now(r, Put(t, op, FALSE)))
    BY <1>1, <1>3, <2>1, PutReads
  <2> QED
    BY <2>2 DEF PutOne
<1> QED
  BY <1>2, <1>3

\* A recorder t that has gone on from b is read as it is fed.
Retells(b, t) ==
  /\ Ready(t)
  /\ \A f, r : Idle(r) /\ Reads(f, b, Now(r, b)) => Reads(f, t, Now(r, t))
Tells == INSTANCE Folding WITH Op <- PutOne, Keeps <- Retells, Fine <- LAMBDA x : x \in Calm

\* Putting operations one after the other is folded.
LEMMA PutAllTells ==
  ASSUME NEW t, NEW ops
  PROVE  PutAll(t, ops) = Tells!Fold(t, ops)
BY DEF PutAll, Tells!Fold, FoldLeft, MapThenFoldSet, Tells!FoldLeft, Tells!MapThenFoldSet, Max, Tells!Max

\* Effects, one after the other.
LEMMA PutAllReads ==
  ASSUME NEW t, Ready(t), NEW ops \in Seq(Calm)
  PROVE  Retells(t, PutAll(t, ops))
<1>1. Len(ops) \in Nat /\ DOMAIN ops = 1..Len(ops) /\ \A i \in 1..Len(ops) : ops[i] \in Calm
  OBVIOUS
<1>2. Retells(t, t)
  BY DEF Retells
<1>3. \A a, op : Retells(t, a) /\ op \in Calm => Retells(t, PutOne(a, op))
  <2> SUFFICES ASSUME NEW a, NEW op \in Calm, Retells(t, a)
               PROVE  Retells(t, PutOne(a, op))
    OBVIOUS
  <2>1. Ready(a)
    BY DEF Retells
  <2>2. Ready(PutOne(a, op))
    BY <2>1, PutWaits
  <2>3. ASSUME NEW f, NEW r, Idle(r), Reads(f, t, Now(r, t))
        PROVE  Reads(f, PutOne(a, op), Now(r, PutOne(a, op)))
    <3>1. Reads(f, a, Now(r, a))
      BY <2>3 DEF Retells
    <3> QED
      BY <2>1, <2>3, <3>1, CalmReads
  <2> QED
    BY <2>2, <2>3 DEF Retells
<1>4. Retells(t, Tells!Fold(t, ops))
  BY <1>1, <1>2, <1>3, Tells!FoldKeeps
<1> QED
  BY <1>4, PutAllTells

\* The registers that changed.
LEMMA RegUpdateReads ==
  ASSUME NEW r, Idle(r), NEW t, Ready(t), NEW regs \in [Regs -> Values], NEW f, Reads(f, t, Now(r, t))
  PROVE  Reads(f, RegUpdate(t, regs), Now(r, RegUpdate(t, regs)))
<1> DEFINE a == PutAll(t, Updates(regs, t.known))
           u == RegUpdate(t, regs)
<1>1. t.known \in [Regs -> Values]
  BY DEF Ready, TraceType
<1>2. Updates(regs, t.known) \in Seq(Calm)
  BY <1>1, UpdatesAreCalm
<1>3. Retells(t, a)
  BY <1>2, PutAllReads
<1>4. u = [a EXCEPT !.known = regs]
  BY DEF RegUpdate
<1> HIDE DEF a, u
<1>5. Ready(a) /\ Reads(f, a, Now(r, a))
  BY <1>3 DEF Retells
<1>6. u.frame = a.frame /\ u.packed = a.packed /\ u.sent = a.sent
  BY <1>4, <1>5 DEF Ready, TraceType
<1>7. Reads(f, u, Now(r, u))
  BY <1>5, <1>6 DEF Reads, ReadTo, Now
<1> QED
  BY <1>7 DEF u

\* A frame ends.
LEMMA FrameEnds ==
  ASSUME NEW f, NEW t \in TraceType, NEW p, Reads(f, t, p),
         NEW u, u.packed = Append(t.packed, Frame(t.frame))
  PROVE  Idle(ReadTo(f, u)) /\ Par(ReadTo(f, u), p)
<1> DEFINE g == Scan(ReadTo(f, t), t.frame)
           x == Frame(t.frame)
           s == f \o t.packed
<1>1. t.frame \in Seq(Fed) /\ t.packed \in Seq({Frame(ops) : ops \in Seq(Fed)})
  BY DEF TraceType
<1>2. f \in Seq(Pieces) /\ Par(g, p)
  BY DEF Reads
<1>3. x \in Pieces /\ t.packed \in Seq(Pieces)
  BY <1>1 DEF Pieces
<1>4. Feed(ReadTo(f, t), x) = Flush(g)
  BY DEF Feed, Frame, Scan
<1>5. Par(Flush(g), p) /\ ~Flush(g).pending
  <2> HIDE DEF g
  <2> QED
    BY <1>2, ParFlush
<1> HIDE DEF g, x
<1>6. f \o u.packed = Append(s, x) /\ s \in Seq(Pieces)
  BY <1>2, <1>3 DEF x
<1>7. ReadTo(f, t) = FeedAll(NewReplay, s)
  BY DEF ReadTo
<1> HIDE DEF s
<1>8. FeedAll(NewReplay, Append(s, x)) = Feed(FeedAll(NewReplay, s), x)
  BY <1>6, FeedOneMore
<1>9. ReadTo(f, u) = Flush(g)
  BY <1>4, <1>6, <1>7, <1>8 DEF ReadTo
<1> QED
  BY <1>5, <1>9 DEF Par, Idle

\* A jump begins a frame.
LEMMA JumpReads ==
  ASSUME NEW r, Idle(r), NEW t, Ready(t), ~t.insys, NEW f, Reads(f, t, Now(r, t)), NEW a \in Nat \ {0}
  PROVE  Reads(f, Put(t, Jmp(a), TRUE), Now(r, Put(t, Jmp(a), TRUE)))
<1> DEFINE op == Jmp(a)
           u == Put(t, op, TRUE)
           p == Now(r, t)
           g == Scan(ReadTo(f, t), t.frame)
<1>1. t \in TraceType /\ t.frame \in Seq(Fed) /\ t.packed \in Seq({Frame(ops) : ops \in Seq(Fed)})
  BY DEF Ready, TraceType
<1>2. f \in Seq(Pieces) /\ Idle(ReadTo(f, t)) /\ Par(g, p)
  BY DEF Reads
<1>3. Now(r, u) = Feed(p, op)
  <2>1. op \in Fed
    BY DEF Fed, Jumps
  <2> HIDE DEF op
  <2>2. u.sent = Append(t.sent, op)
    BY <1>1, <2>1, PutSends
  <2> HIDE DEF u
  <2>3. FeedAll(r, u.sent) = Feed(FeedAll(r, t.sent), op)
    BY <1>1, <2>2, SentIsFed, FeedOneMore
  <2> QED
    BY <2>3 DEF Now
<1>4. u.frame = <<op>>
  BY <1>1 DEF Put, TraceType
<1>5. Idle(ReadTo(f, u)) /\ Par(ReadTo(f, u), p)
  <2>1. CASE t.frame = <<>>
    <3>1. u.packed = t.packed
      BY <1>1, <2>1 DEF Put, TraceType
    <3>2. g = ReadTo(f, t)
      BY <2>1, ScanNone
    <3> HIDE DEF u, g, p
    <3> QED
      BY <1>2, <3>1, <3>2 DEF ReadTo
  <2>2. CASE t.frame # <<>>
    <3>1. u.packed = Append(t.packed, Frame(t.frame))
      BY <1>1, <2>2 DEF Put, TraceType
    <3> HIDE DEF u, p
    <3>2. Reads(f, t, p)
      BY DEF p
    <3> QED
      BY <1>1, <3>1, <3>2, FrameEnds
  <2> QED
    BY <2>1, <2>2
<1>6. Scan(ReadTo(f, u), u.frame) = FeedOne(ReadTo(f, u), op)
  BY <1>4, ScanOne
<1> HIDE DEF u, p
<1>7. Par(FeedOne(ReadTo(f, u), op), Feed(p, op))
  BY <1>5, ParJmp DEF Idle
<1>8. Reads(f, u, Now(r, u))
  BY <1>2, <1>3, <1>5, <1>6, <1>7 DEF Reads
<1> QED
  BY <1>8 DEF u

\* What of the recorder the reader does not see.
LEMMA SameReads ==
  ASSUME NEW r, NEW f, NEW t, Reads(f, t, Now(r, t)), NEW u, u.frame = t.frame, u.packed = t.packed, u.sent = t.sent
  PROVE  Reads(f, u, Now(r, u)) /\ Now(r, u) = Now(r, t)
BY DEF Reads, ReadTo, Now

\* The end of a system call is put when no effect waits.
LEMMA CallReads ==
  ASSUME NEW r, Idle(r), NEW t, Ready(t), ~t.insys, NEW f, Reads(f, t, Now(r, t)), Now(r, t).effects = <<>>,
         NEW ops \in Seq(Calm)
  PROVE  LET u == Put(t, Syscall(ops), FALSE)
         IN  Ready(u) /\ ~u.insys /\ u.step = t.step /\ Reads(f, u, Now(r, u)) /\ Now(r, u).effects = <<>>
<1> DEFINE op == Syscall(ops)
           u == Put(t, op, FALSE)
<1>1. op \in Fed
  BY DEF Fed
<1>2. \A g : Par(g, Now(r, t)) => Par(FeedOne(g, op), Feed(Now(r, t), op))
  BY ParCall
<1>3. Idle(Now(r, t)) /\ Feed(Now(r, t), op).effects = <<>>
  <2>1. Idle(Now(r, t))
    BY NowIs DEF Ready
  <2> QED
    BY <2>1, CallViews
<1> HIDE DEF op
<1>4. Reads(f, u, Now(r, u))
  BY <1>1, <1>2, PutReads
<1>5. Ready(u) /\ ~u.insys /\ u.step = t.step /\ Now(r, u) = Feed(Now(r, t), op)
  <2>1. Idle(r) /\ Ready(t) /\ ~t.insys /\ op \in Fed /\ FALSE \in BOOLEAN
    BY <1>1
  <2>2. LET w == Put(t, op, FALSE)
        IN  /\ Ready(w) /\ ~w.insys /\ w.sysops = <<>> /\ w.frame # <<>>
            /\ w.step = t.step /\ w.stepAddr = t.stepAddr /\ w.known = t.known
            /\ Now(r, w) = Feed(Now(r, t), op) /\ Idle(Now(r, w))
            /\ InParts(r, t) /\ Apart(Now(r, w).pages) => InParts(r, w)
    BY <2>1, SentBehind
  <2> QED
    BY <2>2
<1> QED
  BY <1>3, <1>4, <1>5 DEF op

\* An operation that does nothing.
LEMMA UpdateOther ==
  ASSUME NEW r
  PROVE  UpdateAll(r, <<Other>>) = r
<1> DEFINE op == Other
<1>1. Update(r, op) = r
  BY DEF Update, Other
<1> HIDE DEF op
<1>2. DOMAIN <<op>> = 1..1 /\ <<op>>[1] = op
  OBVIOUS
<1>3. Upd!Fold(r, <<op>>) = Update(r, <<op>>[1])
  BY <1>2, Upd!FoldOfOne
<1>4. UpdateAll(r, <<op>>) = r
  BY <1>1, <1>2, <1>3, UpdateAllIs
<1> QED
  BY <1>4 DEF op

\* The system call that the task exits in does nothing that a replay sees.
LEMMA ExitReads ==
  ASSUME NEW r, Idle(r), NEW t, Ready(t), ~t.insys, NEW f, Reads(f, t, Now(r, t))
  PROVE  LET u == Put(t, Syscall(<<Other>>), FALSE)
         IN  Ready(u) /\ u.step = t.step /\ Reads(f, u, Now(r, u))
<1> DEFINE op == Syscall(<<Other>>)
           p == Now(r, t)
<1>1. op \in Fed /\ FALSE \in BOOLEAN
  <2>1. <<Other>> \in Seq(Calm)
    BY DEF Calm
  <2> QED
    BY <2>1 DEF Fed
<1>2. \A a : UpdateAll(a, <<Other>>) = a
  BY UpdateOther
<1>3. ASSUME NEW g, Par(g, p)
      PROVE  Par(FeedOne(g, op), Feed(p, op))
  <2>1. FeedOne(g, op) = Flush(g)
    BY <1>2 DEF FeedOne, Syscall
  <2>2. FeedOne(p, op) = Flush(p) /\ Feed(p, op) = Flush(FeedOne(p, op))
    BY <1>2 DEF Feed, FeedOne, Syscall
  <2>3. Feed(p, op) = p
    BY <1>3, <2>2, FlushIdle DEF Par
  <2> QED
    BY <1>3, <2>1, <2>3, ParFlush
<1> HIDE DEF op
<1>4. Reads(f, Put(t, op, FALSE), Now(r, Put(t, op, FALSE)))
  BY <1>1, <1>3, PutReads DEF p
<1>5. LET w == Put(t, op, FALSE)
      IN  /\ Ready(w) /\ ~w.insys /\ w.sysops = <<>> /\ w.frame # <<>>
          /\ w.step = t.step /\ w.stepAddr = t.stepAddr /\ w.known = t.known
          /\ Now(r, w) = Feed(Now(r, t), op) /\ Idle(Now(r, w))
          /\ InParts(r, t) /\ Apart(Now(r, w).pages) => InParts(r, w)
  BY <1>1, SentBehind
<1> QED
  BY <1>4, <1>5 DEF op

\* trace.go:276-293: the registers, the step and the system call it made.
LEMMA FlushStepReads ==
  ASSUME NEW r, Idle(r), NEW t, Ready(t), t.step, NEW regs \in [Regs -> Values], NEW f, Reads(f, t, Now(r, t))
  PROVE  LET u == FlushStep(t, regs)
         IN  Ready(u) /\ ~u.insys /\ Reads(f, u, Now(r, u)) /\ Now(r, u).effects = <<>>
<1> DEFINE sys == [t EXCEPT !.insys = FALSE, !.sysops = <<>>]
           with == RegUpdate(sys, regs)
           ready == [with EXCEPT !.step = FALSE]
           done == Put(ready, Step, FALSE)
           u == FlushStep(t, regs)
<1>0. u = IF t.insys THEN Put(done, Syscall(t.sysops), FALSE) ELSE done
  BY DEF FlushStep
<1>1. /\ sys \in TraceType /\ ~sys.insys /\ sys.sysops = <<>> /\ t.sysops \in Seq(Calm)
      /\ sys.frame = t.frame /\ sys.packed = t.packed /\ sys.sent = t.sent
  <2>1. <<>> \in Seq(Calm)
    OBVIOUS
  <2> QED
    BY <2>1 DEF Ready, TraceType
<1> HIDE DEF sys
<1>2. Ready(sys) /\ Reads(f, sys, Now(r, sys))
  BY <1>1, SameReads DEF Ready
<1>3. Ready(with) /\ ~with.insys /\ Reads(f, with, Now(r, with))
  <2>1. LET w == RegUpdate(sys, regs) IN Ready(w) /\ w.insys = sys.insys
    BY <1>2, RegUpdateLate
  <2> QED
    BY <1>1, <1>2, <2>1, RegUpdateReads
<1> HIDE DEF with
<1>4. /\ ready \in TraceType /\ ~ready.insys /\ ready.sysops = with.sysops
      /\ ready.frame = with.frame /\ ready.packed = with.packed /\ ready.sent = with.sent
  BY <1>3 DEF Ready, TraceType
<1> HIDE DEF ready
<1>5. Ready(ready) /\ Reads(f, ready, Now(r, ready))
  BY <1>3, <1>4, SameReads DEF Ready
<1>6. Ready(done) /\ ~done.insys /\ Reads(f, done, Now(r, done)) /\ Now(r, done).effects = <<>>
  <2>1. Step \in Fed /\ Idle(Now(r, ready))
    BY <1>5, NowIs DEF Fed, Ready
  <2>2. \A g : Par(g, Now(r, ready)) => Par(FeedOne(g, Step), Feed(Now(r, ready), Step))
    BY ParStep
  <2>3. Reads(f, done, Now(r, done))
    BY <1>4, <1>5, <2>1, <2>2, PutReads
  <2>4. LET w == Put(ready, Step, FALSE)
        IN  Ready(w) /\ ~w.insys /\ Now(r, w) = Feed(Now(r, ready), Step)
    <3>1. Idle(r) /\ Ready(ready) /\ ~ready.insys /\ Step \in Fed /\ FALSE \in BOOLEAN
      BY <1>4, <1>5, <2>1
    <3> HIDE DEF done
    <3>2. LET w == Put(ready, Step, FALSE)
          IN  /\ Ready(w) /\ ~w.insys /\ w.sysops = <<>> /\ w.frame # <<>>
              /\ w.step = ready.step /\ w.stepAddr = ready.stepAddr /\ w.known = ready.known
              /\ Now(r, w) = Feed(Now(r, ready), Step) /\ Idle(Now(r, w))
              /\ InParts(r, ready) /\ Apart(Now(r, w).pages) => InParts(r, w)
      BY <3>1, SentBehind
    <3> QED
      BY <3>2
  <2>5. Feed(Now(r, ready), Step).effects = <<>>
    <3> DEFINE p == Now(r, ready)
    <3>1. Idle(p)
      BY <2>1
    <3> HIDE DEF p
    <3>2. Feed(p, Step).effects = <<>>
      BY <3>1, StepViews
    <3> QED
      BY <3>2 DEF p
  <2> QED
    BY <2>3, <2>4, <2>5
<1> HIDE DEF done
<1>7. CASE t.insys
  <2>1. LET w == Put(done, Syscall(t.sysops), FALSE)
        IN  Ready(w) /\ ~w.insys /\ Reads(f, w, Now(r, w)) /\ Now(r, w).effects = <<>>
    BY <1>1, <1>6, CallReads
  <2>2. u = Put(done, Syscall(t.sysops), FALSE)
    BY <1>0, <1>7
  <2> HIDE DEF u
  <2> QED
    BY <2>1, <2>2 DEF u
<1>8. CASE ~t.insys
  <2>1. u = done
    BY <1>0, <1>8
  <2> HIDE DEF u
  <2> QED
    BY <1>6, <2>1 DEF u
<1> QED
  BY <1>7, <1>8

\* A jump, and the instruction that is jumped to.
LEMMA JumpOnReads ==
  ASSUME NEW r, Idle(r), NEW t, Ready(t), ~t.insys, NEW a \in Nat \ {0}, NEW regs \in [Regs -> Values],
         t.step => t.stepAddr = a, NEW f, Reads(f, t, Now(r, t))
  PROVE  LET u == OnStep(Put(t, Jmp(a), TRUE), a, regs)
         IN  u \in TraceType /\ Reads(f, u, Now(r, u))
<1> DEFINE p == Put(t, Jmp(a), TRUE)
           u == OnStep(p, a, regs)
<1>1. Jmp(a) \in Fed /\ TRUE \in BOOLEAN /\ a \in Nat /\ t \in TraceType
  BY DEF Fed, Jumps, Ready
<1>2. p \in TraceType /\ ~p.insys /\ p.step = t.step /\ p.stepAddr = t.stepAddr
  BY <1>1, PutSends
<1>3. Reads(f, p, Now(r, p))
  BY JumpReads
<1> HIDE DEF p
<1>4. CASE a = p.stepAddr
  <2>1. u = p
    BY <1>4 DEF OnStep
  <2> HIDE DEF u
  <2> QED
    BY <1>2, <1>3, <2>1 DEF u, p
<1>5. CASE a # p.stepAddr
  <2>1. ~p.step
    BY <1>2, <1>5
  <2>2. FlushStep(p, regs) = [p EXCEPT !.insys = FALSE, !.sysops = <<>>]
    BY <1>2, <2>1 DEF FlushStep
  <2>3. u = [[p EXCEPT !.insys = FALSE, !.sysops = <<>>] EXCEPT !.step = TRUE, !.stepAddr = a]
    BY <1>5, <2>2 DEF OnStep
  <2>4. <<>> \in Seq(Calm)
    OBVIOUS
  <2>5. u \in TraceType /\ u.frame = p.frame /\ u.packed = p.packed /\ u.sent = p.sent
    BY <1>1, <1>2, <2>3, <2>4 DEF TraceType
  <2> HIDE DEF u
  <2>6. Reads(f, u, Now(r, u))
    BY <1>3, <2>5, SameReads
  <2> QED
    BY <2>5, <2>6 DEF u, p
<1> QED
  BY <1>4, <1>5

-----------------------------------------------------------------------------

\* The file and the frame behind it, as long as the log has not been cut.
FileInv == rewinds = 0 => tr.packed = <<>> /\ Reads(file, tr, replay)

\* trace.go:202-218 and usercorn.go:222-325: what is packed is in the file, and what was sent
\* is what the replay of the task is fed.
LEMMA RecordReads ==
  ASSUME NEW t \in TraceType, Record(t), Reads(file, t, Now(replay, t))
  PROVE  tr'.packed = <<>> /\ Reads(file', tr', replay')
<1>1. tr' = [t EXCEPT !.sent = <<>>, !.packed = <<>>] /\ file' = file \o t.packed /\ replay' = Now(replay, t)
  BY DEF Record, Now
<1>2. tr'.packed = <<>> /\ tr'.frame = t.frame
  BY <1>1 DEF TraceType
<1>3. file' \in Seq(Pieces) /\ file' \o <<>> = file'
  <2>1. file \in Seq(Pieces) /\ t.packed \in Seq(Pieces)
    BY DEF Reads, TraceType, Pieces
  <2> QED
    BY <1>1, <2>1
<1>4. FeedAll(NewReplay, file' \o tr'.packed) = ReadTo(file, t)
  BY <1>1, <1>2, <1>3 DEF ReadTo
<1> QED
  BY <1>1, <1>2, <1>3, <1>4 DEF Reads, ReadTo

\* The file begins with the keyframe that the replay of the task was fed.
LEMMA InitReads == Init => FileInv
<1> SUFFICES ASSUME Init
             PROVE  FileInv
  OBVIOUS
<1>1. PICK v \in Values, pages \in Loaded :
        LET regs == [n \in Regs |-> IF n = SP THEN v ELSE 0]
            kf == KeyframeOf(regs, pages) IN
        /\ tr = NewTrace(regs)
        /\ file = <<kf>> /\ replay = Feed(NewReplay, kf)
  BY DEF Init
<1> DEFINE regs == [n \in Regs |-> IF n = SP THEN v ELSE 0]
           kf == KeyframeOf(regs, pages)
<1>2. file = <<kf>> /\ replay = Feed(NewReplay, kf) /\ tr = NewTrace(regs)
  BY <1>1
<1>3. kf \in Keyframes
  <2>1. regs \in [Regs -> Values] /\ pages \in Seq(Page)
    BY TraceAssumption
  <2> HIDE DEF regs
  <2> QED
    BY <2>1, KeyframeIs
<1> HIDE DEF kf, regs
<1>4. file \in Seq(Pieces) /\ file \o <<>> = file
  BY <1>2, <1>3 DEF Pieces
<1>5. tr.packed = <<>> /\ tr.frame = <<>>
  BY <1>2 DEF NewTrace
<1>6. Idle(replay)
  BY InitHolds DEF TraceInv, TypesOK
<1>7. ReadTo(file, tr) = replay /\ Scan(ReadTo(file, tr), tr.frame) = replay
  BY <1>2, <1>4, <1>5, FeedSingle, ScanNone DEF ReadTo
<1>8. Par(replay, replay)
  BY <1>6 DEF Par, Idle
<1> QED
  BY <1>4, <1>5, <1>6, <1>7, <1>8 DEF FileInv, Reads

\* When nothing is sent, the replay is where the reader is.
LEMMA ReadsBetween ==
  ASSUME TraceInv, FollowInv, FileInv, rewinds = 0
  PROVE  Reads(file, tr, Now(replay, tr))
BY InBetween DEF FileInv

\* Where a block or an instruction begins.
LEMMA ArriveReads ==
  ASSUME TraceInv, FollowInv, FileInv, Arrive
  PROVE  FileInv'
<1> DEFINE regs == machine.regs
           pc == machine.pc
           t == IF at = "next" THEN tr ELSE OnJmp(tr, pc, regs)
           n == OnStep(t, pc, regs)
           u == FlushStep(tr, regs)
<1>1. at \in {"start", "jumped", "next"} /\ Record(n) /\ rewinds' = rewinds
  BY DEF Arrive
<1> SUFFICES ASSUME rewinds = 0
             PROVE  tr'.packed = <<>> /\ Reads(file', tr', replay')
  BY <1>1 DEF FileInv
<1>2. /\ Idle(replay) /\ Ready(tr) /\ tr \in TraceType /\ Now(replay, tr) = replay
      /\ regs \in [Regs -> Values] /\ pc \in Nat \ {0} /\ Reads(file, tr, Now(replay, tr))
  BY InBetween, ReadsBetween
<1>3. /\ at = "start" => ~tr.insys /\ (tr.step => tr.stepAddr = pc)
      /\ at = "jumped" => ~tr.insys /\ tr.step
      /\ at = "next" => tr.step /\ tr.stepAddr # pc
  BY <1>1 DEF TraceInv, AtHook
<1>4. at \in {"next", "jumped"} =>
        /\ Ready(u) /\ ~u.insys /\ ~u.step /\ Reads(file, u, Now(replay, u)) /\ Now(replay, u).effects = <<>>
  <2> SUFFICES ASSUME at \in {"next", "jumped"}
               PROVE  /\ Ready(u) /\ ~u.insys /\ ~u.step /\ Reads(file, u, Now(replay, u))
                      /\ Now(replay, u).effects = <<>>
    OBVIOUS
  <2>1. tr.step
    BY <1>3
  <2> HIDE DEF regs
  <2>2. LET w == FlushStep(tr, regs)
        IN  Ready(w) /\ ~w.insys /\ Reads(file, w, Now(replay, w)) /\ Now(replay, w).effects = <<>>
    BY <1>2, <2>1, FlushStepReads
  <2>3. LET w == FlushStep(tr, regs) IN ~w.step
    BY <1>2, FlushStepSends
  <2> QED
    BY <2>2, <2>3
<1>5. CASE at = "next"
  <2>1. n = [u EXCEPT !.step = TRUE, !.stepAddr = pc]
    BY <1>3, <1>5 DEF OnStep
  <2>2. Ready(u) /\ Reads(file, u, Now(replay, u))
    BY <1>4, <1>5
  <2> HIDE DEF u, n, t
  <2>3. n \in TraceType /\ n.frame = u.frame /\ n.packed = u.packed /\ n.sent = u.sent
    BY <1>2, <2>1, <2>2 DEF Ready, TraceType
  <2>4. Reads(file, n, Now(replay, n))
    BY <2>2, <2>3, SameReads
  <2> QED
    BY <1>1, <2>3, <2>4, RecordReads
<1>6. CASE at = "jumped" /\ tr.stepAddr # pc
  <2>1. n = OnStep(Put(u, Jmp(pc), TRUE), pc, regs)
    BY <1>3, <1>6 DEF OnJmp
  <2>2. Ready(u) /\ ~u.insys /\ ~u.step /\ Reads(file, u, Now(replay, u))
    BY <1>4, <1>6
  <2> HIDE DEF u, t, regs, pc, n
  <2>3. LET w == OnStep(Put(u, Jmp(pc), TRUE), pc, regs)
        IN  w \in TraceType /\ Reads(file, w, Now(replay, w))
    BY <1>2, <2>2, JumpOnReads
  <2> QED
    BY <1>1, <2>1, <2>3, RecordReads
<1>7. CASE at = "start" \/ (at = "jumped" /\ tr.stepAddr = pc)
  <2>1. n = OnStep(Put(tr, Jmp(pc), TRUE), pc, regs)
    BY <1>3, <1>7 DEF OnJmp
  <2>2. ~tr.insys /\ (tr.step => tr.stepAddr = pc)
    BY <1>3, <1>7
  <2> HIDE DEF u, t, regs, pc, n
  <2>3. LET w == OnStep(Put(tr, Jmp(pc), TRUE), pc, regs)
        IN  w \in TraceType /\ Reads(file, w, Now(replay, w))
    BY <1>2, <2>2, JumpOnReads
  <2> QED
    BY <1>1, <2>1, <2>3, RecordReads
<1> QED
  BY <1>1, <1>5, <1>6, <1>7

\* What an instruction writes, maps and unmaps.
LEMMA WorkReads ==
  ASSUME TraceInv, FollowInv, FileInv, Work
  PROVE  FileInv'
<1>1. at = "arrived" /\ rewinds' = rewinds
  BY DEF Work
<1> SUFFICES ASSUME rewinds = 0
             PROVE  tr'.packed = <<>> /\ Reads(file', tr', replay')
  BY <1>1 DEF FileInv
<1>2. Idle(replay) /\ Ready(tr) /\ tr \in TraceType /\ Reads(file, tr, Now(replay, tr)) /\ machine \in Machine
  BY InBetween, ReadsBetween
<1>3. CASE Record(tr)
  BY <1>2, <1>3, RecordReads
<1>4. CASE \E x \in DOMAIN machine.cells, b \in Byte : Record(Put(tr, MemWriteOp(<<x, x + 1>>, <<b>>), FALSE))
  <2>1. PICK x \in DOMAIN machine.cells, b \in Byte : Record(Put(tr, MemWriteOp(<<x, x + 1>>, <<b>>), FALSE))
    BY <1>4
  <2> DEFINE op == MemWriteOp(<<x, x + 1>>, <<b>>)
  <2>2. x \in Nat
    BY <1>2 DEF Machine, Memories
  <2>3. op \in Calm
    <3>1. <<x, x + 1>> \in Spans /\ Len(<<b>>) = Size(<<x, x + 1>>) /\ <<b>> \in Seq(Byte)
      BY <2>2 DEF Spans, Size
    <3> QED
      BY <2>2, <3>1, WritesAreCalm
  <2>4. Record(PutOne(tr, op))
    BY <2>1 DEF PutOne
  <2> HIDE DEF op
  <2>5. Reads(file, PutOne(tr, op), Now(replay, PutOne(tr, op)))
    BY <1>2, <2>3, CalmReads
  <2>6. PutOne(tr, op) \in TraceType
    BY <1>2, <2>3, PutCalm DEF Kept
  <2> QED
    BY <2>4, <2>5, <2>6, RecordReads
<1> QED
  BY <1>3, <1>4 DEF Work

\* What a system call does, which waits for its end.
LEMMA SyscallReads ==
  ASSUME TraceInv, FollowInv, FileInv, SyscallWork
  PROVE  FileInv'
<1>1. at = "arrived" /\ rewinds' = rewinds
  BY DEF SyscallWork
<1> SUFFICES ASSUME rewinds = 0
             PROVE  tr'.packed = <<>> /\ Reads(file', tr', replay')
  BY <1>1 DEF FileInv
<1>2. /\ Idle(replay) /\ Ready(tr) /\ tr \in TraceType /\ Reads(file, tr, Now(replay, tr))
      /\ machine \in Machine /\ ~tr.insys /\ tr.frame # <<>>
  BY <1>1, InBetween, ReadsBetween
<1>a. PICK r \in Ranges, v \in Values : \E work \in KernelWork(machine.cells, r) :
        Record(OnSysPost(PutAll(OnSysPre(tr), work.ops), [machine.regs EXCEPT ![SP] = v]))
  BY DEF SyscallWork
<1>3. PICK work \in KernelWork(machine.cells, r) :
        Record(OnSysPost(PutAll(OnSysPre(tr), work.ops), [machine.regs EXCEPT ![SP] = v]))
  BY <1>a
<1> DEFINE regs == [machine.regs EXCEPT ![SP] = v]
           b == OnSysPre(tr)
           q == PutAll(b, work.ops)
           t == RegUpdate(q, regs)
<1>4. work.ops \in Seq(Calm) /\ regs \in [Regs -> Values]
  BY <1>2, KernelWorkIs, TraceAssumption DEF Machine
<1>5. Record(OnSysPost(q, regs))
  BY <1>3
<1> HIDE DEF regs
<1>6. Ready(b) /\ b.insys /\ Reads(file, b, Now(replay, b))
  <2>1. <<>> \in Seq(Calm) /\ FlushSys(tr) = tr
    BY <1>2 DEF FlushSys
  <2>2. b = [tr EXCEPT !.insys = TRUE, !.sysops = <<>>]
    BY <2>1 DEF OnSysPre
  <2> HIDE DEF b
  <2>3. b \in TraceType /\ b.insys /\ b.frame = tr.frame /\ b.packed = tr.packed /\ b.sent = tr.sent
    BY <1>2, <2>1, <2>2 DEF TraceType
  <2>4. Reads(file, b, Now(replay, b))
    BY <1>2, <2>3, SameReads
  <2> QED
    BY <1>2, <2>3, <2>4 DEF Ready
<1> HIDE DEF b
<1>7. Retells(b, q)
  BY <1>4, <1>6, PutAllReads
<1>8. q.insys
  <2>1. Kept(b, q)
    BY <1>4, <1>6, PutAllCalm DEF Ready
  <2> QED
    BY <1>6, <2>1 DEF Kept
<1> HIDE DEF q
<1>9. Ready(q) /\ Reads(file, q, Now(replay, q))
  BY <1>2, <1>6, <1>7 DEF Retells
<1>10. Record(t)
  BY <1>5, <1>8 DEF OnSysPost
<1>11. Reads(file, t, Now(replay, t))
  BY <1>2, <1>4, <1>9, RegUpdateReads
<1>12. t \in TraceType
  <2>1. LET w == RegUpdate(q, regs) IN Ready(w)
    BY <1>2, <1>4, <1>9, RegUpdateLate
  <2> QED
    BY <2>1 DEF Ready
<1> HIDE DEF t
<1> QED
  BY <1>10, <1>11, <1>12, RecordReads

\* trace.go:166-189: the last step and the last frame, when the trace is closed.
LEMMA FinishReads ==
  ASSUME TraceInv, FollowInv, FileInv, Finish
  PROVE  FileInv'
<1> DEFINE regs == machine.regs
<1>1. at = "arrived" /\ rewinds' = rewinds
  BY DEF Finish
<1> SUFFICES ASSUME rewinds = 0
             PROVE  tr'.packed = <<>> /\ Reads(file', tr', replay')
  BY <1>1 DEF FileInv
<1>2. /\ Idle(replay) /\ Ready(tr) /\ tr \in TraceType /\ Reads(file, tr, Now(replay, tr)) /\ Now(replay, tr) = replay
      /\ regs \in [Regs -> Values] /\ tr.sent = <<>> /\ tr.step /\ ~tr.insys /\ tr.frame # <<>>
  BY <1>1, InBetween, ReadsBetween
<1> HIDE DEF regs
<1>3. PICK sys \in BOOLEAN :
        LET t == FlushStep(OnExit(IF sys THEN OnSysPre(tr) ELSE tr), regs) IN
        Record([t EXCEPT !.packed = Append(@, Frame(t.frame)), !.frame = <<>>])
  BY DEF Finish, regs
<1> DEFINE s == IF sys THEN OnSysPre(tr) ELSE tr
           y == PutOne(s, Other)
           e == OnExit(s)
           t == FlushStep(e, regs)
           n == [t EXCEPT !.packed = Append(@, Frame(t.frame)), !.frame = <<>>]
<1>4. Record(n)
  BY <1>3
<1>5. Other \in Calm
  BY DEF Calm
<1>6. Ready(s) /\ s.step /\ s.sent = <<>> /\ s.sysops = <<>> /\ Reads(file, s, Now(replay, s))
  <2>1. CASE sys
    <3>1. <<>> \in Seq(Calm) /\ FlushSys(tr) = tr
      BY <1>2 DEF FlushSys
    <3>2. s = [tr EXCEPT !.insys = TRUE, !.sysops = <<>>]
      BY <2>1, <3>1 DEF OnSysPre
    <3> HIDE DEF s
    <3>3. s \in TraceType /\ s.insys /\ s.step = tr.step /\ s.frame = tr.frame /\ s.packed = tr.packed /\ s.sent = tr.sent
          /\ s.sysops = <<>>
      BY <1>2, <3>1, <3>2 DEF TraceType
    <3>4. Reads(file, s, Now(replay, s))
      BY <1>2, <3>3, SameReads
    <3> QED
      BY <1>2, <3>3, <3>4 DEF Ready
  <2>2. CASE ~sys
    BY <1>2, <2>2 DEF Ready
  <2> QED
    BY <2>1, <2>2
<1>7. e = FlushSys(y)
  BY DEF OnExit, PutOne
<1> HIDE DEF s
<1>8. Reads(file, y, Now(replay, y))
  BY <1>2, <1>5, <1>6, CalmReads
<1>9. Ready(y) /\ y.step /\ (y.insys => y.sysops = <<Other>>)
  <2>1. LET w == PutOne(s, Other)
        IN  /\ Ready(w) /\ Kept(s, w) /\ w.frame # <<>> /\ w.known = s.known
            /\ s.insys => w.sysops = Append(s.sysops, Other) /\ w.sent = s.sent
            /\ ~s.insys => w.sysops = <<>> /\ s.sysops = <<>> /\ w.sent = Append(s.sent, Other)
    BY <1>5, <1>6, PutWaits
  <2>2. Append(<<>>, Other) = <<Other>>
    OBVIOUS
  <2>3. s.insys = y.insys
    BY <2>1 DEF Kept
  <2> HIDE DEF y
  <2> QED
    BY <1>6, <2>1, <2>2, <2>3 DEF Kept, y
<1> HIDE DEF y
<1>10. Ready(e) /\ e.step /\ Reads(file, e, Now(replay, e))
  <2>1. CASE y.insys
    <3> DEFINE z == [y EXCEPT !.insys = FALSE, !.sysops = <<>>]
    <3>1. e = Put(z, Syscall(y.sysops), FALSE)
      BY <1>7, <2>1 DEF FlushSys
    <3>2. /\ z \in TraceType /\ ~z.insys /\ z.step /\ z.sysops = <<>> /\ y.sysops \in Seq(Calm)
          /\ z.frame = y.frame /\ z.packed = y.packed /\ z.sent = y.sent
      <4>1. <<>> \in Seq(Calm)
        OBVIOUS
      <4> QED
        BY <1>9, <4>1 DEF Ready, TraceType
    <3> HIDE DEF z
    <3>3. Reads(file, z, Now(replay, z)) /\ Now(replay, z) = Now(replay, y)
      BY <1>8, <3>2, SameReads
    <3>4. Ready(z) /\ y.sysops = <<Other>>
      BY <1>9, <2>1, <3>2 DEF Ready
    <3>5. LET w == Put(z, Syscall(<<Other>>), FALSE)
          IN  Ready(w) /\ w.step = z.step /\ Reads(file, w, Now(replay, w))
      BY <1>2, <3>2, <3>3, <3>4, ExitReads
    <3> HIDE DEF e
    <3> QED
      BY <3>1, <3>2, <3>4, <3>5
  <2>2. CASE ~y.insys
    BY <1>7, <1>8, <1>9, <2>2 DEF FlushSys
  <2> QED
    BY <2>1, <2>2
<1> HIDE DEF e
<1>11. Ready(t) /\ Reads(file, t, Now(replay, t)) /\ Now(replay, t).effects = <<>>
  <2>1. LET w == FlushStep(e, regs)
        IN  Ready(w) /\ ~w.insys /\ Reads(file, w, Now(replay, w)) /\ Now(replay, w).effects = <<>>
    BY <1>2, <1>10, FlushStepReads
  <2> QED
    BY <2>1
<1> HIDE DEF t
<1>12. /\ n \in TraceType /\ n.packed = Append(t.packed, Frame(t.frame)) /\ n.frame = <<>> /\ n.sent = t.sent
  <2>1. t \in TraceType /\ <<>> \in Seq(Fed)
    BY <1>11 DEF Ready
  <2>2. Append(t.packed, Frame(t.frame)) \in Seq({Frame(ops) : ops \in Seq(Fed)})
    BY <2>1 DEF TraceType
  <2> QED
    BY <2>1, <2>2 DEF TraceType
<1>13. Record(n)
  BY <1>4 DEF t, e, s
<1> HIDE DEF n
<1>14. Reads(file, n, Now(replay, n))
  <2> DEFINE p == Now(replay, t)
  <2>1. t \in TraceType /\ Reads(file, t, p) /\ p.effects = <<>>
    BY <1>11 DEF Ready
  <2>2. Now(replay, n) = p
    BY <1>12 DEF Now
  <2> HIDE DEF p
  <2>3. Idle(ReadTo(file, n)) /\ Par(ReadTo(file, n), p)
    BY <1>12, <2>1, FrameEnds
  <2>4. Scan(ReadTo(file, n), n.frame) = ReadTo(file, n)
    BY <1>12, ScanNone
  <2> QED
    BY <2>1, <2>2, <2>3, <2>4 DEF Reads
<1> QED
  BY <1>12, <1>13, <1>14, RecordReads

\* Each action keeps it; a rewind ends it.
LEMMA NextReads ==
  ASSUME TraceInv, FollowInv, FileInv, [Next]_vars
  PROVE  FileInv'
<1>1. CASE Arrive
  BY <1>1, ArriveReads
<1>2. CASE Work
  BY <1>2, WorkReads
<1>3. CASE SyscallWork
  BY <1>3, SyscallReads
<1>4. CASE Finish
  BY <1>4, FinishReads
<1>5. CASE Stop \/ Resume \/ UNCHANGED vars
  <2>1. tr' = tr /\ file' = file /\ replay' = replay /\ rewinds' = rewinds
    BY <1>5 DEF Stop, Resume, vars
  <2> QED
    BY <2>1 DEF FileInv, Reads, ReadTo
<1>6. CASE RewindSome
  <2>1. rewinds' = rewinds + 1 /\ rewinds \in Nat
    BY <1>6 DEF RewindSome, Rewind, TraceInv, TypesOK
  <2>2. rewinds' # 0
    BY <2>1
  <2> QED
    BY <2>2 DEF FileInv
<1> QED
  BY <1>1, <1>2, <1>3, <1>4, <1>5, <1>6 DEF Next

\* trace.go:211-264, replay.go:83-127: at every moment until the first rewind, a reader that is
\* given the file and then, as one frame, what the recorder has not yet packed of it, is at the
\* instruction of the replay of the task, with the same count, and holds the same registers
\* and memory, waiting or applied.
THEOREM FileInvariant == Spec => []FileInv
<1>1. TraceInv /\ FollowInv /\ FileInv /\ [Next]_vars => FileInv'
  BY NextReads
<1> QED
  BY <1>1, InitReads, TraceInvariant, FollowInvariant, PTL DEF Spec

\* A replay without its stack and what waits.
Bare(r) == [r EXCEPT !.effects = <<>>, !.stack = <<>>]
\* Two replays that are alike but for what waits and the stack.
LEMMA SameBut ==
  ASSUME NEW a \in ReplayType, NEW b \in ReplayType, a.pc = b.pc, a.regs = b.regs, a.pages = b.pages,
         a.inscount = b.inscount, a.pending = b.pending
  PROVE  Bare(a) = Bare(b)
BY DEF Bare, ReplayType

\* What is alike is the same when all that waits is applied and the stack is left out.
Settle(r) == Bare(UpdateAll(r, r.effects))
\* Two replays that hold the same are the same when what they hold is applied.
LEMMA SameSettles ==
  ASSUME NEW g \in ReplayType, NEW p \in ReplayType, ~g.pending, ~p.pending,
         g.pc = p.pc, g.inscount = p.inscount, Held(g) = Held(p)
  PROVE  Settle(g) = Settle(p)
<1>1. ASSUME NEW r \in ReplayType, ~r.pending
      PROVE  LET c == UpdateAll(r, r.effects)
             IN  /\ c \in ReplayType /\ c.pc = r.pc /\ c.inscount = r.inscount /\ c.pending = FALSE
                 /\ c.regs = Held(r).regs /\ c.pages = Held(r).pages
  <2> DEFINE c == UpdateAll(r, r.effects)
  <2>1. r.effects \in Seq(Calm) /\ r.pending = FALSE
    BY <1>1 DEF ReplayType
  <2>2. Same(r, c) /\ View(c) = Held(r)
    BY <2>1, CalmUpdates, UpdatesRecall DEF Held
  <2> HIDE DEF c
  <2>3. c \in ReplayType /\ c.pc = r.pc /\ c.inscount = r.inscount /\ c.pending = FALSE
    BY <2>1, <2>2 DEF Same
  <2>4. c.pages = Held(r).pages /\ c.regs = Held(r).regs
    BY <2>2 DEF View
  <2> QED
    BY <2>3, <2>4 DEF c
<1> DEFINE a == UpdateAll(g, g.effects)
           b == UpdateAll(p, p.effects)
<1>2. /\ a \in ReplayType /\ a.pc = g.pc /\ a.inscount = g.inscount /\ a.pending = FALSE
      /\ a.regs = Held(g).regs /\ a.pages = Held(g).pages
  BY <1>1
<1>3. /\ b \in ReplayType /\ b.pc = p.pc /\ b.inscount = p.inscount /\ b.pending = FALSE
      /\ b.regs = Held(p).regs /\ b.pages = Held(p).pages
  BY <1>1
<1> HIDE DEF a, b
<1>4. Bare(a) = Bare(b)
  BY <1>2, <1>3, SameBut
<1> QED
  BY <1>4 DEF Settle, a, b

\* So the reader, at the end of the file, is the replay of the task.
LEMMA ParSettles ==
  ASSUME NEW g, NEW p, Par(g, p)
  PROVE  Settle(Flush(g)) = Settle(p)
<1>1. p \in ReplayType /\ ~p.pending
  BY DEF Par, Idle
<1>2. CASE g.pending
  <2> DEFINE f == Flush(g)
  <2>1. /\ Idle(f) /\ f.pc = g.pc + 1 /\ f.inscount = g.inscount + 1 /\ View(f) = Held(g) /\ f.effects = <<>>
    BY <1>2, FlushPending, FlushViews DEF Par
  <2> HIDE DEF f
  <2>2. Held(f) = Held(g)
    BY <2>1, HeldOfNone
  <2>3. /\ f \in ReplayType /\ ~f.pending /\ f.pc = p.pc /\ f.inscount = p.inscount /\ Held(f) = Held(p)
    BY <1>2, <2>1, <2>2 DEF Par, Idle
  <2> QED
    BY <1>1, <2>3, SameSettles DEF f
<1>3. CASE ~g.pending
  <2>1. Flush(g) = g /\ g \in ReplayType /\ g.pc = p.pc /\ g.inscount = p.inscount /\ Held(g) = Held(p)
    BY <1>3, FlushIdle DEF Par, Idle
  <2> QED
    BY <1>1, <1>3, <2>1, SameSettles
<1> QED
  BY <1>2, <1>3

\* replay.go:83-146: the file, which has whole frames, is replayed to the registers, memory and
\* count to which the operations one by one are replayed.
THEOREM FileReplays == Spec => []FileRetells
<1>1. TraceInv /\ FileInv => FileRetells
  <2> SUFFICES ASSUME TraceInv, FileInv, rewinds = 0
               PROVE  LET read == FeedAll(NewReplay, file \o (IF tr.frame = <<>> THEN <<>> ELSE <<Frame(tr.frame)>>))
                      IN  Settle(read) = Settle(replay)
    BY DEF FileRetells, Settle, Bare
  <2> DEFINE r == FeedAll(NewReplay, file)
             g == Scan(r, tr.frame)
  <2>1. file \in Seq(Pieces) /\ file \o <<>> = file /\ tr.packed = <<>>
    BY DEF FileInv, Reads
  <2>2. ReadTo(file, tr) = r
    BY <2>1 DEF ReadTo
  <2>3. Idle(r) /\ Par(g, replay)
    BY <2>2 DEF FileInv, Reads
  <2>4. CASE tr.frame = <<>>
    <3>1. g = r
      BY <2>4, ScanNone
    <3> HIDE DEF r, g
    <3>2. Flush(r) = r
      BY <2>3, FlushIdle
    <3>3. Settle(r) = Settle(replay)
      BY <2>3, <3>1, <3>2, ParSettles
    <3> QED
      BY <2>1, <2>4, <3>3 DEF r
  <2>5. CASE tr.frame # <<>>
    <3> DEFINE x == Frame(tr.frame)
    <3>1. tr.frame \in Seq(Fed)
      BY DEF TraceInv, TypesOK, TraceType
    <3>2. x \in Pieces
      BY <3>1 DEF Pieces
    <3>3. Feed(r, x) = Flush(g)
      BY DEF Feed, Frame, Scan
    <3> HIDE DEF x
    <3>4. file \in Seq(Pieces) /\ file \o <<x>> = Append(file, x)
      BY <2>1
    <3>5. FeedAll(NewReplay, Append(file, x)) = Feed(FeedAll(NewReplay, file), x)
      BY <3>2, <3>4, FeedOneMore
    <3>6. FeedAll(NewReplay, file \o <<x>>) = Flush(g)
      BY <3>3, <3>4, <3>5 DEF r
    <3> HIDE DEF g, r
    <3>7. Settle(Flush(g)) = Settle(replay)
      BY <2>3, ParSettles
    <3> QED
      BY <2>5, <3>6, <3>7 DEF x
  <2> QED
    BY <2>4, <2>5
<1> QED
  BY <1>1, TraceInvariant, FileInvariant, PTL

=============================================================================
